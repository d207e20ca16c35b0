------------------------ MODULE ExternalEffectsProofs ------------------------
(***************************************************************************)
(* An external effect is performed once at most, only with the user's      *)
(* consent where it is needed, and what was approved is replayed: for any  *)
(* requests, tools, rules, invocations, failures and changes of the rules. *)
(***************************************************************************)
EXTENDS ExternalEffects, FiniteSetTheorems, TLAPS

------------------------------------------------------------------------------
(* Types *)

Calling == Steps \ {"idle", "starting", "ready"}
LastingKeys == {Lasting(r) : r \in Requests}

CallTypes == [of : Requests \cup {None}, key : Keys \cup {None},
              from : {"intended", "approved"}]
ExecTypes == [pc : Steps, start : 0..MaxStarts, calls : 0..MaxCalls,
              rules : RuleSets \cup {Unread}, queue : SUBSET Keys, call : CallTypes]

\* The locals of one invocation.
LocalsOK(x) ==
  /\ x \in ExecTypes
  /\ IF x.pc \in Calling THEN x.call.key \in Keys ELSE x.call = NoCall

ExecInv == exec \in [Execs -> ExecTypes] /\ \A e \in Execs : LocalsOK(exec[e])

\* The types, with those of the locals as one set of records.
TypeInv == TypeOK /\ ExecInv

\* Every step that is an invocation's.
Acts(e) ==
  \/ Begin(e) \/ Prepare(e) \/ Replay(e) \/ (\E r \in Requests : Call(e, r))
  \/ Find(e) \/ Create(e) \/ LookAtRun(e) \/ Renew(e) \/ Pause(e) \/ Claim(e)
  \/ Reread(e) \/ Settle(e) \/ Perform(e) \/ Complete(e) \/ Finish(e) \/ Die(e)
  \/ ToolThrows(e) \/ RunThrows(e)

\* A step is an invocation's, or the user's, who leaves the invocations alone.
LEMMA Actors ==
  ASSUME [Next]_vars
  PROVE  \/ \E e \in Execs : Acts(e)
         \/ (\E k \in Keys : ReadAnswer(k)) \/ CommitAnswer \/ EditRules \/ Retry
         \/ UNCHANGED vars
  BY DEF Next, Step, Acts

LEMMA UserLeavesExec ==
  ASSUME (\E k \in Keys : ReadAnswer(k)) \/ CommitAnswer \/ EditRules \/ Retry \/ UNCHANGED vars
  PROVE  UNCHANGED <<exec, starts, faults, performed, created, asked, swallowed>>
  BY DEF ReadAnswer, CommitAnswer, EditRules, Retry, vars, counts, ghosts

\* Keys and locals at their beginning.
LEMMA KeysTyped ==
  /\ \A r \in Requests : Lasting(r) \in Keys
  /\ \A r \in Requests, s \in 0..MaxStarts, n \in 0..MaxCalls : <<r, s, n>> \in Keys
  /\ \A k \in Keys : /\ k[1] \in Requests /\ k[2] \in 0..MaxStarts /\ k[3] \in 0..MaxCalls
                     /\ k = <<k[1], k[2], k[3]>>
  BY EffectConstantsOK DEF Lasting, Keys

LEMMA IdleTyped == LocalsOK(Idle) /\ Idle.pc = "idle" /\ Idle.call = NoCall
  BY EffectConstantsOK
     DEF LocalsOK, ExecTypes, CallTypes, Idle, NoCall, Calling, Steps, Unread

\* What the steps of an invocation do to its locals, if not to end it.
Gone(e) == exec' = [exec EXCEPT ![e] = Idle]

\* Nobody's locals change but e's.
Only(e) ==
  exec' = [exec EXCEPT ![e] = exec'[e]] /\ \A f \in Execs \ {e} : exec'[f] = exec[f]

LEMMA Locals ==
  ASSUME ExecInv, NEW e \in Execs
  PROVE  /\ Gone(e) => exec'[e] = Idle
         /\ \A pc : Goto(e, pc) => exec'[e] = [exec[e] EXCEPT !.pc = pc]
         /\ Result(e) => exec'[e] = [exec[e] EXCEPT !.pc = "ready", !.call = NoCall]
         /\ Gone(e) => Only(e)
         /\ \A pc : Goto(e, pc) => Only(e)
         /\ Result(e) => Only(e)
<1>1. exec[e] \in ExecTypes /\ exec \in [Execs -> ExecTypes]
  BY DEF ExecInv
<1>2. ASSUME Gone(e) PROVE exec'[e] = Idle /\ Only(e)
  BY <1>1, <1>2 DEF Gone, Only
<1>3. ASSUME NEW pc, Goto(e, pc) PROVE exec'[e] = [exec[e] EXCEPT !.pc = pc] /\ Only(e)
  BY <1>1, <1>3 DEF Goto, Only
<1>4. ASSUME Result(e)
      PROVE exec'[e] = [exec[e] EXCEPT !.pc = "ready", !.call = NoCall] /\ Only(e)
  <2>1. exec'[e] = [exec[e] EXCEPT !.pc = "ready", !.call = NoCall]
    BY <1>1, <1>4 DEF Result
  <2>2. exec' = [exec EXCEPT ![e] = exec'[e]]
    BY <1>1, <1>4, <2>1 DEF Result
  <2> QED
    BY <1>1, <1>4, <2>1, <2>2 DEF Result, Only
<1> QED
  BY <1>2, <1>3, <1>4

LEMMA LocalsTyped ==
  ASSUME NEW x, LocalsOK(x)
  PROVE  /\ LocalsOK([x EXCEPT !.pc = "ready", !.call = NoCall])
         /\ x.pc \in Calling => \A pc \in Calling : LocalsOK([x EXCEPT !.pc = pc])
<1>1. NoCall \in CallTypes
  BY DEF NoCall, CallTypes
<1>2. x \in ExecTypes
  BY DEF LocalsOK
<1>3. LocalsOK([x EXCEPT !.pc = "ready", !.call = NoCall])
  BY <1>1, <1>2 DEF LocalsOK, ExecTypes, Calling, Steps
<1>4. ASSUME x.pc \in Calling, NEW pc \in Calling PROVE LocalsOK([x EXCEPT !.pc = pc])
  BY <1>2, <1>4 DEF LocalsOK, ExecTypes, Calling
<1> QED
  BY <1>3, <1>4

\* An invocation's step leaves the others alone and keeps its types.
LEMMA OneActs ==
  ASSUME TypeInv, NEW e \in Execs, Acts(e)
  PROVE  Only(e) /\ LocalsOK(exec'[e])
<1> USE DEF TypeInv
<1>x. exec[e] \in ExecTypes /\ LocalsOK(exec[e]) /\ exec \in [Execs -> ExecTypes]
  BY DEF ExecInv
<1>a. ASSUME Gone(e) PROVE Only(e) /\ LocalsOK(exec'[e])
  BY <1>a, Locals, IdleTyped
<1>b. ASSUME Result(e) PROVE Only(e) /\ LocalsOK(exec'[e])
  <2>1. exec'[e] = [exec[e] EXCEPT !.pc = "ready", !.call = NoCall] /\ Only(e)
    BY <1>b, Locals
  <2>2. LocalsOK([exec[e] EXCEPT !.pc = "ready", !.call = NoCall])
    BY <1>x, LocalsTyped
  <2> QED
    BY   <2>1,   <2>2
<1>c. ASSUME NEW pc \in Calling, Goto(e, pc), exec[e].pc \in Calling
      PROVE Only(e) /\ LocalsOK(exec'[e])
  <2>1. exec'[e] = [exec[e] EXCEPT !.pc = pc] /\ Only(e)
    BY <1>c, Locals
  <2>2. LocalsOK([exec[e] EXCEPT !.pc = pc])
    BY <1>c, <1>x, LocalsTyped
  <2> QED
    BY <2>1, <2>2
<1>d. {"finding", "creating", "looking", "renewing", "pausing", "claiming",
       "rereading", "settling", "performing", "completing"} = Calling
  BY DEF Calling, Steps
<1>1. CASE Begin(e)
  <2> DEFINE x == [Idle EXCEPT !.pc = "starting", !.start = starts + 1]
  <2>1. LocalsOK(x)
    <3>1. starts + 1 \in 0..MaxStarts
      BY <1>1, EffectConstantsOK DEF Begin, TypeOK
    <3> QED
      BY <3>1, IdleTyped DEF LocalsOK, ExecTypes, Calling, Steps, Idle
  <2>2. exec' = [exec EXCEPT ![e] = x]
    BY <1>1 DEF Begin
  <2> QED
    BY <2>1, <2>2, <1>x DEF Only
<1>2. CASE Prepare(e)
  <2> DEFINE Q == {k \in Keys : effect[k] = "approved"}
  <2>1. exec'[e] = [exec[e] EXCEPT !.pc = "ready", !.queue = Q]
    BY <1>2, <1>x DEF Prepare
  <2>2. exec[e].call = NoCall
    BY <1>2, <1>x DEF Prepare, At, LocalsOK, Calling
  <2>3. LocalsOK(exec'[e])
    <3>1. Q \in SUBSET Keys
      OBVIOUS
    <3> HIDE DEF Q
    <3>2. exec'[e] \in ExecTypes
      BY <2>1, <3>1, <1>x DEF ExecTypes, Steps
    <3>3. exec'[e].pc = "ready" /\ exec'[e].call = NoCall
      BY <2>1, <2>2, <1>x DEF ExecTypes
    <3> QED
      BY <3>2, <3>3 DEF LocalsOK, Calling
  <2> QED
    BY <2>1, <2>3, <1>2, <1>x DEF Prepare, Only
<1>3. ASSUME NEW r \in Requests, NEW Q \in SUBSET Keys, Apply(e, r, Q)
      PROVE Only(e) /\ LocalsOK(exec'[e])
  <2> DEFINE seen == IF exec[e].rules = Unread THEN rules ELSE exec[e].rules
             n == exec[e].calls + 1
             key == IF Asks(seen, ToolOf[r]) \/ ToolOf[r] \in Consequential
                    THEN Lasting(r) ELSE <<r, exec[e].start, n>>
             c == [of |-> r, key |-> key, from |-> "intended"]
  <2>1. seen \in RuleSets \cup {Unread}
    BY <1>x DEF TypeOK, ExecTypes
  <2>2. n \in 0..MaxCalls /\ exec[e].start \in 0..MaxStarts
    BY <1>x, <1>3, EffectConstantsOK DEF ExecTypes, Apply
  <2>3. key \in Keys
    BY <2>2, KeysTyped
  <2>4. c \in CallTypes /\ c.key = key
    BY <2>3 DEF CallTypes
  <2>5. exec' = [exec EXCEPT ![e] = [@ EXCEPT !.pc = "finding", !.rules = seen, !.calls = n,
                                              !.queue = Q, !.call = c]]
    BY <1>3 DEF Apply
  <2>6. exec'[e] = [exec[e] EXCEPT !.pc = "finding", !.rules = seen, !.calls = n,
                                   !.queue = Q, !.call = c]
    BY <2>5, <1>x
  <2>7. LocalsOK(exec'[e])
    <3> HIDE DEF seen, n, key, c
    <3> QED
      BY <2>1, <2>2, <2>3, <2>4, <2>6, <1>x DEF LocalsOK, ExecTypes, Calling, Steps
  <2> QED
    BY <2>5, <2>6, <2>7, <1>x DEF Only
<1>4. CASE Replay(e) \/ \E r \in Requests : Call(e, r)
  <2>1. exec[e].queue \in SUBSET Keys
    BY <1>x DEF ExecTypes
  <2>2. ASSUME NEW k \in exec[e].queue, Apply(e, k[1], exec[e].queue \ {k})
        PROVE  Only(e) /\ LocalsOK(exec'[e])
    <3>1. k[1] \in Requests /\ exec[e].queue \ {k} \in SUBSET Keys
      BY <2>1, KeysTyped
    <3> QED
      BY <2>2, <3>1, <1>3
  <2>3. ASSUME NEW r \in Requests, Call(e, r)
        PROVE  Only(e) /\ LocalsOK(exec'[e])
    <3>1. {} \in SUBSET Keys /\ Apply(e, r, {})
      BY <2>3 DEF Call
    <3> QED
      BY <3>1, <1>3
  <2> QED
    BY <1>4, <2>2, <2>3 DEF Replay
<1>5. CASE Find(e)
  <2> DEFINE found == effect[Key(e)]
             next == Gate(found, AskedOf(e))
  <2>1. exec[e].pc \in Calling
    BY <1>5, <1>d DEF Find, At
  <2>2. CASE next = "ready"
    BY <1>5, <1>b, <2>2 DEF Find
  <2>3. CASE next # "ready"
    <3>1. found \in Status
      BY <2>1, <1>x DEF TypeOK, LocalsOK, Key
    <3>2. next \in Calling
      BY <3>1, <2>3, <1>d DEF Gate, Status
    <3> DEFINE from == IF found = "approved" THEN found ELSE "intended"
               c == [exec[e].call EXCEPT !.from = from]
    <3>4. exec[e].call \in CallTypes /\ exec[e].call.key \in Keys
      BY <2>1, <1>x DEF ExecTypes, LocalsOK
    <3>5. c \in CallTypes /\ c.key \in Keys
      BY <3>4 DEF CallTypes
    <3>3. exec' = [exec EXCEPT ![e].pc = next, ![e].call.from = from]
      BY <1>5, <2>3 DEF Find
    <3>6. exec'[e] = [exec[e] EXCEPT !.pc = next, !.call = c]
      <4> HIDE DEF next, from
      <4> QED
        BY <3>3, <3>4, <1>x DEF ExecTypes, CallTypes
    <3>7. LocalsOK(exec'[e])
      <4> HIDE DEF c, next
      <4> QED
        BY <3>2, <3>5, <3>6, <1>x DEF LocalsOK, ExecTypes, Calling
    <3> QED
      BY <3>3, <3>6, <3>7, <1>x DEF Only
  <2> QED
    BY <2>2, <2>3
<1>6. CASE Create(e)
  BY <1>6, <1>b, <1>c, <1>d DEF Create, At
<1>7. CASE LookAtRun(e) \/ Renew(e) \/ Pause(e)
  BY <1>7, <1>a, <1>b, <1>c, <1>d DEF LookAtRun, Renew, Pause, At, Gone
<1>8. CASE Claim(e) \/ Reread(e) \/ Settle(e)
  BY <1>8, <1>b, <1>c, <1>d DEF Claim, Reread, Settle, At
<1>9. CASE Perform(e) \/ Complete(e)
  BY <1>9, <1>b, <1>c, <1>d DEF Perform, Complete, At
<1>10. CASE Finish(e) \/ Die(e) \/ ToolThrows(e) \/ RunThrows(e)
  BY <1>10, <1>a, <1>b DEF Finish, Die, ToolThrows, RunThrows, Gone
<1> QED
  BY <1>1, <1>2, <1>4, <1>5, <1>6, <1>7, <1>8, <1>9, <1>10 DEF Acts

LEMMA ExecStays ==
  ASSUME TypeInv, [Next]_vars
  PROVE  ExecInv'
<1>1. CASE \E e \in Execs : Acts(e)
  <2>1. PICK e \in Execs : Acts(e)
    BY <1>1
  <2>2. Only(e) /\ LocalsOK(exec'[e])
    BY <2>1, OneActs
  <2>3. \A f \in Execs : LocalsOK(exec'[f])
    BY <2>2 DEF TypeInv, ExecInv, Only
  <2>4. exec' \in [Execs -> ExecTypes]
    BY <2>2 DEF Only, TypeInv, ExecInv, LocalsOK
  <2> QED
    BY <2>3, <2>4 DEF ExecInv, LocalsOK
<1>2. CASE ~\E e \in Execs : Acts(e)
  BY <1>2, Actors, UserLeavesExec DEF TypeInv, ExecInv, LocalsOK
<1> QED
  BY <1>1, <1>2

\* The types of the rows and of the counters.
RowsOK ==
  /\ run \in [status : {"queued", "running", "waiting_input", "completed",
                        "failed"}, holder : Execs \cup {None}]
  /\ effect \in [Keys -> Status]
  /\ created \in [Keys -> Nat] /\ asked \subseteq Keys
  /\ rules \in RuleSets
  /\ answer \in [key : Keys \cup {None}, allow : BOOLEAN, always : BOOLEAN]
  /\ starts \in 0..MaxStarts /\ faults \in 0..MaxFaults /\ edits \in 0..MaxEdits
  /\ performed \in [Keys -> Nat]
  /\ consent \in [allowed : SUBSET Keys, refused : SUBSET Keys]
  /\ swallowed \subseteq Keys /\ overwritten \subseteq Keys

LEMMA TypesSplit == TypeInv <=> RowsOK /\ ExecInv
<1>1. TypeInv => RowsOK /\ ExecInv
  BY DEF TypeInv, TypeOK, RowsOK
<1>2. ASSUME RowsOK, ExecInv, NEW e \in Execs
      PROVE  /\ exec[e].pc \in Steps
             /\ exec[e].start \in 0..MaxStarts /\ exec[e].calls \in 0..MaxCalls
             /\ exec[e].rules \in RuleSets \cup {Unread}
             /\ exec[e].queue \subseteq Keys
             /\ IF exec[e].pc \in {"idle", "starting", "ready"}
                THEN exec[e].call = NoCall ELSE Key(e) \in Keys
  BY <1>2 DEF ExecInv, LocalsOK, ExecTypes, Calling, Key
<1>3. RowsOK /\ ExecInv => TypeOK
  BY <1>2 DEF RowsOK, TypeOK
<1> QED
  BY <1>1, <1>3 DEF TypeInv

\* An invocation that is in a call has its key.
LEMMA CallHasKey ==
  ASSUME ExecInv, NEW e \in Execs, exec[e].pc \in Calling
  PROVE  Key(e) \in Keys
  BY DEF ExecInv, LocalsOK, Key

LEMMA CallingSteps ==
  Calling = {"finding", "creating", "looking", "renewing", "pausing", "claiming",
             "rereading", "settling", "performing", "completing"}
  BY DEF Calling, Steps

\* A status is written over another.
LEMMA BecomesTyped ==
  ASSUME RowsOK, NEW k \in Keys, NEW s \in Status, Becomes(k, s)
  PROVE  effect' \in [Keys -> Status]
  BY DEF RowsOK, Becomes

LEMMA KeysFinite == IsFiniteSet(Keys)
<1> DEFINE S == (Requests \X (0..MaxStarts)) \X (0..MaxCalls)
           f == [p \in S |-> <<p[1][1], p[1][2], p[2]>>]
<1>1. IsFiniteSet(Requests \X (0..MaxStarts)) /\ IsFiniteSet(0..MaxCalls)
  <2>1. 0 \in Int /\ MaxStarts \in Int /\ MaxCalls \in Int /\ IsFiniteSet(Requests)
    BY EffectConstantsOK
  <2>2. IsFiniteSet(0..MaxStarts) /\ IsFiniteSet(0..MaxCalls)
    BY <2>1, FS_Interval
  <2> QED
    BY <2>1, <2>2, FS_Product
<1>2. IsFiniteSet(S)
  BY <1>1, FS_Product
<1>3. \A k \in Keys : \E p \in S : f[p] = k
  <2> SUFFICES ASSUME NEW k \in Keys PROVE \E p \in S : f[p] = k
    OBVIOUS
  <2> DEFINE p == <<<<k[1], k[2]>>, k[3]>>
  <2>1. p \in S /\ f[p] = k
    BY KeysTyped
  <2> QED
    BY <2>1
<1>4. f \in [S -> Keys]
  BY DEF Keys
<1>5. f \in Surjection(S, Keys)
  BY <1>3, <1>4 DEF Surjection
<1> QED
  BY <1>2, <1>5, FS_Surjection

LEMMA RowsStay ==
  ASSUME TypeInv, NEW e \in Execs, Acts(e)
  PROVE  RowsOK'
<1> USE TypesSplit
<1>k. ASSUME exec[e].pc \in Calling PROVE Key(e) \in Keys
  BY <1>k, CallHasKey
<1>f. Fault => faults' \in 0..MaxFaults
  BY EffectConstantsOK DEF Fault, RowsOK
<1>1. CASE Begin(e)
  BY <1>1, <1>f, EffectConstantsOK DEF Begin, RowsOK, ghosts, At
<1>2. CASE Prepare(e)
  BY <1>2 DEF Prepare, RowsOK, ghosts, counts
<1>3. CASE Replay(e) \/ \E r \in Requests : Call(e, r)
  BY <1>3 DEF Replay, Call, Apply, RowsOK, ghosts, counts
<1>4. CASE Find(e) \/ LookAtRun(e) \/ Renew(e)
  BY <1>4 DEF Find, LookAtRun, Renew, RowsOK, ghosts, counts
<1>5. CASE Create(e)
  <2>1. Key(e) \in Keys
    BY <1>5, <1>k, CallingSteps DEF Create, At
  <2>2. effect' \in [Keys -> Status]
    BY <1>5, <2>1, BecomesTyped DEF Create, RowsOK, Status
  <2>3. created' \in [Keys -> Nat]
    <3> DEFINE n == Cardinality({k \in Keys : effect[k] # "none"}) + 1
    <3>1. n \in Nat
      BY KeysFinite, FS_Subset, FS_CardinalityType
    <3> QED
      BY <1>5, <2>1, <3>1 DEF Create, RowsOK
  <2>4. swallowed' \subseteq Keys
    BY <1>5, <2>1 DEF Create, RowsOK
  <2> QED
    BY <1>5, <2>2, <2>3, <2>4 DEF Create, RowsOK, counts
<1>6. CASE Pause(e)
  <2>1. Key(e) \in Keys
    BY <1>6, <1>k, CallingSteps DEF Pause, At
  <2> QED
    BY <1>6, <2>1 DEF Pause, RowsOK, ghosts, counts
<1>7. CASE Claim(e) \/ Settle(e) \/ Complete(e)
  <2>1. Key(e) \in Keys
    BY <1>7, <1>k, CallingSteps DEF Claim, Settle, Complete, At
  <2>2. effect' \in [Keys -> Status]
    BY <1>7, <2>1, BecomesTyped DEF Claim, Settle, Complete, RowsOK, Status
  <2> QED
    BY <1>7, <2>2 DEF Claim, Settle, Complete, RowsOK, ghosts, counts
<1>8. CASE Reread(e)
  <2>1. Key(e) \in Keys
    BY <1>8, <1>k, CallingSteps DEF Reread, At
  <2> QED
    BY <1>8, <2>1 DEF Reread, RowsOK, counts
<1>9. CASE Perform(e)
  <2>1. Key(e) \in Keys
    BY <1>9, <1>k, CallingSteps DEF Perform, At
  <2>2. performed' \in [Keys -> Nat]
    BY <1>9, <2>1 DEF Perform, RowsOK
  <2> QED
    BY <1>9, <2>2 DEF Perform, RowsOK, counts
<1>10. CASE Finish(e) \/ RunThrows(e)
  BY <1>10, <1>f DEF Finish, RunThrows, RowsOK, ghosts, counts
<1>11. CASE Die(e)
  BY <1>11, <1>f DEF Die, RowsOK, ghosts
<1>12. CASE ToolThrows(e)
  <2>1. exec[e].pc \in Calling
    BY <1>12 DEF ToolThrows, ExecInv, LocalsOK
  <2> QED
    BY <1>12, <2>1, <1>k, <1>f DEF ToolThrows, RowsOK
<1> QED
  BY <1>1, <1>2, <1>3, <1>4, <1>5, <1>6, <1>7, <1>8, <1>9, <1>10, <1>11, <1>12 DEF Acts

\* The user's steps.
LEMMA UserRowsStay ==
  ASSUME TypeInv,
         (\E k \in Keys : ReadAnswer(k)) \/ CommitAnswer \/ EditRules \/ Retry \/ UNCHANGED vars
  PROVE  RowsOK'
<1> USE TypesSplit
<1>1. ASSUME NEW k \in Keys, ReadAnswer(k) PROVE RowsOK'
  BY <1>1 DEF ReadAnswer, RowsOK, ghosts, counts
<1>2. CASE CommitAnswer
  <2>1. answer.key \in Keys /\ answer.key[1] \in Requests
    BY <1>2, KeysTyped DEF CommitAnswer, RowsOK
  <2>2. CASE run.status = "waiting_input"
    <3>1. effect' \in [Keys -> Status]
      BY <1>2, <2>1, <2>2, BecomesTyped DEF CommitAnswer, Status
    <3>2. rules' \in RuleSets
      <4> DEFINE T == {t \in {ToolOf[answer.key[1]]} : answer.always}
      <4>1. T \subseteq Tools
        BY <2>1, EffectConstantsOK
      <4>2. rules' = [rules EXCEPT !.always = @ \cup T]
        BY <1>2, <2>2 DEF CommitAnswer
      <4> HIDE DEF T
      <4> QED
        BY <4>1, <4>2 DEF RowsOK, RuleSets
    <3>3. consent' \in [allowed : SUBSET Keys, refused : SUBSET Keys]
      BY <1>2, <2>1, <2>2 DEF CommitAnswer, RowsOK
    <3>4. overwritten' \subseteq Keys
      BY <1>2, <2>1, <2>2 DEF CommitAnswer, RowsOK
    <3> QED
      BY <1>2, <2>2, <3>1, <3>2, <3>3, <3>4 DEF CommitAnswer, RowsOK, counts
  <2>3. CASE run.status # "waiting_input"
    BY <1>2, <2>3 DEF CommitAnswer, RowsOK, counts
  <2> QED
    BY <2>2, <2>3
<1>3. CASE EditRules
  <2>1. PICK t \in Tools, f \in {"ask", "always", "broad"} :
          rules' = [rules EXCEPT ![f] = IF t \in @ THEN @ \ {t} ELSE @ \cup {t}]
    BY <1>3 DEF EditRules
  <2>2. rules' \in RuleSets
    <3>1. CASE f = "ask"
      BY <2>1, <3>1 DEF RowsOK, RuleSets
    <3>2. CASE f = "always"
      BY <2>1, <3>2 DEF RowsOK, RuleSets
    <3>3. CASE f = "broad"
      BY <2>1, <3>3 DEF RowsOK, RuleSets
    <3> QED
      BY <3>1, <3>2, <3>3
  <2> QED
    BY <1>3, <2>2, EffectConstantsOK DEF EditRules, RowsOK, ghosts
<1>4. CASE Retry
  BY <1>4 DEF Retry, RowsOK, ghosts, counts
<1>5. CASE UNCHANGED vars
  BY <1>5 DEF vars, RowsOK, ghosts, counts
<1> QED
  BY <1>1, <1>2, <1>3, <1>4, <1>5

LEMMA TypesStay ==
  ASSUME TypeInv, [Next]_vars
  PROVE  TypeInv'
<1>1. RowsOK'
  BY Actors, RowsStay, UserRowsStay
<1>2. ExecInv'
  BY ExecStays
<1>3. (RowsOK /\ ExecInv => TypeInv)'
  BY TypesSplit, PTL
<1> QED
  BY <1>1, <1>2, <1>3

LEMMA TypesInit == Init => TypeInv
<1> SUFFICES ASSUME Init PROVE RowsOK /\ ExecInv
  BY TypesSplit
<1>1. RowsOK
  BY EffectConstantsOK DEF Init, RowsOK, RuleSets, Status
<1>2. ExecInv
  BY IdleTyped DEF Init, ExecInv, LocalsOK
<1> QED
  BY <1>1, <1>2

\* Every variable keeps its type.
THEOREM EffectTypes == Spec => []TypeOK
<1>1. TypeInv /\ [Next]_vars => TypeInv'
  BY TypesStay
<1>2. TypeInv => TypeOK
  BY DEF TypeInv
<1> QED
  BY TypesInit, <1>1, <1>2, PTL DEF Spec

------------------------------------------------------------------------------
(* The inductive invariant *)

\* The call an invocation is in: its key is the request's own when the rules ask
\* or the tool is consequential, and otherwise one that no other call can have.
KeyOK(e) ==
  exec[e].pc \in Calling =>
    /\ exec[e].call.of \in Requests /\ exec[e].calls \in 1..MaxCalls
    /\ Key(e) = IF AskedOf(e) \/ ToolOf[exec[e].call.of] \in Consequential
                THEN Lasting(exec[e].call.of)
                ELSE <<exec[e].call.of, exec[e].start, exec[e].calls>>

\* Where a call can be: what asks is not claimed without an answer, and a key
\* of its own is new until it is performed.
PlaceOK(e) ==
  /\ exec[e].pc # "idle" => exec[e].start \in 1..starts
  /\ exec[e].queue \subseteq LastingKeys
  /\ exec[e].pc \in {"looking", "renewing", "pausing"} => AskedOf(e)
  /\ exec[e].pc = "claiming" /\ exec[e].call.from = "intended" => ~AskedOf(e)
  /\ exec[e].pc = "performing" /\ AskedOf(e) => Key(e) \in consent.allowed
  /\ exec[e].pc = "performing" => effect[Key(e)] # "none"
  /\ exec[e].pc \in Calling /\ Key(e) \notin LastingKeys =>
       /\ exec[e].pc \in {"finding", "creating", "performing", "completing"}
       /\ exec[e].pc \in {"finding", "creating"} => effect[Key(e)] = "none"

\* Keys of single calls belong to the invocation that has their number, which
\* has made them one by one.
OwnKeys ==
  /\ \A e, f \in Execs :
       e # f /\ exec[e].pc # "idle" /\ exec[f].pc # "idle"
         => exec[e].start # exec[f].start
  /\ \A k \in Keys \ LastingKeys :
       effect[k] # "none" =>
         /\ k[2] <= starts
         /\ \A e \in Execs : exec[e].pc # "idle" /\ exec[e].start = k[2]
                               => k[3] <= exec[e].calls

\* Questions and answers are about lasting keys.
AsksOK ==
  /\ asked \subseteq LastingKeys /\ answer.key \in LastingKeys \cup {None}
  /\ consent.refused \subseteq LastingKeys
  /\ \A k \in Keys : effect[k] = "approved" => k \in LastingKeys /\ k \in consent.allowed

\* What a status says of how often its effect has been performed.
CountOK(k) ==
  /\ effect[k] = "none" => performed[k] = 0
  /\ k \in LastingKeys /\ effect[k] \in {"intended", "approved", "denied"}
       => performed[k] = 0
  /\ performed[k] \in 0..1
  /\ k \in consent.refused => effect[k] = "denied"

\* One invocation at a time is about to perform an effect, and the first.
TurnOK(e, k) ==
  /\ At(e, "performing") /\ Key(e) = k =>
       /\ performed[k] = 0
       /\ k \in LastingKeys => effect[k] \in {"executing", "uncertain"}
       /\ \A f \in Execs \ {e} : ~(At(f, "performing") /\ Key(f) = k)
  /\ At(e, "completing") /\ Key(e) = k => performed[k] = 1

Counts ==
  \A k \in Keys \ overwritten : CountOK(k) /\ \A e \in Execs : TurnOK(e, k)

Calls == \A e \in Execs : KeyOK(e) /\ PlaceOK(e)

\* The inductive invariant.
OnceInv == TypeInv /\ Calls /\ OwnKeys /\ AsksOK /\ Counts

------------------------------------------------------------------------------
(* How a step changes what the invariant speaks of *)

\* What is only ever added to.
Growth ==
  /\ starts \in Nat /\ starts' \in Nat /\ starts <= starts'
  /\ consent.allowed \subseteq consent'.allowed
  /\ \A k \in Keys : effect[k] # "none" => effect'[k] # "none"
  /\ overwritten \subseteq overwritten'

LEMMA BecomesKnown ==
  ASSUME RowsOK, NEW k \in Keys, NEW s \in Status, Becomes(k, s)
  PROVE  effect'[k] = s /\ \A j \in Keys \ {k} : effect'[j] = effect[j]
  BY DEF RowsOK, Becomes

LEMMA ActsGrow ==
  ASSUME TypeInv, NEW e \in Execs, Acts(e)
  PROVE  Growth
<1> USE TypesSplit
<1>t. starts \in Nat /\ RowsOK /\ ExecInv
  BY EffectConstantsOK DEF RowsOK
<1>1. CASE Begin(e)
  BY <1>1, <1>t DEF Begin, Growth, ghosts
<1>2. CASE Prepare(e) \/ Replay(e) \/ (\E r \in Requests : Call(e, r)) \/ Find(e) \/ LookAtRun(e) \/ Renew(e)
  <2>1. UNCHANGED <<effect, counts, ghosts>>
    BY <1>2 DEF Prepare, Replay, Call, Apply, Find, LookAtRun, Renew
  <2> QED
    BY <2>1, <1>t DEF Growth, ghosts, counts
<1>3. CASE Create(e) \/ Claim(e) \/ Settle(e) \/ Complete(e)
  <2>1. Key(e) \in Keys
    BY <1>3, <1>t, CallHasKey, CallingSteps DEF Create, Claim, Settle, Complete, At
  <2>2. \A s \in Status : Becomes(Key(e), s) =>
          effect'[Key(e)] = s /\ \A j \in Keys \ {Key(e)} : effect'[j] = effect[j]
    BY <2>1, <1>t, BecomesKnown
  <2>3. \A k \in Keys : effect[k] # "none" => effect'[k] # "none"
    BY <1>3, <2>2 DEF Create, Claim, Settle, Complete, Status
  <2> QED
    BY <1>3, <1>t, <2>3 DEF Create, Claim, Settle, Complete, Growth, ghosts, counts
<1>4. CASE Pause(e) \/ Reread(e) \/ Perform(e) \/ Finish(e) \/ Die(e) \/ ToolThrows(e) \/ RunThrows(e)
  BY <1>4, <1>t DEF Pause, Reread, Perform, Finish, Die, ToolThrows, RunThrows, Growth, ghosts, counts
<1> QED
  BY <1>1, <1>2, <1>3, <1>4 DEF Acts

LEMMA UserGrows ==
  ASSUME TypeInv,
         (\E k \in Keys : ReadAnswer(k)) \/ CommitAnswer \/ EditRules \/ Retry \/ UNCHANGED vars
  PROVE  Growth
<1> USE TypesSplit
<1>t. starts \in Nat /\ starts' = starts /\ RowsOK
  BY EffectConstantsOK, UserLeavesExec DEF RowsOK
<1>1. CASE CommitAnswer
  <2>1. answer.key \in Keys
    BY <1>1, <1>t DEF CommitAnswer, RowsOK
  <2>2. CASE run.status = "waiting_input"
    <3>1. effect'[answer.key] # "none" /\ \A j \in Keys \ {answer.key} : effect'[j] = effect[j]
      BY <1>1, <1>t, <2>1, <2>2, BecomesKnown DEF CommitAnswer, Status
    <3>2. consent.allowed \subseteq consent'.allowed
      BY <1>1, <1>t, <2>2 DEF CommitAnswer, RowsOK
    <3> QED
      BY <1>1, <1>t, <2>2, <3>1, <3>2 DEF CommitAnswer, Growth
  <2>3. CASE run.status # "waiting_input"
    BY <1>1, <1>t, <2>3 DEF CommitAnswer, Growth
  <2> QED
    BY <2>2, <2>3
<1>2. CASE (\E k \in Keys : ReadAnswer(k)) \/ EditRules \/ Retry \/ UNCHANGED vars
  BY <1>2, <1>t DEF ReadAnswer, EditRules, Retry, vars, Growth, ghosts, counts
<1> QED
  BY <1>1, <1>2

\* Whose locals stay is where it was.
LEMMA OthersStay ==
  ASSUME OnceInv, Growth, NEW f \in Execs, exec'[f] = exec[f],
         exec[f].pc \in Calling /\ Key(f) \notin LastingKeys /\ effect[Key(f)] = "none"
           => effect'[Key(f)] = "none"
  PROVE  (KeyOK(f) /\ PlaceOK(f))'
<1>1. KeyOK(f) /\ PlaceOK(f) /\ ExecInv
  BY DEF OnceInv, Calls, TypeInv
<1>2. Key(f)' = Key(f) /\ AskedOf(f)' = AskedOf(f)
  BY DEF Key, AskedOf
<1>3. KeyOK(f)'
  BY <1>1, <1>2 DEF KeyOK
<1>4. exec[f].pc \in Calling => Key(f) \in Keys
  BY <1>1, CallHasKey
<1>5. exec[f].start \in Nat
  BY <1>1, EffectConstantsOK DEF ExecInv, ExecTypes
<1>6. PlaceOK(f)'
  <2>1. exec[f].pc # "idle" => exec[f].start \in 1..starts'
    BY <1>1, <1>5 DEF PlaceOK, Growth
  <2>2. exec[f].pc = "performing" /\ AskedOf(f) => Key(f) \in consent'.allowed
    BY <1>1 DEF PlaceOK, Growth
  <2>3. exec[f].pc = "performing" => effect'[Key(f)] # "none"
    BY <1>1, <1>4, CallingSteps DEF PlaceOK, Growth
  <2>4. exec[f].pc \in Calling /\ Key(f) \notin LastingKeys /\ exec[f].pc \in {"finding", "creating"}
          => effect'[Key(f)] = "none"
    BY <1>1 DEF PlaceOK
  <2> QED
    BY <1>1, <1>2, <2>1, <2>2, <2>3, <2>4 DEF PlaceOK
<1> QED
  BY <1>3, <1>6

------------------------------------------------------------------------------
(* Where the calls are *)

\* An invocation that goes on with its call, and one that has none any more.
SameCall(e) ==
  /\ exec[e].pc \in Calling /\ exec'[e].pc \in Calling
  /\ exec'[e].call.of = exec[e].call.of /\ exec'[e].call.key = exec[e].call.key
  /\ exec'[e].rules = exec[e].rules /\ exec'[e].start = exec[e].start
  /\ exec'[e].calls = exec[e].calls /\ exec'[e].queue = exec[e].queue

Rests(e) ==
  \/ exec'[e] = Idle
  \/ /\ exec[e].pc # "idle" /\ exec'[e].pc = "ready"
     /\ exec'[e].start = exec[e].start /\ exec'[e].calls = exec[e].calls
     /\ exec'[e].queue = exec[e].queue

LEMMA GotoKeeps ==
  ASSUME ExecInv, NEW e \in Execs, NEW pc \in Calling, Goto(e, pc), exec[e].pc \in Calling
  PROVE  SameCall(e) /\ exec'[e].pc = pc /\ exec'[e].call = exec[e].call
<1>1. exec'[e] = [exec[e] EXCEPT !.pc = pc]
  BY Locals
<1>2. exec[e] \in ExecTypes
  BY DEF ExecInv
<1> QED
  BY <1>1, <1>2 DEF SameCall, ExecTypes

LEMMA EndsRest ==
  ASSUME ExecInv, NEW e \in Execs
  PROVE  /\ Gone(e) => Rests(e)
         /\ Result(e) /\ exec[e].pc # "idle" => Rests(e) /\ exec'[e].pc = "ready"
<1>1. Gone(e) => Rests(e)
  BY Locals DEF Rests
<1>2. exec[e] \in ExecTypes
  BY DEF ExecInv
<1>3. ASSUME Result(e), exec[e].pc # "idle" PROVE Rests(e) /\ exec'[e].pc = "ready"
  <2>1. exec'[e] = [exec[e] EXCEPT !.pc = "ready", !.call = NoCall]
    BY <1>3, Locals
  <2> QED
    BY <2>1, <1>2, <1>3 DEF Rests, ExecTypes
<1> QED
  BY <1>1, <1>3

LEMMA SameKey ==
  ASSUME OnceInv, NEW e \in Execs, SameCall(e)
  PROVE  /\ Key(e)' = Key(e) /\ AskedOf(e)' = AskedOf(e) /\ KeyOK(e)'
         /\ exec[e].queue \subseteq LastingKeys
<1>1. Key(e)' = Key(e) /\ AskedOf(e)' = AskedOf(e)
  BY DEF SameCall, Key, AskedOf
<1>2. KeyOK(e) /\ PlaceOK(e)
  BY DEF OnceInv, Calls
<1> QED
  BY <1>1, <1>2 DEF KeyOK, SameCall, PlaceOK

LEMMA RestsOK ==
  ASSUME OnceInv, Growth, NEW e \in Execs, Rests(e)
  PROVE  (KeyOK(e) /\ PlaceOK(e))'
<1>1. PlaceOK(e) /\ exec[e].start \in Nat
  BY EffectConstantsOK DEF OnceInv, Calls, TypeInv, ExecInv, ExecTypes
<1>2. exec'[e].pc \in {"idle", "ready"} /\ exec'[e].pc \notin Calling
  BY DEF Rests, Idle, Calling
<1>3. exec'[e].pc # "idle" => exec'[e].start \in 1..starts'
  BY <1>1 DEF Rests, Idle, PlaceOK, Growth
<1>4. exec'[e].queue \subseteq LastingKeys
  BY <1>1 DEF Rests, Idle, PlaceOK
<1> QED
  BY <1>2, <1>3, <1>4 DEF KeyOK, PlaceOK

\* Keys of single calls are not shared.
LEMMA OwnAreApart ==
  ASSUME OnceInv, NEW e \in Execs, NEW f \in Execs, e # f,
         exec[e].pc \in Calling, exec[f].pc \in Calling,
         Key(e) \notin LastingKeys, Key(e) = Key(f)
  PROVE  FALSE
<1>1. KeyOK(e) /\ KeyOK(f) /\ OwnKeys
  BY DEF OnceInv, Calls
<1>2. Key(e) = <<exec[e].call.of, exec[e].start, exec[e].calls>>
  BY <1>1 DEF KeyOK, LastingKeys
<1>3. Key(f) = <<exec[f].call.of, exec[f].start, exec[f].calls>>
  BY <1>1 DEF KeyOK, LastingKeys
<1>4. exec[e].start # exec[f].start
  BY <1>1, CallingSteps DEF OwnKeys
<1>5. Key(e)[2] = exec[e].start
  BY <1>2
<1>6. Key(f)[2] = exec[f].start
  BY <1>3
<1> QED
  BY <1>4, <1>5, <1>6

\* What asks, or is consequential, has a lasting key.
LEMMA LastingIfAsked ==
  ASSUME OnceInv, NEW e \in Execs, exec[e].pc \in Calling,
         AskedOf(e) \/ ToolOf[exec[e].call.of] \in Consequential
  PROVE  Key(e) \in LastingKeys
  BY DEF OnceInv, Calls, KeyOK, LastingKeys

\* The keys of single calls are not those of requests, and are new at first.
LEMMA NumberedIsOwn ==
  ASSUME NEW r \in Requests, NEW s, NEW n \in Nat, n # 0
  PROVE  <<r, s, n>> \notin LastingKeys
<1>1. \A q \in Requests : <<r, s, n>> # <<q, 0, 0>>
  OBVIOUS
<1> QED
  BY <1>1 DEF LastingKeys, Lasting

LEMMA ApplyOK ==
  ASSUME OnceInv, Growth, NEW e \in Execs, NEW r \in Requests, NEW Q \in SUBSET LastingKeys,
         Apply(e, r, Q)
  PROVE  (KeyOK(e) /\ PlaceOK(e))'
<1> DEFINE seen == IF exec[e].rules = Unread THEN rules ELSE exec[e].rules
           n == exec[e].calls + 1
           key == IF Asks(seen, ToolOf[r]) \/ ToolOf[r] \in Consequential
                  THEN Lasting(r) ELSE <<r, exec[e].start, n>>
           c == [of |-> r, key |-> key, from |-> "intended"]
<1>1. exec[e] \in ExecTypes /\ exec[e].pc = "ready" /\ PlaceOK(e) /\ OwnKeys
  BY DEF OnceInv, Calls, TypeInv, ExecInv, Apply, At
<1>2. exec' = [exec EXCEPT ![e] = [@ EXCEPT !.pc = "finding", !.rules = seen, !.calls = n,
                                            !.queue = Q, !.call = c]]
  BY DEF Apply
<1>3. exec'[e] = [exec[e] EXCEPT !.pc = "finding", !.rules = seen, !.calls = n,
                                 !.queue = Q, !.call = c]
  BY <1>1, <1>2 DEF OnceInv, TypeInv, ExecInv
<1>4. n \in 1..MaxCalls /\ exec[e].start \in 0..MaxStarts /\ n \in 0..MaxCalls
  BY <1>1, EffectConstantsOK DEF Apply, ExecTypes
<1>5. /\ exec'[e].pc = "finding" /\ exec'[e].call.of = r /\ Key(e)' = key
      /\ exec'[e].start = exec[e].start /\ exec'[e].calls = n /\ exec'[e].queue = Q
      /\ exec'[e].call.from = "intended"
      /\ AskedOf(e)' = Asks(seen, ToolOf[r])
  <2> HIDE DEF seen, n, key
  <2> QED
    BY <1>1, <1>3 DEF ExecTypes, Key, AskedOf
<1>6. KeyOK(e)'
  <2> HIDE DEF seen, n
  <2> QED
    BY <1>4, <1>5 DEF KeyOK
<1>7. ASSUME key \notin LastingKeys PROVE effect'[key] = "none"
  <2>1. key = <<r, exec[e].start, n>>
    BY <1>7 DEF LastingKeys
  <2>2. key \in Keys /\ key[2] = exec[e].start /\ key[3] = n
    BY <2>1, <1>4, KeysTyped
  <2>3. ~(n <= exec[e].calls)
    BY <1>1 DEF ExecTypes
  <2>4. effect[key] = "none"
    <3> HIDE DEF n, key
    <3> QED
      BY <1>1, <1>7, <2>2, <2>3 DEF OwnKeys
  <2> QED
    BY <2>4 DEF Apply
<1>8. exec[e].start \in 1..starts'
  BY <1>1, <1>4, EffectConstantsOK DEF PlaceOK, Growth
<1>9. PlaceOK(e)'
  <2> HIDE DEF key, n, seen
  <2> QED
    BY <1>5, <1>7, <1>8 DEF PlaceOK
<1> QED
  BY <1>6, <1>9

LEMMA ActorOK ==
  ASSUME OnceInv, Growth, NEW e \in Execs, Acts(e)
  PROVE  (KeyOK(e) /\ PlaceOK(e))'
<1>x. ExecInv /\ RowsOK /\ KeyOK(e) /\ PlaceOK(e) /\ AsksOK /\ exec[e] \in ExecTypes
  BY TypesSplit DEF OnceInv, Calls, ExecInv
<1>g. ASSUME Gone(e) \/ (Result(e) /\ exec[e].pc # "idle") PROVE (KeyOK(e) /\ PlaceOK(e))'
  BY <1>g, <1>x, EndsRest, RestsOK
\* A call that goes on from one step to the next.
<1>s. ASSUME NEW pc \in Calling, Goto(e, pc), exec[e].pc \in Calling,
             pc \in {"looking", "renewing", "pausing"} => AskedOf(e),
             pc = "claiming" /\ exec[e].call.from = "intended" => ~AskedOf(e),
             pc = "performing" /\ AskedOf(e) => Key(e) \in consent'.allowed,
             pc = "performing" => effect'[Key(e)] # "none",
             Key(e) \notin LastingKeys => pc \in {"performing", "completing"}
      PROVE  (KeyOK(e) /\ PlaceOK(e))'
  <2>1. SameCall(e) /\ exec'[e].pc = pc /\ exec'[e].call = exec[e].call
    BY <1>s, <1>x, GotoKeeps
  <2>2. Key(e)' = Key(e) /\ AskedOf(e)' = AskedOf(e) /\ KeyOK(e)' /\ exec[e].queue \subseteq LastingKeys
    BY <2>1, SameKey
  <2>3. exec'[e].start \in 1..starts' /\ exec'[e].queue = exec[e].queue
    <3>1. exec[e].start \in 1..starts
      BY <1>s, <1>x, CallingSteps DEF PlaceOK
    <3> QED
      BY <2>1, <3>1 DEF SameCall, Growth
  <2> QED
    BY <1>s, <2>1, <2>2, <2>3 DEF PlaceOK
<1>1. CASE Begin(e)
  <2>1. exec'[e] = [Idle EXCEPT !.pc = "starting", !.start = starts + 1] /\ starts' = starts + 1
    BY <1>1, <1>x DEF Begin, ExecInv
  <2>2. exec'[e].pc = "starting" /\ exec'[e].start = starts + 1 /\ exec'[e].queue = {}
    BY <2>1 DEF Idle
  <2>3. exec'[e].pc \notin Calling
    BY <2>2 DEF Calling
  <2> QED
    BY <2>1, <2>2, <2>3 DEF KeyOK, PlaceOK, Growth
<1>2. CASE Prepare(e)
  <2>1. exec'[e] = [exec[e] EXCEPT !.pc = "ready", !.queue = {k \in Keys : effect[k] = "approved"}]
    BY <1>2, <1>x DEF Prepare, ExecInv
  <2>2. {k \in Keys : effect[k] = "approved"} \subseteq LastingKeys
    BY <1>x DEF AsksOK
  <2>3. exec'[e].pc = "ready" /\ exec'[e].start = exec[e].start /\ exec'[e].queue \subseteq LastingKeys
    BY <2>1, <2>2, <1>x DEF ExecTypes
  <2>4. exec[e].start \in 1..starts /\ starts' = starts
    BY <1>2, <1>x DEF Prepare, At, PlaceOK, counts
  <2> QED
    BY <2>3, <2>4 DEF KeyOK, PlaceOK, Calling
<1>3. CASE Replay(e) \/ \E r \in Requests : Call(e, r)
  <2>1. exec[e].queue \in SUBSET LastingKeys /\ exec[e].queue \subseteq Keys
    BY <1>x DEF PlaceOK, ExecTypes
  <2>2. ASSUME NEW r \in Requests, Call(e, r) PROVE (KeyOK(e) /\ PlaceOK(e))'
    <3>1. Apply(e, r, {}) /\ {} \in SUBSET LastingKeys
      BY <2>2 DEF Call
    <3> QED
      BY <3>1, ApplyOK
  <2>3. ASSUME Replay(e) PROVE (KeyOK(e) /\ PlaceOK(e))'
    <3>1. PICK k \in exec[e].queue : Apply(e, k[1], exec[e].queue \ {k})
      BY <2>3 DEF Replay
    <3>2. k[1] \in Requests /\ exec[e].queue \ {k} \in SUBSET LastingKeys
      BY <2>1, KeysTyped
    <3> QED
      BY <3>1, <3>2, ApplyOK
  <2> QED
    BY <1>3, <2>2, <2>3
<1>4. CASE Find(e)
  <2> DEFINE found == effect[Key(e)]
             next == Gate(found, AskedOf(e))
             from == IF found = "approved" THEN found ELSE "intended"
  <2>1. exec[e].pc \in Calling /\ exec[e].pc = "finding" /\ UNCHANGED <<effect, starts>>
    BY <1>4, CallingSteps DEF Find, At, counts
  <2>2. CASE next = "ready"
    BY <1>4, <1>g, <2>1, <2>2, CallingSteps DEF Find
  <2>3. CASE next # "ready"
    <3>1. exec' = [exec EXCEPT ![e].pc = next, ![e].call.from = from]
      BY <1>4, <2>3 DEF Find
    <3>2. Key(e) \in Keys /\ found \in Status
      BY <1>x, <2>1, CallHasKey DEF RowsOK
    <3>3. next \in Calling
      BY <3>2, <2>3, CallingSteps DEF Gate, Status
    <3>4. /\ exec'[e].pc = next /\ exec'[e].call.from = from
          /\ exec'[e].call.of = exec[e].call.of /\ exec'[e].call.key = exec[e].call.key
          /\ exec'[e].rules = exec[e].rules /\ exec'[e].start = exec[e].start
          /\ exec'[e].calls = exec[e].calls /\ exec'[e].queue = exec[e].queue
      <4> HIDE DEF next, from
      <4>1. exec[e].call \in CallTypes
        BY <1>x DEF ExecTypes
      <4> QED
        BY <3>1, <4>1, <1>x DEF ExecInv, ExecTypes, CallTypes
    <3>5. SameCall(e)
      BY <2>1, <3>3, <3>4 DEF SameCall
    <3>6. Key(e)' = Key(e) /\ AskedOf(e)' = AskedOf(e) /\ KeyOK(e)' /\ exec[e].queue \subseteq LastingKeys
      BY <3>5, SameKey
    <3>7. next = "looking" => AskedOf(e)
      BY <3>2 DEF Gate, Status
    <3>8. next = "claiming" /\ from = "intended" => ~AskedOf(e)
      BY <3>2 DEF Gate, Status
    <3>9. next \in {"creating", "looking", "settling", "claiming"}
      BY <3>2, <2>3 DEF Gate, Status
    <3>10. Key(e) \notin LastingKeys => next = "creating" /\ effect'[Key(e)] = "none"
      BY <1>x, <2>1 DEF PlaceOK, Gate
    <3>11. exec[e].start \in 1..starts'
      BY <1>x, <2>1 DEF PlaceOK
    <3> QED
      <4> HIDE DEF next, from
      <4> QED
        BY <3>4, <3>6, <3>7, <3>8, <3>9, <3>10, <3>11 DEF PlaceOK
  <2> QED
    BY <2>2, <2>3
<1>5. CASE Create(e)
  <2>1. exec[e].pc \in Calling /\ exec[e].pc = "creating" /\ Key(e) \in Keys
    BY <1>5, <1>x, CallingSteps, CallHasKey DEF Create, At
  <2>2. CASE effect[Key(e)] # "none"
    BY <1>5, <1>g, <2>1, <2>2 DEF Create
  <2>3. CASE effect[Key(e)] = "none"
    <3> DEFINE pc == IF AskedOf(e) THEN "renewing"
                     ELSE IF ToolOf[exec[e].call.of] \in Consequential
                     THEN "claiming" ELSE "performing"
    <3>1. Goto(e, pc) /\ Becomes(Key(e), "intended")
      BY <1>5, <2>3 DEF Create
    <3>2. pc \in Calling
      BY CallingSteps
    <3>3. effect'[Key(e)] # "none"
      BY <3>1, <2>1, <1>x, BecomesKnown DEF Status
    <3>4. Key(e) \notin LastingKeys => pc = "performing"
      BY <2>1, LastingIfAsked
    <3> QED
      BY <3>1, <3>2, <3>3, <3>4, <2>1, <1>s
  <2> QED
    BY <2>2, <2>3
<1>6. CASE LookAtRun(e)
  <2>1. exec[e].pc \in Calling /\ exec[e].pc = "looking" /\ "renewing" \in Calling
    BY <1>6, CallingSteps DEF LookAtRun, At
  <2>2. AskedOf(e)
    BY <2>1, <1>x DEF PlaceOK
  <2> QED
    BY <1>6, <1>s, <1>g, <2>1, <2>2, LastingIfAsked DEF LookAtRun, Gone
<1>7. CASE Renew(e)
  <2>1. exec[e].pc \in Calling /\ exec[e].pc = "renewing" /\ "pausing" \in Calling
    BY <1>7, CallingSteps DEF Renew, At
  <2>2. AskedOf(e)
    BY <2>1, <1>x DEF PlaceOK
  <2> QED
    BY <1>7, <1>s, <1>g, <2>1, <2>2, LastingIfAsked DEF Renew, Gone
<1>8. CASE Claim(e)
  <2>1. exec[e].pc \in Calling /\ exec[e].pc = "claiming" /\ Key(e) \in Keys
    BY <1>8, <1>x, CallingSteps, CallHasKey DEF Claim, At
  <2>2. Key(e) \in LastingKeys
    BY <2>1, <1>x DEF PlaceOK
  <2>3. CASE effect[Key(e)] = exec[e].call.from
    <3>1. Goto(e, "performing") /\ Becomes(Key(e), "executing")
      BY <1>8, <2>3 DEF Claim
    <3>2. effect'[Key(e)] # "none"
      BY <3>1, <2>1, <1>x, BecomesKnown DEF Status
    <3>3. ASSUME AskedOf(e) PROVE Key(e) \in consent'.allowed
      <4>1. exec[e].call.from = "approved"
        BY <3>3, <2>1, <1>x DEF PlaceOK, ExecTypes, CallTypes
      <4> QED
        BY <4>1, <2>1, <2>3, <1>x DEF AsksOK, Growth
    <3>4. "performing" \in Calling
      BY CallingSteps
    <3> QED
      BY <3>1, <3>2, <3>3, <3>4, <2>1, <2>2, <1>s
  <2>4. CASE effect[Key(e)] # exec[e].call.from
    <3>1. Goto(e, "rereading") /\ "rereading" \in Calling
      BY <1>8, <2>4, CallingSteps DEF Claim
    <3> QED
      BY <3>1, <2>1, <2>2, <1>s
  <2> QED
    BY <2>3, <2>4
<1>9. CASE Reread(e)
  <2>1. exec[e].pc \in Calling /\ exec[e].pc = "rereading" /\ "settling" \in Calling
    BY <1>9, CallingSteps DEF Reread, At
  <2>2. Key(e) \in LastingKeys
    BY <2>1, <1>x DEF PlaceOK
  <2> QED
    BY <1>9, <1>s, <1>g, <2>1, <2>2 DEF Reread
<1>10. CASE Perform(e)
  <2>1. exec[e].pc \in Calling /\ Goto(e, "completing") /\ "completing" \in Calling
    BY <1>10, CallingSteps DEF Perform, At
  <2> QED
    BY <1>s, <2>1
<1>11. CASE Pause(e) \/ Settle(e) \/ Complete(e) \/ ToolThrows(e)
  <2>1. exec[e].pc # "idle"
    BY <1>11, <1>x DEF Pause, Settle, Complete, ToolThrows, At, ExecInv, LocalsOK, Calling
  <2> QED
    BY <1>11, <1>g, <2>1 DEF Pause, Settle, Complete, ToolThrows, Gone
<1>12. CASE Finish(e) \/ Die(e) \/ RunThrows(e)
  BY <1>12, <1>g DEF Finish, Die, RunThrows, Gone
<1> QED
  BY <1>1, <1>2, <1>3, <1>4, <1>5, <1>6, <1>7, <1>8, <1>9, <1>10, <1>11, <1>12 DEF Acts

\* Only the creation of an effect gives it a status.
LEMMA OthersKeepNew ==
  ASSUME OnceInv, NEW e \in Execs, Acts(e), NEW f \in Execs, f # e,
         exec[f].pc \in Calling, Key(f) \notin LastingKeys, effect[Key(f)] = "none"
  PROVE  effect'[Key(f)] = "none"
<1>x. ExecInv /\ RowsOK /\ Key(f) \in Keys
  BY TypesSplit, CallHasKey DEF OnceInv
<1>1. CASE Create(e) \/ Claim(e) \/ Settle(e) \/ Complete(e)
  <2>1. exec[e].pc \in Calling
    BY <1>1, CallingSteps DEF Create, Claim, Settle, Complete, At
  <2>2. Key(e) \in Keys
    BY <1>x, <2>1, CallHasKey
  <2>3. Key(e) # Key(f)
    BY <2>1, OwnAreApart
  <2>4. \A s \in Status : Becomes(Key(e), s) => effect'[Key(f)] = effect[Key(f)]
    BY <1>x, <2>2, <2>3, BecomesKnown
  <2> QED
    BY <1>1, <2>4 DEF Create, Claim, Settle, Complete, Status
<1>2. CASE ~(Create(e) \/ Claim(e) \/ Settle(e) \/ Complete(e))
  <2>1. effect' = effect
    BY <1>2 DEF Acts, Begin, Prepare, Replay, Call, Apply, Find, LookAtRun, Renew, Pause,
                Reread, Perform, Finish, Die, ToolThrows, RunThrows
  <2> QED
    BY <2>1
<1> QED
  BY <1>1, <1>2

\* An answer is about a request, and so leaves the keys of single calls alone.
LEMMA AnswerKeepsOwn ==
  ASSUME OnceInv,
         (\E k \in Keys : ReadAnswer(k)) \/ CommitAnswer \/ EditRules \/ Retry \/ UNCHANGED vars,
         NEW k \in Keys, k \notin LastingKeys
  PROVE  effect'[k] = effect[k]
<1>1. CASE CommitAnswer
  <2>1. RowsOK /\ answer.key \in LastingKeys /\ answer.key \in Keys
    <3>1. RowsOK /\ answer.key # None
      BY <1>1, TypesSplit DEF OnceInv, CommitAnswer
    <3> QED
      BY <3>1 DEF OnceInv, AsksOK, RowsOK
  <2>2. k # answer.key
    BY <2>1
  <2>3. \A s \in Status : Becomes(answer.key, s) => effect'[k] = effect[k]
    BY <2>1, <2>2, BecomesKnown
  <2> QED
    BY <1>1, <2>3 DEF CommitAnswer, Status
<1>2. CASE (\E j \in Keys : ReadAnswer(j)) \/ EditRules \/ Retry \/ UNCHANGED vars
  BY <1>2 DEF ReadAnswer, EditRules, Retry, vars
<1> QED
  BY <1>1, <1>2

LEMMA CallsStay ==
  ASSUME OnceInv, [Next]_vars
  PROVE  Calls'
<1>1. CASE \E e \in Execs : Acts(e)
  <2>1. PICK e \in Execs : Acts(e)
    BY <1>1
  <2>2. Growth /\ Only(e)
    BY <2>1, ActsGrow, OneActs DEF OnceInv
  <2>3. (KeyOK(e) /\ PlaceOK(e))'
    BY <2>1, <2>2, ActorOK
  <2>4. ASSUME NEW f \in Execs, f # e PROVE (KeyOK(f) /\ PlaceOK(f))'
    <3>1. exec'[f] = exec[f]
      BY <2>2, <2>4 DEF Only
    <3>2. exec[f].pc \in Calling /\ Key(f) \notin LastingKeys /\ effect[Key(f)] = "none"
            => effect'[Key(f)] = "none"
      BY <2>1, <2>4, OthersKeepNew
    <3> QED
      BY <2>2, <3>1, <3>2, OthersStay
  <2> QED
    BY <2>3, <2>4 DEF Calls
<1>2. CASE ~\E e \in Execs : Acts(e)
  <2>1. (\E k \in Keys : ReadAnswer(k)) \/ CommitAnswer \/ EditRules \/ Retry \/ UNCHANGED vars
    BY <1>2, Actors
  <2>2. Growth /\ exec' = exec
    BY <2>1, UserGrows, UserLeavesExec DEF OnceInv
  <2>3. ASSUME NEW f \in Execs PROVE (KeyOK(f) /\ PlaceOK(f))'
    <3>1. exec[f].pc \in Calling => Key(f) \in Keys
      BY CallHasKey, TypesSplit DEF OnceInv
    <3>2. exec[f].pc \in Calling /\ Key(f) \notin LastingKeys /\ effect[Key(f)] = "none"
            => effect'[Key(f)] = "none"
      BY <2>1, <3>1, AnswerKeepsOwn
    <3> QED
      BY <2>2, <3>2, OthersStay
  <2> QED
    BY <2>3 DEF Calls
<1> QED
  BY <1>1, <1>2

------------------------------------------------------------------------------
(* The keys of single calls *)

\* A step that neither begins an invocation nor a call, nor creates an effect.
LEMMA OwnStay ==
  ASSUME OnceInv, Growth, NEW e \in Execs, Only(e),
         exec'[e].pc # "idle" =>
           /\ exec[e].pc # "idle" /\ exec'[e].start = exec[e].start
           /\ exec'[e].calls = exec[e].calls,
         \A k \in Keys \ LastingKeys : effect'[k] # "none" => effect[k] # "none"
  PROVE  OwnKeys'
<1>1. OwnKeys
  BY DEF OnceInv
<1>2. \A f \in Execs : exec'[f].pc # "idle" =>
        /\ exec[f].pc # "idle" /\ exec'[f].start = exec[f].start
        /\ exec'[f].calls = exec[f].calls
  BY DEF Only
<1>3. \A f, g \in Execs :
        f # g /\ exec'[f].pc # "idle" /\ exec'[g].pc # "idle" => exec'[f].start # exec'[g].start
  BY <1>1, <1>2 DEF OwnKeys
<1>4. ASSUME NEW k \in Keys \ LastingKeys, effect'[k] # "none"
      PROVE  /\ k[2] <= starts'
             /\ \A f \in Execs : exec'[f].pc # "idle" /\ exec'[f].start = k[2]
                                   => k[3] <= exec'[f].calls
  <2>1. /\ k[2] <= starts
        /\ \A f \in Execs : exec[f].pc # "idle" /\ exec[f].start = k[2] => k[3] <= exec[f].calls
    BY <1>1, <1>4 DEF OwnKeys
  <2>2. k[2] \in Nat
    BY KeysTyped, EffectConstantsOK
  <2> QED
    BY <1>2, <2>1, <2>2 DEF Growth
<1> QED
  BY <1>3, <1>4 DEF OwnKeys

LEMMA OwnStayBegin ==
  ASSUME OnceInv, NEW e \in Execs, Begin(e), Only(e)
  PROVE  OwnKeys'
<1>x. OwnKeys /\ ExecInv /\ (\A f \in Execs : PlaceOK(f)) /\ starts \in Nat
  BY TypesSplit, EffectConstantsOK DEF OnceInv, Calls, RowsOK
<1>1. exec'[e].start = starts + 1 /\ exec'[e].calls = 0 /\ starts' = starts + 1
  <2>1. exec'[e] = [Idle EXCEPT !.pc = "starting", !.start = starts + 1] /\ starts' = starts + 1
    BY <1>x DEF Begin, ExecInv
  <2> QED
    BY <2>1 DEF Idle
<1>2. \A f \in Execs \ {e} : exec'[f] = exec[f] /\ (exec[f].pc # "idle" => exec[f].start \in 1..starts)
  BY <1>x DEF Only, PlaceOK
<1>3. \A f, g \in Execs :
        f # g /\ exec'[f].pc # "idle" /\ exec'[g].pc # "idle" => exec'[f].start # exec'[g].start
  BY <1>x, <1>1, <1>2 DEF OwnKeys
<1>4. ASSUME NEW k \in Keys \ LastingKeys, effect'[k] # "none"
      PROVE  /\ k[2] <= starts'
             /\ \A f \in Execs : exec'[f].pc # "idle" /\ exec'[f].start = k[2]
                                   => k[3] <= exec'[f].calls
  <2>1. /\ k[2] <= starts
        /\ \A f \in Execs : exec[f].pc # "idle" /\ exec[f].start = k[2] => k[3] <= exec[f].calls
    BY <1>x, <1>4 DEF OwnKeys, Begin
  <2>2. k[2] \in Nat
    BY KeysTyped, EffectConstantsOK
  <2> QED
    BY <1>x, <1>1, <1>2, <2>1, <2>2
<1> QED
  BY <1>3, <1>4 DEF OwnKeys

LEMMA OwnStayApply ==
  ASSUME OnceInv, NEW e \in Execs, NEW r \in Requests, NEW Q \in SUBSET Keys,
         Apply(e, r, Q), Only(e)
  PROVE  OwnKeys'
<1> DEFINE seen == IF exec[e].rules = Unread THEN rules ELSE exec[e].rules
           key == IF Asks(seen, ToolOf[r]) \/ ToolOf[r] \in Consequential
                  THEN Lasting(r) ELSE <<r, exec[e].start, exec[e].calls + 1>>
<1>x. OwnKeys /\ ExecInv /\ exec[e] \in ExecTypes /\ starts' = starts /\ effect' = effect
  BY DEF OnceInv, TypeInv, ExecInv, Apply, counts
<1>1. exec[e].pc # "idle" /\ exec'[e].start = exec[e].start /\ exec'[e].calls = exec[e].calls + 1
  <2>1. exec'[e] = [exec[e] EXCEPT !.pc = "finding", !.rules = seen, !.calls = exec[e].calls + 1,
                                   !.queue = Q, !.call = [of |-> r, key |-> key, from |-> "intended"]]
    BY <1>x DEF Apply, ExecInv
  <2>2. exec[e].pc = "ready"
    BY DEF Apply, At
  <2> QED
    BY <2>1, <2>2, <1>x DEF ExecTypes
<1>2. \A f \in Execs \ {e} : exec'[f] = exec[f]
  BY DEF Only
<1>3. exec[e].calls \in Nat
  BY <1>x, EffectConstantsOK DEF ExecTypes
<1>4. \A k \in Keys : k[3] \in Nat
  BY KeysTyped, EffectConstantsOK
<1> QED
  BY <1>x, <1>1, <1>2, <1>3, <1>4 DEF OwnKeys

LEMMA OwnStayCreate ==
  ASSUME OnceInv, NEW e \in Execs, Create(e), Only(e), Growth, effect[Key(e)] = "none"
  PROVE  OwnKeys'
<1>x. OwnKeys /\ ExecInv /\ RowsOK /\ KeyOK(e) /\ PlaceOK(e) /\ starts' = starts
  BY TypesSplit DEF OnceInv, Calls, Create, counts
<1>1. exec[e].pc \in Calling /\ exec[e].pc # "idle" /\ Key(e) \in Keys /\ Becomes(Key(e), "intended")
  BY <1>x, CallingSteps, CallHasKey DEF Create, At
<1>2. exec'[e].start = exec[e].start /\ exec'[e].calls = exec[e].calls
  <2>1. \E pc \in Calling : Goto(e, pc)
    BY CallingSteps DEF Create
  <2> QED
    BY <2>1, <1>x, <1>1, GotoKeeps DEF SameCall
<1>3. \A f \in Execs : exec'[f].start = exec[f].start /\ exec'[f].calls = exec[f].calls
                       /\ (exec'[f].pc # "idle" => exec[f].pc # "idle")
  BY <1>1, <1>2 DEF Only
<1>4. ASSUME NEW k \in Keys \ LastingKeys, effect'[k] # "none"
      PROVE  /\ k[2] <= starts
             /\ \A f \in Execs : exec[f].pc # "idle" /\ exec[f].start = k[2] => k[3] <= exec[f].calls
  <2>1. CASE k = Key(e)
    <3>1. k[2] = exec[e].start /\ k[3] = exec[e].calls
      BY <1>1, <1>x, <1>4, <2>1 DEF KeyOK, LastingKeys
    <3>2. exec[e].start \in 1..starts /\ exec[e].calls \in Nat
      BY <1>1, <1>x, EffectConstantsOK DEF PlaceOK, KeyOK
    <3>3. starts \in Nat
      BY <1>x, EffectConstantsOK DEF RowsOK
    <3> QED
      BY <1>x, <1>1, <3>1, <3>2, <3>3 DEF OwnKeys
  <2>2. CASE k # Key(e)
    <3>1. effect'[k] = effect[k]
      BY <1>1, <1>x, <2>2, BecomesKnown DEF Status
    <3> QED
      BY <1>x, <1>4, <3>1 DEF OwnKeys
  <2> QED
    BY <2>1, <2>2
<1> QED
  BY <1>x, <1>3, <1>4 DEF OwnKeys

\* Every other step of an invocation keeps its number and that of its call.
Numbered(e) ==
  exec'[e].pc # "idle" =>
    /\ exec[e].pc # "idle" /\ exec'[e].start = exec[e].start
    /\ exec'[e].calls = exec[e].calls

LEMMA NumbersKept ==
  ASSUME TypeInv, NEW e \in Execs, Acts(e), ~Begin(e), ~Replay(e),
         ~\E r \in Requests : Call(e, r)
  PROVE  Numbered(e)
<1>x. ExecInv /\ exec[e] \in ExecTypes
  BY DEF TypeInv, ExecInv
<1>g. ASSUME Gone(e) PROVE Numbered(e)
  BY <1>g, <1>x, Locals, IdleTyped DEF Numbered
<1>r. ASSUME Result(e), exec[e].pc # "idle" PROVE Numbered(e)
  <2>1. exec'[e] = [exec[e] EXCEPT !.pc = "ready", !.call = NoCall]
    BY <1>r, <1>x, Locals
  <2> QED
    BY <2>1, <1>r, <1>x DEF Numbered, ExecTypes
<1>s. ASSUME NEW pc, Goto(e, pc), exec[e].pc # "idle" PROVE Numbered(e)
  <2>1. exec'[e] = [exec[e] EXCEPT !.pc = pc]
    BY <1>s, <1>x, Locals
  <2> QED
    BY <2>1, <1>s, <1>x DEF Numbered, ExecTypes
<1>1. CASE Prepare(e)
  <2>1. exec'[e] = [exec[e] EXCEPT !.pc = "ready", !.queue = {k \in Keys : effect[k] = "approved"}]
    BY <1>1, <1>x DEF Prepare, ExecInv
  <2> QED
    BY <2>1, <1>1, <1>x DEF Numbered, ExecTypes, Prepare, At
<1>2. CASE Find(e)
  <2> DEFINE found == effect[Key(e)]
             next == Gate(found, AskedOf(e))
             from == IF found = "approved" THEN found ELSE "intended"
  <2>1. exec[e].pc = "finding"
    BY <1>2 DEF Find, At
  <2>2. CASE next = "ready"
    BY <1>2, <1>r, <2>1, <2>2 DEF Find
  <2>3. CASE next # "ready"
    <3>1. exec' = [exec EXCEPT ![e].pc = next, ![e].call.from = from]
      BY <1>2, <2>3 DEF Find
    <3> HIDE DEF next, from
    <3> QED
      BY <3>1, <2>1, <1>x DEF Numbered, ExecTypes, ExecInv
  <2> QED
    BY <2>2, <2>3
<1>3. CASE Create(e) \/ Claim(e) \/ Reread(e) \/ Settle(e) \/ Perform(e) \/ Complete(e)
  BY <1>3, <1>r, <1>s DEF Create, Claim, Reread, Settle, Perform, Complete, At
<1>4. CASE LookAtRun(e) \/ Renew(e) \/ Pause(e)
  BY <1>4, <1>g, <1>r, <1>s DEF LookAtRun, Renew, Pause, At, Gone
<1>5. CASE ToolThrows(e)
  BY <1>5, <1>r, <1>x DEF ToolThrows, ExecInv, LocalsOK, Calling
<1>6. CASE Finish(e) \/ Die(e) \/ RunThrows(e)
  BY <1>6, <1>g DEF Finish, Die, RunThrows, Gone
<1> QED
  BY <1>1, <1>2, <1>3, <1>4, <1>5, <1>6 DEF Acts

\* Who gives an effect a status, and which.
LEMMA EffectMoves ==
  ASSUME TypeInv, NEW e \in Execs, Acts(e), effect' # effect
  PROVE  \/ Create(e) /\ effect[Key(e)] = "none" /\ Becomes(Key(e), "intended")
         \/ Claim(e) /\ effect[Key(e)] = exec[e].call.from /\ Becomes(Key(e), "executing")
         \/ Settle(e) /\ effect[Key(e)] = "executing" /\ Becomes(Key(e), "uncertain")
         \/ Complete(e) /\ effect[Key(e)] \in {"executing", "intended"} /\ Becomes(Key(e), "completed")
<1>1. Create(e) \/ Claim(e) \/ Settle(e) \/ Complete(e)
  BY DEF Acts, Begin, Prepare, Replay, Call, Apply, Find, LookAtRun, Renew, Pause,
         Reread, Perform, Finish, Die, ToolThrows, RunThrows
<1> QED
  BY <1>1 DEF Create, Claim, Settle, Complete

LEMMA OwnKeysStay ==
  ASSUME OnceInv, [Next]_vars
  PROVE  OwnKeys'
<1>1. CASE \E e \in Execs : Acts(e)
  <2>1. PICK e \in Execs : Acts(e)
    BY <1>1
  <2>2. Growth /\ Only(e) /\ exec[e] \in ExecTypes /\ ExecInv /\ RowsOK
    BY <2>1, ActsGrow, OneActs, TypesSplit DEF OnceInv, ExecInv
  <2>3. CASE Begin(e)
    BY <2>2, <2>3, OwnStayBegin
  <2>4. CASE Replay(e) \/ \E r \in Requests : Call(e, r)
    <3>1. \E r \in Requests, Q \in SUBSET Keys : Apply(e, r, Q)
      <4>1. ASSUME NEW k \in exec[e].queue, Apply(e, k[1], exec[e].queue \ {k})
            PROVE  \E r \in Requests, Q \in SUBSET Keys : Apply(e, r, Q)
        <5>1. k[1] \in Requests /\ exec[e].queue \ {k} \in SUBSET Keys
          BY <2>2, KeysTyped DEF ExecTypes
        <5> QED
          BY <4>1, <5>1
      <4>2. {} \in SUBSET Keys
        OBVIOUS
      <4> QED
        BY <2>4, <4>1, <4>2 DEF Replay, Call
    <3> QED
      BY <2>2, <3>1, OwnStayApply
  <2>5. CASE Create(e) /\ effect[Key(e)] = "none"
    BY <2>2, <2>5, OwnStayCreate
  <2>6. CASE /\ ~Begin(e) /\ ~Replay(e) /\ ~\E r \in Requests : Call(e, r)
             /\ ~(Create(e) /\ effect[Key(e)] = "none")
    <3>1. Numbered(e)
      BY <2>1, <2>6, NumbersKept DEF OnceInv
    <3>2. ASSUME NEW k \in Keys, effect'[k] # "none" PROVE effect[k] # "none"
      <4>1. CASE effect' = effect
        BY <3>2, <4>1
      <4>2. CASE effect' # effect
        <5>1. Claim(e) \/ Settle(e) \/ Complete(e)
          BY <2>1, <2>6, <4>2, EffectMoves DEF OnceInv
        <5>2. exec[e].pc \in Calling /\ exec[e].call.from # "none"
          BY <5>1, <2>2, CallingSteps DEF Claim, Settle, Complete, At, ExecTypes, CallTypes
        <5>3. Key(e) \in Keys
          BY <5>2, <2>2, CallHasKey
        <5>4. effect[Key(e)] # "none"
          BY <2>1, <2>6, <4>2, <5>2, EffectMoves DEF OnceInv
        <5>5. \A s \in Status : Becomes(Key(e), s) => \A j \in Keys \ {Key(e)} : effect'[j] = effect[j]
          BY <5>3, <2>2, BecomesKnown
        <5> QED
          BY <2>1, <3>2, <4>2, <5>4, <5>5, EffectMoves DEF OnceInv, Status
      <4> QED
        BY <4>1, <4>2
    <3> QED
      BY <2>2, <3>1, <3>2, OwnStay DEF Numbered
  <2> QED
    BY <2>3, <2>4, <2>5, <2>6
<1>2. CASE ~\E e \in Execs : Acts(e)
  <2>1. (\E k \in Keys : ReadAnswer(k)) \/ CommitAnswer \/ EditRules \/ Retry \/ UNCHANGED vars
    BY <1>2, Actors
  <2>2. exec' = exec /\ starts' = starts
    BY <2>1, UserLeavesExec
  <2>3. \A k \in Keys \ LastingKeys : effect'[k] = effect[k]
    BY <2>1, AnswerKeepsOwn
  <2> QED
    BY <2>2, <2>3 DEF OnceInv, OwnKeys
<1> QED
  BY <1>1, <1>2

------------------------------------------------------------------------------
(* Questions and answers *)

\* Nothing but an answer approves an effect.
LEMMA OnlyAnswersApprove ==
  ASSUME TypeInv, NEW e \in Execs, Acts(e), NEW k \in Keys, effect'[k] = "approved"
  PROVE  effect[k] = "approved"
<1>1. CASE effect' = effect
  BY <1>1
<1>2. CASE effect' # effect
  <2>1. RowsOK /\ ExecInv
    BY TypesSplit
  <2>2. Key(e) \in Keys
    <3>1. Create(e) \/ Claim(e) \/ Settle(e) \/ Complete(e)
      BY <1>2, EffectMoves
    <3>2. exec[e].pc \in Calling
      BY <3>1, CallingSteps DEF Create, Claim, Settle, Complete, At
    <3> QED
      BY <2>1, <3>2, CallHasKey
  <2>3. \A s \in Status : Becomes(Key(e), s) =>
          effect'[Key(e)] = s /\ \A j \in Keys \ {Key(e)} : effect'[j] = effect[j]
    BY <2>1, <2>2, BecomesKnown
  <2> QED
    BY <1>2, <2>3, EffectMoves DEF Status
<1> QED
  BY <1>1, <1>2

LEMMA AsksStay ==
  ASSUME OnceInv, [Next]_vars
  PROVE  AsksOK'
<1>x. AsksOK /\ TypeInv /\ RowsOK /\ ExecInv
  BY TypesSplit DEF OnceInv
<1>1. CASE \E e \in Execs : Acts(e)
  <2>1. PICK e \in Execs : Acts(e)
    BY <1>1
  <2>2. \A k \in Keys : effect'[k] = "approved" => effect[k] = "approved"
    BY <1>x, <2>1, OnlyAnswersApprove
  <2>3. answer' = answer /\ consent' = consent
    BY <2>1 DEF Acts, Begin, Prepare, Replay, Call, Apply, Find, Create, LookAtRun, Renew, Pause,
         Claim, Reread, Settle, Perform, Complete, Finish, Die, ToolThrows, RunThrows, ghosts
  <2>4. asked' \subseteq LastingKeys
    <3>1. CASE Pause(e)
      <4>1. exec[e].pc \in Calling /\ exec[e].pc = "pausing"
        BY <3>1, CallingSteps DEF Pause, At
      <4>2. AskedOf(e)
        BY <4>1 DEF OnceInv, Calls, PlaceOK
      <4>3. Key(e) \in LastingKeys
        BY <4>1, <4>2, LastingIfAsked
      <4> QED
        BY <3>1, <4>3, <1>x DEF Pause, AsksOK
    <3>2. CASE ~Pause(e)
      <4>1. asked' = asked
        BY <2>1, <3>2 DEF Acts, Begin, Prepare, Replay, Call, Apply, Find, Create, LookAtRun, Renew,
             Claim, Reread, Settle, Perform, Complete, Finish, Die, ToolThrows, RunThrows
      <4> QED
        BY <4>1, <1>x DEF AsksOK
    <3> QED
      BY <3>1, <3>2
  <2> QED
    BY <1>x, <2>2, <2>3, <2>4 DEF AsksOK
<1>2. CASE CommitAnswer
  <2>1. answer.key \in LastingKeys /\ answer.key \in Keys /\ answer'.key = None /\ asked' = asked
    BY <1>2, <1>x DEF CommitAnswer, AsksOK, RowsOK
  <2>2. CASE run.status = "waiting_input"
    <3>1. Becomes(answer.key, IF answer.allow THEN "approved" ELSE "denied")
      BY <1>2, <2>2 DEF CommitAnswer
    <3>2. /\ effect'[answer.key] = IF answer.allow THEN "approved" ELSE "denied"
          /\ \A j \in Keys \ {answer.key} : effect'[j] = effect[j]
      BY <1>x, <2>1, <3>1, BecomesKnown DEF Status
    <3>3. /\ consent'.refused \subseteq consent.refused \cup {answer.key}
          /\ consent.allowed \subseteq consent'.allowed
          /\ answer.allow => answer.key \in consent'.allowed
      BY <1>2, <1>x, <2>2 DEF CommitAnswer, RowsOK
    <3> QED
      BY <1>x, <2>1, <3>2, <3>3 DEF AsksOK
  <2>3. CASE run.status # "waiting_input"
    BY <1>2, <1>x, <2>1, <2>3 DEF CommitAnswer, AsksOK
  <2> QED
    BY <2>2, <2>3
<1>3. CASE \E k \in Keys : ReadAnswer(k)
  BY <1>3, <1>x DEF ReadAnswer, AsksOK, ghosts
<1>4. CASE EditRules \/ Retry \/ UNCHANGED vars
  BY <1>4, <1>x DEF EditRules, Retry, vars, AsksOK, ghosts
<1> QED
  BY <1>1, <1>2, <1>3, <1>4, Actors

------------------------------------------------------------------------------
(* How often an effect is performed *)

\* A step that performs nothing, changes no status, and after which its
\* invocation is neither about to perform nor to complete.
LEMMA CountsQuiet ==
  ASSUME OnceInv, Growth, NEW e \in Execs, Only(e),
         exec'[e].pc \notin {"performing", "completing"},
         UNCHANGED <<effect, performed, consent>>
  PROVE  Counts'
<1> SUFFICES ASSUME NEW k \in Keys \ overwritten'
             PROVE  (CountOK(k) /\ \A f \in Execs : TurnOK(f, k))'
  BY DEF Counts
<1>1. CountOK(k) /\ \A f \in Execs : TurnOK(f, k)
  BY DEF OnceInv, Counts, Growth
<1>2. CountOK(k)'
  BY <1>1 DEF CountOK
<1>3. ~At(e, "performing")' /\ ~At(e, "completing")'
  BY DEF At
<1>4. ASSUME NEW f \in Execs PROVE TurnOK(f, k)'
  <2>1. CASE f = e
    BY <2>1, <1>3 DEF TurnOK
  <2>2. CASE f # e
    <3>1. \A g \in Execs \ {e} : /\ At(g, "performing")' = At(g, "performing")
                                 /\ At(g, "completing")' = At(g, "completing")
                                 /\ Key(g)' = Key(g)
      BY DEF Only, At, Key
    <3>2. TurnOK(f, k)
      BY <1>1
    <3>3. \A g \in Execs \ {f} : At(f, "performing") /\ Key(f) = k
            => ~(At(g, "performing")' /\ Key(g)' = k)
      BY <3>1, <3>2, <1>3 DEF TurnOK
    <3> QED
      BY <2>2, <3>1, <3>2, <3>3 DEF TurnOK
  <2> QED
    BY <2>1, <2>2
<1> QED
  BY <1>2, <1>4

\* The same for an effect that is not the step's own.
LEMMA CountsElsewhere ==
  ASSUME OnceInv, Growth, NEW e \in Execs, Only(e),
         exec'[e].pc \in {"performing", "completing"} => Key(e)' = Key(e),
         NEW k \in Keys \ overwritten', k # Key(e),
         effect'[k] = effect[k], performed'[k] = performed[k], consent' = consent
  PROVE  (CountOK(k) /\ \A f \in Execs : TurnOK(f, k))'
<1>1. CountOK(k) /\ \A f \in Execs : TurnOK(f, k)
  BY DEF OnceInv, Counts, Growth
<1>2. CountOK(k)'
  BY <1>1 DEF CountOK
<1>3. \A g \in Execs \ {e} : /\ At(g, "performing")' = At(g, "performing")
                             /\ At(g, "completing")' = At(g, "completing")
                             /\ Key(g)' = Key(g)
  BY DEF Only, At, Key
<1>4. ASSUME NEW f \in Execs PROVE TurnOK(f, k)'
  <2>1. CASE f = e
    BY <2>1 DEF TurnOK, At
  <2>2. CASE f # e
    <3>1. \A g \in Execs \ {f} : At(f, "performing") /\ Key(f) = k
            => ~(At(g, "performing")' /\ Key(g)' = k)
      BY <1>1, <1>3 DEF TurnOK, At
    <3> QED
      BY <2>2, <1>1, <1>3, <3>1 DEF TurnOK
  <2> QED
    BY <2>1, <2>2
<1> QED
  BY <1>2, <1>4

\* Whoever performs an effect has found no answer against it.
LEMMA PerformsUnanswered ==
  ASSUME OnceInv, NEW e \in Execs, At(e, "performing"), Key(e) \notin overwritten
  PROVE  /\ Key(e) \in Keys /\ performed[Key(e)] = 0 /\ Key(e) \notin consent.refused
         /\ effect[Key(e)] # "none"
         /\ Key(e) \in LastingKeys => effect[Key(e)] \in {"executing", "uncertain"}
         /\ AskedOf(e) => Key(e) \in consent.allowed
<1>1. exec[e].pc \in Calling /\ exec[e].pc = "performing"
  BY CallingSteps DEF At
<1>2. Key(e) \in Keys
  BY <1>1, CallHasKey, TypesSplit DEF OnceInv
<1>3. CountOK(Key(e)) /\ TurnOK(e, Key(e)) /\ PlaceOK(e) /\ AsksOK
  BY <1>2 DEF OnceInv, Counts, Calls
<1> QED
  BY <1>1, <1>2, <1>3 DEF CountOK, TurnOK, PlaceOK, AsksOK

LEMMA CountsCreate ==
  ASSUME OnceInv, Growth, NEW e \in Execs, Only(e), Create(e), effect[Key(e)] = "none"
  PROVE  Counts'
<1>x. ExecInv /\ RowsOK
  BY TypesSplit DEF OnceInv
<1>1. exec[e].pc \in Calling /\ Key(e) \in Keys /\ Becomes(Key(e), "intended")
      /\ UNCHANGED <<performed, consent, overwritten>>
  BY <1>x, CallingSteps, CallHasKey DEF Create, At
<1>2. effect'[Key(e)] = "intended" /\ \A j \in Keys \ {Key(e)} : effect'[j] = effect[j]
  BY <1>x, <1>1, BecomesKnown DEF Status
<1>3. /\ SameCall(e) /\ exec'[e].pc # "completing"
      /\ exec'[e].pc = "performing" =>
           ~AskedOf(e) /\ ToolOf[exec[e].call.of] \notin Consequential
  <2> DEFINE pc == IF AskedOf(e) THEN "renewing"
                   ELSE IF ToolOf[exec[e].call.of] \in Consequential
                   THEN "claiming" ELSE "performing"
  <2>1. Goto(e, pc) /\ pc \in Calling
    BY CallingSteps DEF Create
  <2>2. SameCall(e) /\ exec'[e].pc = pc
    BY <2>1, <1>x, <1>1, GotoKeeps
  <2> QED
    BY <2>2
<1>4. Key(e)' = Key(e)
  BY <1>3 DEF SameCall, Key
<1>5. ASSUME Key(e) \notin overwritten
      PROVE  (CountOK(Key(e)) /\ \A f \in Execs : TurnOK(f, Key(e)))'
  <2>1. performed[Key(e)] = 0 /\ Key(e) \notin consent.refused
    BY <1>1, <1>5 DEF OnceInv, Counts, CountOK
  <2>2. \A f \in Execs \ {e} : ~(At(f, "performing") /\ Key(f) = Key(e))
    BY <1>5, PerformsUnanswered
  <2>3. \A f \in Execs \ {e} : ~(At(f, "completing") /\ Key(f) = Key(e))
    BY <1>1, <1>5, <2>1 DEF OnceInv, Counts, TurnOK
  <2>4. \A f \in Execs \ {e} : exec'[f] = exec[f] /\ Key(f)' = Key(f)
    BY DEF Only, Key
  <2>5. exec'[e].pc = "performing" => Key(e) \notin LastingKeys
    <3>1. KeyOK(e)
      BY DEF OnceInv, Calls
    <3>2. ASSUME exec'[e].pc = "performing" PROVE Key(e) \notin LastingKeys
      <4>1. Key(e) = <<exec[e].call.of, exec[e].start, exec[e].calls>>
        BY <1>1, <1>3, <3>1, <3>2 DEF KeyOK
      <4>2. exec[e].call.of \in Requests /\ exec[e].calls \in Nat /\ exec[e].calls # 0
        BY <1>1, <3>1, EffectConstantsOK DEF KeyOK
      <4> QED
        BY <4>1, <4>2, NumberedIsOwn
    <3> QED
      BY <3>2
  <2>6. CountOK(Key(e))'
    BY <1>1, <1>2, <1>4, <2>1 DEF CountOK
  <2>7. ASSUME NEW f \in Execs PROVE TurnOK(f, Key(e))'
    <3>1. CASE f = e
      BY <3>1, <1>1, <1>3, <1>4, <2>1, <2>2, <2>4, <2>5 DEF TurnOK, At
    <3>2. CASE f # e
      BY <3>2, <1>4, <2>2, <2>3, <2>4 DEF TurnOK, At
    <3> QED
      BY <3>1, <3>2
  <2> QED
    BY <2>6, <2>7
<1>6. ASSUME NEW k \in Keys \ overwritten', k # Key(e)
      PROVE  (CountOK(k) /\ \A f \in Execs : TurnOK(f, k))'
  BY <1>1, <1>2, <1>4, <1>6, CountsElsewhere
<1>7. ASSUME NEW k \in Keys \ overwritten'
      PROVE  (CountOK(k) /\ \A f \in Execs : TurnOK(f, k))'
  <2>1. CASE k = Key(e)
    <3>1. Key(e) \notin overwritten
      BY <2>1, <1>1
    <3> QED
      BY <1>5, <2>1, <1>4, <3>1 DEF CountOK, TurnOK
  <2>2. CASE k # Key(e)
    BY <1>6, <2>2
  <2> QED
    BY <2>1, <2>2
<1> QED
  BY <1>7 DEF Counts

LEMMA CountsClaim ==
  ASSUME OnceInv, Growth, NEW e \in Execs, Only(e), Claim(e), effect[Key(e)] = exec[e].call.from
  PROVE  Counts'
<1>x. ExecInv /\ RowsOK
  BY TypesSplit DEF OnceInv
<1>1. exec[e].pc \in Calling /\ Key(e) \in Keys /\ Becomes(Key(e), "executing")
      /\ Goto(e, "performing") /\ UNCHANGED <<performed, consent, overwritten>>
  BY <1>x, CallingSteps, CallHasKey DEF Claim, At, ghosts
<1>2. effect'[Key(e)] = "executing" /\ \A j \in Keys \ {Key(e)} : effect'[j] = effect[j]
  BY <1>x, <1>1, BecomesKnown DEF Status
<1>3. SameCall(e) /\ exec'[e].pc = "performing" /\ Key(e)' = Key(e)
  <2>1. "performing" \in Calling
    BY CallingSteps
  <2> QED
    BY <2>1, <1>x, <1>1, GotoKeeps DEF SameCall, Key
<1>4. effect[Key(e)] \in {"intended", "approved"} /\ Key(e) \in LastingKeys
  <2>1. exec[e].call.from \in {"intended", "approved"}
    BY <1>x DEF ExecInv, ExecTypes, CallTypes
  <2>2. exec[e].pc = "claiming" /\ PlaceOK(e)
    BY DEF OnceInv, Calls, Claim, At
  <2> QED
    BY <1>1, <2>1, <2>2 DEF PlaceOK
<1>5. ASSUME NEW k \in Keys \ overwritten', k = Key(e)
      PROVE  (CountOK(k) /\ \A f \in Execs : TurnOK(f, k))'
  <2>1. k \notin overwritten
    BY <1>1, <1>5
  <2>2. performed[k] = 0 /\ k \notin consent.refused
    BY <1>4, <1>5, <2>1 DEF OnceInv, Counts, CountOK
  <2>3. \A f \in Execs \ {e} : ~(At(f, "performing") /\ Key(f) = k)
    BY <1>4, <1>5, <2>1, PerformsUnanswered
  <2>4. \A f \in Execs \ {e} : ~(At(f, "completing") /\ Key(f) = k)
    BY <2>1, <2>2 DEF OnceInv, Counts, TurnOK
  <2>5. \A f \in Execs \ {e} : exec'[f] = exec[f] /\ Key(f)' = Key(f)
    BY DEF Only, Key
  <2>6. CountOK(k)'
    BY <1>1, <1>2, <1>5, <2>2 DEF CountOK
  <2>7. ASSUME NEW f \in Execs PROVE TurnOK(f, k)'
    <3>1. CASE f = e
      BY <3>1, <1>1, <1>2, <1>3, <1>5, <2>2, <2>3, <2>5 DEF TurnOK, At
    <3>2. CASE f # e
      BY <3>2, <2>3, <2>4, <2>5 DEF TurnOK, At
    <3> QED
      BY <3>1, <3>2
  <2> QED
    BY <2>6, <2>7
<1>6. ASSUME NEW k \in Keys \ overwritten', k # Key(e)
      PROVE  (CountOK(k) /\ \A f \in Execs : TurnOK(f, k))'
  BY <1>1, <1>2, <1>3, <1>6, CountsElsewhere
<1> QED
  BY <1>5, <1>6 DEF Counts

\* A call that ends with a new status for an effect that had been claimed.
LEMMA CountsEnds ==
  ASSUME OnceInv, Growth, NEW e \in Execs, Only(e), NEW s \in {"uncertain", "completed"},
         exec[e].pc \in Calling, Becomes(Key(e), s), exec'[e].pc = "ready",
         effect[Key(e)] \in {"executing", "intended"},
         s = "uncertain" => effect[Key(e)] = "executing",
         s = "completed" => At(e, "completing"),
         UNCHANGED <<performed, consent, overwritten>>
  PROVE  Counts'
<1>x. ExecInv /\ RowsOK
  BY TypesSplit DEF OnceInv
<1>1. Key(e) \in Keys
  BY <1>x, CallHasKey
<1>2. effect'[Key(e)] = s /\ \A j \in Keys \ {Key(e)} : effect'[j] = effect[j]
  BY <1>x, <1>1, BecomesKnown DEF Status
<1>3. ASSUME NEW k \in Keys \ overwritten', k = Key(e)
      PROVE  (CountOK(k) /\ \A f \in Execs : TurnOK(f, k))'
  <2>1. CountOK(k) /\ \A f \in Execs : TurnOK(f, k)
    BY <1>3 DEF OnceInv, Counts
  <2>2. CountOK(k)'
    BY <1>2, <1>3, <2>1 DEF CountOK
  <2>3. \A f \in Execs \ {e} : exec'[f] = exec[f] /\ Key(f)' = Key(f)
    BY DEF Only, Key
  <2>4. s = "completed" => \A f \in Execs : ~(At(f, "performing") /\ Key(f) = k)
    <3>1. At(e, "completing") => performed[k] = 1
      BY <1>3, <2>1 DEF TurnOK
    <3>2. \A f \in Execs : At(f, "performing") /\ Key(f) = k => performed[k] = 0
      BY <2>1 DEF TurnOK
    <3> QED
      BY <3>1, <3>2
  <2>5. ASSUME NEW f \in Execs PROVE TurnOK(f, k)'
    <3>1. CASE f = e
      BY <3>1 DEF TurnOK, At
    <3>2. CASE f # e
      <4>1. TurnOK(f, k) /\ exec'[f] = exec[f] /\ Key(f)' = Key(f)
        BY <2>1, <2>3, <3>2
      <4>2. At(f, "performing") /\ Key(f) = k =>
              \A g \in Execs \ {f} : ~(At(g, "performing")' /\ Key(g)' = k)
        BY <4>1, <2>3 DEF TurnOK, At
      <4>3. At(f, "performing") /\ Key(f) = k /\ k \in LastingKeys
              => effect'[k] \in {"executing", "uncertain"}
        BY <1>2, <1>3, <2>4
      <4> QED
        BY <4>1, <4>2, <4>3 DEF TurnOK, At
    <3> QED
      BY <3>1, <3>2
  <2> QED
    BY <2>2, <2>5
<1>4. ASSUME NEW k \in Keys \ overwritten', k # Key(e)
      PROVE  (CountOK(k) /\ \A f \in Execs : TurnOK(f, k))'
  BY <1>2, <1>4, CountsElsewhere
<1> QED
  BY <1>3, <1>4 DEF Counts

LEMMA CountsPerform ==
  ASSUME OnceInv, Growth, NEW e \in Execs, Only(e), Perform(e)
  PROVE  Counts'
<1>x. ExecInv /\ RowsOK
  BY TypesSplit DEF OnceInv
<1>1. exec[e].pc \in Calling /\ Key(e) \in Keys /\ Goto(e, "completing") /\ At(e, "performing")
      /\ UNCHANGED <<effect, consent, overwritten>>
  BY <1>x, CallingSteps, CallHasKey DEF Perform, At
<1>2. performed'[Key(e)] = performed[Key(e)] + 1
      /\ \A j \in Keys \ {Key(e)} : performed'[j] = performed[j]
  BY <1>x, <1>1 DEF Perform, RowsOK
<1>3. exec'[e].pc = "completing" /\ Key(e)' = Key(e)
  <2>1. "completing" \in Calling
    BY CallingSteps
  <2> QED
    BY <2>1, <1>x, <1>1, GotoKeeps DEF SameCall, Key
<1>5. ASSUME NEW k \in Keys \ overwritten', k = Key(e)
      PROVE  (CountOK(k) /\ \A f \in Execs : TurnOK(f, k))'
  <2>1. k \notin overwritten
    BY <1>1, <1>5
  <2>2. /\ performed[k] = 0 /\ k \notin consent.refused /\ effect[k] # "none"
        /\ k \in LastingKeys => effect[k] \in {"executing", "uncertain"}
    BY <1>1, <1>5, <2>1, PerformsUnanswered
  <2>3. \A f \in Execs \ {e} : ~(At(f, "performing") /\ Key(f) = k)
    BY <1>1, <1>5, <2>1 DEF OnceInv, Counts, TurnOK
  <2>4. \A f \in Execs \ {e} : ~(At(f, "completing") /\ Key(f) = k)
    BY <2>1, <2>2 DEF OnceInv, Counts, TurnOK
  <2>5. \A f \in Execs \ {e} : exec'[f] = exec[f] /\ Key(f)' = Key(f)
    BY DEF Only, Key
  <2>6. CountOK(k)'
    BY <1>1, <1>2, <1>5, <2>2 DEF CountOK
  <2>7. ASSUME NEW f \in Execs PROVE TurnOK(f, k)'
    <3>1. CASE f = e
      BY <3>1, <1>2, <1>3, <1>5, <2>2 DEF TurnOK, At
    <3>2. CASE f # e
      BY <3>2, <2>3, <2>4, <2>5 DEF TurnOK, At
    <3> QED
      BY <3>1, <3>2
  <2> QED
    BY <2>6, <2>7
<1>6. ASSUME NEW k \in Keys \ overwritten', k # Key(e)
      PROVE  (CountOK(k) /\ \A f \in Execs : TurnOK(f, k))'
  BY <1>1, <1>2, <1>3, <1>6, CountsElsewhere
<1> QED
  BY <1>5, <1>6 DEF Counts

\* An answer about an effect that has moved on puts it among the overwritten;
\* any other finds that nobody has performed it.
LEMMA CountsAnswer ==
  ASSUME OnceInv, Growth, CommitAnswer
  PROVE  Counts'
<1>x. RowsOK /\ AsksOK /\ exec' = exec /\ performed' = performed
  BY TypesSplit, UserLeavesExec DEF OnceInv
<1>1. answer.key \in Keys /\ answer.key \in LastingKeys
  BY <1>x DEF CommitAnswer, RowsOK, AsksOK
<1>2. CASE run.status # "waiting_input"
  <2>1. effect' = effect /\ consent' = consent /\ overwritten' = overwritten
    BY <1>2 DEF CommitAnswer
  <2> QED
    BY <2>1, <1>x DEF OnceInv, Counts, CountOK, TurnOK, At, Key
<1>3. CASE run.status = "waiting_input"
  <2> DEFINE s == IF answer.allow THEN "approved" ELSE "denied"
  <2>1. effect'[answer.key] = s /\ \A j \in Keys \ {answer.key} : effect'[j] = effect[j]
    BY <1>x, <1>1, <1>3, BecomesKnown DEF CommitAnswer, Status
  <2>2. /\ consent'.refused \subseteq consent.refused \cup {answer.key}
        /\ answer.allow => consent'.refused = consent.refused
    BY <1>3, <1>x DEF CommitAnswer, RowsOK
  <2>3. effect[answer.key] # "intended" => answer.key \in overwritten'
    BY <1>3 DEF CommitAnswer
  <2>4. ASSUME NEW k \in Keys \ overwritten'
        PROVE  (CountOK(k) /\ \A f \in Execs : TurnOK(f, k))'
    <3>1. CountOK(k) /\ \A f \in Execs : TurnOK(f, k)
      BY <2>4 DEF OnceInv, Counts, Growth
    <3>2. CASE k # answer.key
      BY <3>1, <3>2, <2>1, <2>2, <1>x DEF CountOK, TurnOK, At, Key
    <3>3. CASE k = answer.key
      <4>1. effect[k] = "intended" /\ k \in LastingKeys
        BY <3>3, <2>3, <2>4, <1>1
      <4>2. performed[k] = 0 /\ k \notin consent.refused
        BY <3>1, <4>1 DEF CountOK
      <4>3. \A f \in Execs : ~((At(f, "performing") \/ At(f, "completing")) /\ Key(f) = k)
        BY <3>1, <4>1, <4>2 DEF TurnOK
      <4>4. CountOK(k)'
        BY <3>3, <4>1, <4>2, <2>1, <2>2, <1>x DEF CountOK
      <4>5. \A f \in Execs : TurnOK(f, k)'
        BY <4>3, <1>x DEF TurnOK, At, Key
      <4> QED
        BY <4>4, <4>5
    <3> QED
      BY <3>2, <3>3
  <2> QED
    BY <2>4 DEF Counts
<1> QED
  BY <1>2, <1>3

LEMMA CountsStay ==
  ASSUME OnceInv, [Next]_vars
  PROVE  Counts'
<1>x. TypeInv /\ ExecInv /\ RowsOK
  BY TypesSplit DEF OnceInv
<1>1. CASE \E e \in Execs : Acts(e)
  <2>1. PICK e \in Execs : Acts(e)
    BY <1>1
  <2>2. Growth /\ Only(e)
    BY <1>x, <2>1, ActsGrow, OneActs
  <2>3. CASE Create(e) /\ effect[Key(e)] = "none"
    BY <2>2, <2>3, CountsCreate
  <2>4. CASE Claim(e) /\ effect[Key(e)] = exec[e].call.from
    BY <2>2, <2>4, CountsClaim
  <2>5. CASE Perform(e)
    BY <2>2, <2>5, CountsPerform
  <2>6. CASE (Settle(e) \/ Complete(e)) /\ effect' # effect
    <3>1. exec[e].pc \in Calling /\ exec[e].pc # "idle" /\ Result(e)
          /\ UNCHANGED <<performed, consent, overwritten>>
      BY <2>6, CallingSteps DEF Settle, Complete, At, ghosts
    <3>2. exec'[e].pc = "ready"
      BY <3>1, <1>x, EndsRest
    <3>3. CASE Settle(e)
      BY <2>2, <2>6, <3>1, <3>2, <3>3, CountsEnds DEF Settle
    <3>4. CASE Complete(e)
      <4>1. At(e, "completing") /\ Becomes(Key(e), "completed")
            /\ effect[Key(e)] \in {"executing", "intended"}
        BY <2>6, <3>4 DEF Complete
      <4> QED
        BY <2>2, <3>1, <3>2, <4>1, CountsEnds
    <3> QED
      BY <2>6, <3>3, <3>4
  <2>7. CASE /\ ~(Create(e) /\ effect[Key(e)] = "none") /\ ~Perform(e)
             /\ ~(Claim(e) /\ effect[Key(e)] = exec[e].call.from)
             /\ ~((Settle(e) \/ Complete(e)) /\ effect' # effect)
    <3>1. effect' = effect
      BY <1>x, <2>1, <2>7, EffectMoves
    <3>2. performed' = performed /\ consent' = consent
      BY <2>1, <2>7 DEF Acts, Begin, Prepare, Replay, Call, Apply, Find, Create, LookAtRun, Renew,
           Pause, Claim, Reread, Settle, Complete, Finish, Die, ToolThrows, RunThrows, ghosts
    <3>3. exec'[e].pc \notin {"performing", "completing"}
      <4>g. Gone(e) \/ (Result(e) /\ exec[e].pc # "idle") => exec'[e].pc \in {"idle", "ready"}
        BY <1>x, EndsRest, Locals, IdleTyped
      <4>s. \A pc : Goto(e, pc) => exec'[e].pc = pc
        BY <1>x DEF Goto, ExecInv, ExecTypes
      <4>1. CASE Begin(e) \/ Prepare(e)
        BY <4>1, <1>x DEF Begin, Prepare, ExecInv, ExecTypes, Idle
      <4>2. CASE Replay(e) \/ \E r \in Requests : Call(e, r)
        <5>1. \E r, Q : Apply(e, r, Q)
          BY <4>2 DEF Replay, Call
        <5>2. PICK r, Q : Apply(e, r, Q)
          BY <5>1
        <5>3. exec'[e].pc = "finding"
          BY <5>2, <1>x DEF Apply, ExecInv, ExecTypes
        <5> QED
          BY <5>3
      <4>3. CASE Find(e)
        <5> DEFINE found == effect[Key(e)]
                   next == Gate(found, AskedOf(e))
                   from == IF found = "approved" THEN found ELSE "intended"
        <5>1. exec[e].pc = "finding" /\ exec[e].pc \in Calling
          BY <4>3, CallingSteps DEF Find, At
        <5>2. CASE next = "ready"
          BY <4>3, <4>g, <5>1, <5>2 DEF Find
        <5>3. CASE next # "ready"
          <6>1. exec' = [exec EXCEPT ![e].pc = next, ![e].call.from = from]
            BY <4>3, <5>3 DEF Find
          <6>2. found \in Status
            BY <5>1, <1>x, CallHasKey DEF RowsOK
          <6>3. next \in {"creating", "looking", "settling", "claiming"}
            BY <6>2, <5>3 DEF Gate, Status
          <6>4. exec'[e].pc = next
            <7> HIDE DEF next, from
            <7> QED
              BY <6>1, <1>x DEF ExecInv, ExecTypes
          <6> QED
            BY <6>3, <6>4
        <5> QED
          BY <5>2, <5>3
      <4>4. CASE Create(e) \/ Claim(e) \/ Reread(e) \/ Settle(e) \/ Complete(e)
        BY <4>4, <2>7, <4>g, <4>s DEF Create, Claim, Reread, Settle, Complete, At
      <4>5. CASE LookAtRun(e) \/ Renew(e) \/ Pause(e)
        BY <4>5, <4>g, <4>s DEF LookAtRun, Renew, Pause, At, Gone
      <4>6. CASE ToolThrows(e)
        BY <4>6, <4>g, <1>x DEF ToolThrows, ExecInv, LocalsOK, Calling
      <4>7. CASE Finish(e) \/ Die(e) \/ RunThrows(e)
        BY <4>7, <4>g DEF Finish, Die, RunThrows, Gone
      <4> QED
        BY <2>1, <2>7, <4>1, <4>2, <4>3, <4>4, <4>5, <4>6, <4>7 DEF Acts
    <3> QED
      BY <2>2, <3>1, <3>2, <3>3, CountsQuiet
  <2> QED
    BY <2>3, <2>4, <2>5, <2>6, <2>7
<1>2. CASE CommitAnswer
  BY <1>x, <1>2, UserGrows, CountsAnswer
<1>3. CASE (\E k \in Keys : ReadAnswer(k)) \/ EditRules \/ Retry \/ UNCHANGED vars
  <2>1. UNCHANGED <<effect, exec, performed, consent, overwritten>>
    BY <1>3 DEF ReadAnswer, EditRules, Retry, vars, ghosts
  <2> QED
    BY <2>1 DEF OnceInv, Counts, CountOK, TurnOK, At, Key
<1> QED
  BY <1>1, <1>2, <1>3, Actors

LEMMA OnceStays ==
  ASSUME OnceInv, [Next]_vars
  PROVE  OnceInv'
BY TypesStay, CallsStay, OwnKeysStay, AsksStay, CountsStay DEF OnceInv

LEMMA OnceInit == Init => OnceInv
<1> SUFFICES ASSUME Init PROVE OnceInv
  OBVIOUS
<1>1. TypeInv
  BY TypesInit
<1>2. \A e \in Execs : exec[e] = Idle
  BY DEF Init
<1>3. Calls
  BY <1>2 DEF Calls, KeyOK, PlaceOK, Idle, Calling
<1>4. \A k \in Keys : effect[k] = "none" /\ performed[k] = 0
  BY DEF Init
<1>5. OwnKeys
  BY <1>2, <1>4, IdleTyped DEF OwnKeys
<1>6. AsksOK
  BY <1>4 DEF Init, AsksOK
<1>7. Counts
  BY <1>2, <1>4, IdleTyped DEF Counts, CountOK, TurnOK, At, Init
<1> QED
  BY <1>1, <1>3, <1>5, <1>6, <1>7 DEF OnceInv

LEMMA OnceHolds == Spec => []OnceInv
<1>1. OnceInv /\ [Next]_vars => OnceInv'
  BY OnceStays
<1> QED
  BY OnceInit, <1>1, PTL DEF Spec

\* However many invocations replay an effect, overlap or die, it is performed
\* once at most, unless an answer was written over what it had become.
THEOREM OncePerformed == Spec => []PerformedOnce
<1>1. OnceInv => PerformedOnce
  <2> SUFFICES ASSUME OnceInv, NEW k \in Keys \ overwritten PROVE performed[k] <= 1
    BY DEF PerformedOnce
  <2> QED
    BY DEF OnceInv, Counts, CountOK
<1> QED
  BY <1>1, OnceHolds, PTL

\* Nothing is performed that was refused, or that needs a consent it has not.
THEOREM WordIsKept == Spec => AsTheUserSays
<1> DEFINE Kept == \A e \in Execs, k \in Keys \ overwritten :
                     At(e, "performing") /\ Key(e) = k /\ performed'[k] # performed[k] =>
                       /\ k \notin consent.refused
                       /\ AskedOf(e) => k \in consent.allowed
<1>1. OnceInv => Kept
  BY PerformsUnanswered
<1>2. OnceInv /\ [Next]_vars => [Kept]_vars
  BY <1>1
<1> HIDE DEF Kept
<1>3. Spec => [][Kept]_vars
  BY <1>2, OnceHolds, PTL DEF Spec
<1> QED
  BY <1>3 DEF AsTheUserSays, Kept

------------------------------------------------------------------------------
(* What was approved is replayed *)

\* An approved effect that has not failed is still before the holder of the run.
Owes(e, k) ==
  \/ k \in exec[e].queue \/ k \in swallowed
  \/ Key(e) = k /\ exec[e].pc \in {"finding", "creating", "claiming", "rereading"}

\* While it does, the run has not completed.
Owed(k) ==
  /\ run.status = "completed" => k \in swallowed
  /\ \A e \in Execs : Holds(e) /\ exec[e].pc \notin {"idle", "starting"} => Owes(e, k)

ReplayInv ==
  \A r \in Requests :
    ToolOf[r] \in Consequential /\ effect[Lasting(r)] = "approved" => Owed(Lasting(r))

LEMMA RunMoves ==
  ASSUME NEW e \in Execs, Acts(e)
  PROVE  /\ Begin(e) \/ run' = run \/ run'.status # "running"
         /\ Begin(e) => run' = [status |-> "running", holder |-> e]
         /\ run'.status = "completed" =>
              \/ run.status = "completed"
              \/ Finish(e) /\ Holds(e) /\ exec[e].queue = {}
<1>1. CASE Begin(e)
  BY <1>1 DEF Begin
<1>2. CASE Pause(e) \/ RunThrows(e)
  <2>1. run' = run \/ run'.status \in {"waiting_input", "failed"}
    BY <1>2 DEF Pause, RunThrows
  <2>2. ~Begin(e)
    BY <1>2 DEF Pause, RunThrows, Begin, At
  <2> QED
    BY <2>1, <2>2
<1>4. CASE Finish(e)
  <2>1. \/ run' = run
        \/ run'.status = "failed"
        \/ Holds(e) /\ exec[e].queue = {} /\ run'.status = "completed"
    BY <1>4 DEF Finish
  <2>2. ~Begin(e)
    BY <1>4 DEF Finish, Begin, At
  <2> QED
    BY <1>4, <2>1, <2>2
<1>3. CASE ~Begin(e) /\ ~Pause(e) /\ ~Finish(e) /\ ~RunThrows(e)
  <2>1. run' = run
    BY <1>3 DEF Acts, Prepare, Replay, Call, Apply, Find, Create, LookAtRun, Renew,
         Claim, Reread, Settle, Perform, Complete, Die, ToolThrows
  <2> QED
    BY <1>3, <2>1
<1> QED
  BY <1>1, <1>2, <1>3, <1>4

LEMMA SwallowedStay ==
  ASSUME NEW e \in Execs, Acts(e)
  PROVE  swallowed \subseteq swallowed'
  BY DEF Acts, Begin, Prepare, Replay, Call, Apply, Find, Create, LookAtRun, Renew, Pause, Claim,
         Reread, Settle, Perform, Complete, Finish, Die, ToolThrows, RunThrows, ghosts

\* The holder's own step.
LEMMA HolderOwes ==
  ASSUME OnceInv, NEW e \in Execs, Acts(e), ~Begin(e),
         NEW r \in Requests, ToolOf[r] \in Consequential,
         NEW k \in Keys, k = Lasting(r), effect[k] = "approved", effect'[k] = "approved",
         exec[e].pc \notin {"idle", "starting"} => Owes(e, k),
         exec'[e].pc \notin {"idle", "starting"}
  PROVE  Owes(e, k)'
<1>x. TypeInv /\ ExecInv /\ RowsOK /\ exec[e] \in ExecTypes /\ PlaceOK(e)
  BY TypesSplit DEF OnceInv, ExecInv, Calls
<1>w. swallowed \subseteq swallowed'
  BY SwallowedStay
<1>g. ~Gone(e)
  BY <1>x, Locals, IdleTyped
\* A call that ends after it has been owed, or has not.
<1>r. ASSUME Result(e), exec[e].pc \notin {"idle", "starting"},
             Key(e) = k /\ exec[e].pc \in {"finding", "creating", "claiming", "rereading"}
               => k \in swallowed'
      PROVE  Owes(e, k)'
  <2>1. exec'[e].queue = exec[e].queue
    BY <1>r, <1>x, EndsRest, IdleTyped DEF Rests, Result, ExecInv, ExecTypes
  <2> QED
    BY <1>r, <1>w, <2>1 DEF Owes
\* A call that goes on.
<1>s. ASSUME SameCall(e),
             Key(e) = k /\ exec[e].pc \in {"finding", "creating", "claiming", "rereading"}
               => exec'[e].pc \in {"finding", "creating", "claiming", "rereading"}
      PROVE  Owes(e, k)'
  <2>1. exec'[e].queue = exec[e].queue /\ Key(e)' = Key(e) /\ exec[e].pc \in Calling
    BY <1>s DEF SameCall, Key
  <2> QED
    BY <1>s, <1>w, <2>1, CallingSteps DEF Owes
<1>t. ASSUME NEW pc \in Calling, Goto(e, pc), exec[e].pc \in Calling,
             Key(e) = k /\ exec[e].pc \in {"finding", "creating", "claiming", "rereading"}
               => pc \in {"finding", "creating", "claiming", "rereading"}
      PROVE  Owes(e, k)'
  BY <1>t, <1>s, <1>x, GotoKeeps
<1>1. CASE Prepare(e)
  <2>1. exec'[e] = [exec[e] EXCEPT !.pc = "ready", !.queue = {j \in Keys : effect[j] = "approved"}]
    BY <1>1, <1>x DEF Prepare, ExecInv
  <2>2. k \in exec'[e].queue
    BY <2>1, <1>x DEF ExecTypes
  <2> QED
    BY <2>2 DEF Owes
<1>2. ASSUME NEW q \in Requests, NEW Q \in SUBSET Keys, Apply(e, q, Q),
             k \in exec[e].queue => k \in Q \/ q = r
      PROVE  Owes(e, k)'
  <2> DEFINE seen == IF exec[e].rules = Unread THEN rules ELSE exec[e].rules
             n == exec[e].calls + 1
             key == IF Asks(seen, ToolOf[q]) \/ ToolOf[q] \in Consequential
                    THEN Lasting(q) ELSE <<q, exec[e].start, n>>
             c == [of |-> q, key |-> key, from |-> "intended"]
  <2>1. exec'[e] = [exec[e] EXCEPT !.pc = "finding", !.rules = seen, !.calls = n,
                                   !.queue = Q, !.call = c]
    BY <1>2, <1>x DEF Apply, ExecInv
  <2>2. exec'[e].pc = "finding" /\ exec'[e].queue = Q /\ Key(e)' = key
    <3> HIDE DEF seen, n, key
    <3> QED
      BY <2>1, <1>x DEF ExecTypes, Key
  <2>3. k \in exec[e].queue \/ k \in swallowed
    BY <1>2 DEF Apply, At, Owes
  <2>4. q = r => key = k
    OBVIOUS
  <2> HIDE DEF key
  <2> QED
    BY <1>2, <1>w, <2>2, <2>3, <2>4 DEF Owes
<1>3. CASE Replay(e)
  <2>1. PICK j \in exec[e].queue : Apply(e, j[1], exec[e].queue \ {j})
    BY <1>3 DEF Replay
  <2>2. j[1] \in Requests /\ exec[e].queue \ {j} \in SUBSET Keys
    BY <1>x, KeysTyped DEF ExecTypes
  <2>3. k \in exec[e].queue => k \in exec[e].queue \ {j} \/ j[1] = r
    BY DEF Lasting
  <2> QED
    BY <1>2, <2>1, <2>2, <2>3
<1>4. CASE \E q \in Requests : Call(e, q)
  BY <1>4, <1>2 DEF Call
<1>5. CASE Find(e)
  <2> DEFINE found == effect[Key(e)]
             next == Gate(found, AskedOf(e))
             from == IF found = "approved" THEN found ELSE "intended"
  <2>1. exec[e].pc \in Calling /\ exec[e].pc = "finding"
    BY <1>5, CallingSteps DEF Find, At
  <2>2. Key(e) = k => next = "claiming"
    BY DEF Gate
  <2>3. CASE next = "ready"
    BY <1>5, <1>r, <2>1, <2>2, <2>3 DEF Find
  <2>4. CASE next # "ready"
    <3>1. exec' = [exec EXCEPT ![e].pc = next, ![e].call.from = from]
      BY <1>5, <2>4 DEF Find
    <3>2. found \in Status
      BY <1>x, <2>1, CallHasKey DEF RowsOK
    <3>3. next \in Calling
      BY <3>2, <2>4, CallingSteps DEF Gate, Status
    <3>4. SameCall(e) /\ exec'[e].pc = next
      <4> HIDE DEF next, from
      <4>1. exec[e].call \in CallTypes
        BY <1>x DEF ExecTypes
      <4> QED
        BY <3>1, <3>3, <4>1, <2>1, <1>x DEF SameCall, ExecInv, ExecTypes, CallTypes
    <3> HIDE DEF next
    <3> QED
      BY <2>2, <3>4, <1>s
  <2> QED
    BY <2>3, <2>4
<1>6. CASE Create(e)
  <2>1. exec[e].pc \in Calling /\ exec[e].pc = "creating"
    BY <1>6, CallingSteps DEF Create, At
  <2>2. CASE effect[Key(e)] # "none"
    BY <1>6, <1>r, <2>1, <2>2 DEF Create
  <2>3. CASE effect[Key(e)] = "none"
    <3>1. Key(e) # k /\ \E pc \in Calling : Goto(e, pc)
      BY <1>6, <2>3, CallingSteps DEF Create
    <3> QED
      BY <3>1, <2>1, <1>t
  <2> QED
    BY <2>2, <2>3
<1>7. CASE Claim(e)
  <2>1. exec[e].pc \in Calling /\ exec[e].pc = "claiming" /\ Key(e) \in Keys
    BY <1>7, <1>x, CallingSteps, CallHasKey DEF Claim, At
  <2>2. CASE effect[Key(e)] = exec[e].call.from
    <3>1. effect'[Key(e)] = "executing"
      BY <1>7, <1>x, <2>1, <2>2, BecomesKnown DEF Claim, Status
    <3>2. Key(e) # k /\ Goto(e, "performing") /\ "performing" \in Calling
      BY <1>7, <2>2, <3>1, CallingSteps DEF Claim
    <3> QED
      BY <3>2, <2>1, <1>t
  <2>3. CASE effect[Key(e)] # exec[e].call.from
    <3>1. Goto(e, "rereading") /\ "rereading" \in Calling
      BY <1>7, <2>3, CallingSteps DEF Claim
    <3> QED
      BY <3>1, <2>1, <1>t
  <2> QED
    BY <2>2, <2>3
<1>8. CASE Reread(e)
  <2>1. exec[e].pc \in Calling /\ exec[e].pc = "rereading" /\ "settling" \in Calling
    BY <1>8, CallingSteps DEF Reread, At
  <2>2. CASE effect[Key(e)] = "executing"
    BY <1>8, <2>1, <2>2, <1>t DEF Reread
  <2>3. CASE effect[Key(e)] # "executing"
    <3>1. Key(e) = k => k \in swallowed'
      BY <1>8 DEF Reread
    <3> QED
      BY <1>8, <2>1, <2>3, <3>1, <1>r DEF Reread
  <2> QED
    BY <2>2, <2>3
<1>9. CASE LookAtRun(e) \/ Renew(e) \/ Perform(e)
  <2>1. exec[e].pc \in Calling /\ exec[e].pc \in {"looking", "renewing", "performing"}
    BY <1>9, CallingSteps DEF LookAtRun, Renew, Perform, At
  <2> QED
    BY <1>9, <1>g, <2>1, <1>t, CallingSteps DEF LookAtRun, Renew, Perform, Gone
<1>10. CASE Pause(e) \/ Settle(e) \/ Complete(e)
  <2>1. exec[e].pc \in {"pausing", "settling", "completing"}
    BY <1>10 DEF Pause, Settle, Complete, At
  <2> QED
    BY <1>10, <1>g, <2>1, <1>r DEF Pause, Settle, Complete, Gone
<1>11. CASE ToolThrows(e)
  <2>1. exec[e].pc \notin {"idle", "starting"} /\ Key(e) \in swallowed'
    BY <1>11, <1>x DEF ToolThrows, ExecInv, LocalsOK, Calling
  <2> QED
    BY <1>11, <2>1, <1>r DEF ToolThrows
<1>12. CASE Finish(e) \/ Die(e) \/ RunThrows(e)
  BY <1>12, <1>g DEF Finish, Die, RunThrows, Gone
<1> QED
  BY <1>1, <1>3, <1>4, <1>5, <1>6, <1>7, <1>8, <1>9, <1>10, <1>11, <1>12 DEF Acts

LEMMA ReplayStays ==
  ASSUME OnceInv, ReplayInv, [Next]_vars
  PROVE  ReplayInv'
<1>x. TypeInv /\ RowsOK
  BY TypesSplit DEF OnceInv
<1> SUFFICES ASSUME NEW r \in Requests, NEW k, k = Lasting(r), ToolOf[r] \in Consequential,
                    effect'[k] = "approved"
             PROVE  Owed(k)'
  BY DEF ReplayInv
<1>k. k \in Keys
  BY KeysTyped
<1>1. CASE \E e \in Execs : Acts(e)
  <2>1. PICK e \in Execs : Acts(e)
    BY <1>1
  <2>2. effect[k] = "approved" /\ swallowed \subseteq swallowed' /\ Only(e)
    BY <1>x, <1>k, <2>1, OnlyAnswersApprove, SwallowedStay, OneActs
  <2>3. Owed(k)
    BY <2>2 DEF ReplayInv
  <2>4. ASSUME run'.status = "completed" PROVE k \in swallowed'
    <3>1. CASE run.status = "completed"
      BY <2>2, <2>3, <3>1 DEF Owed
    <3>2. CASE Finish(e) /\ Holds(e) /\ exec[e].queue = {}
      BY <2>2, <2>3, <3>2 DEF Owed, Owes, Finish, At
    <3> QED
      BY <2>1, <2>4, <3>1, <3>2, RunMoves
  <2>5. ASSUME NEW f \in Execs, Holds(f)', exec'[f].pc \notin {"idle", "starting"}
        PROVE  Owes(f, k)'
    <3>1. CASE Begin(e)
      <4>1. f = e
        BY <2>1, <2>5, <3>1, RunMoves DEF Holds
      <4>2. exec'[e].pc = "starting"
        BY <3>1, <1>x DEF Begin, TypeInv, ExecInv, Idle
      <4> QED
        BY <2>5, <4>1, <4>2
    <3>2. CASE ~Begin(e)
      <4>1. Holds(f)
        BY <2>1, <2>5, <3>2, RunMoves DEF Holds
      <4>2. exec[f].pc \notin {"idle", "starting"} => Owes(f, k)
        BY <2>3, <4>1 DEF Owed
      <4>3. CASE f = e
        BY <1>k, <2>1, <2>2, <2>5, <3>2, <4>2, <4>3, HolderOwes
      <4>4. CASE f # e
        <5>1. exec'[f] = exec[f] /\ Key(f)' = Key(f)
          BY <2>2, <4>4 DEF Only, Key
        <5> QED
          BY <2>2, <2>5, <4>2, <5>1 DEF Owes
      <4> QED
        BY <4>3, <4>4
    <3> QED
      BY <3>1, <3>2
  <2> QED
    BY <2>4, <2>5 DEF Owed
<1>2. CASE CommitAnswer /\ run.status = "waiting_input"
  <2>1. run'.status = "queued"
    BY <1>2, <1>x DEF CommitAnswer, RowsOK
  <2> QED
    BY <2>1 DEF Owed, Holds
<1>3. CASE Retry
  <2>1. run'.status = "queued"
    BY <1>3, <1>x DEF Retry, RowsOK
  <2> QED
    BY <2>1 DEF Owed, Holds
<1>4. CASE \/ CommitAnswer /\ run.status # "waiting_input"
           \/ (\E j \in Keys : ReadAnswer(j)) \/ EditRules \/ UNCHANGED vars
  <2>1. UNCHANGED <<run, effect, exec, swallowed>>
    BY <1>4 DEF CommitAnswer, ReadAnswer, EditRules, vars, ghosts
  <2>2. Owed(k)
    BY <2>1 DEF ReplayInv
  <2> QED
    BY <2>1, <2>2 DEF Owed, Owes, Holds, Key
<1> QED
  BY <1>1, <1>2, <1>3, <1>4, Actors

\* A run that has completed has replayed every consequential effect that was
\* approved, but for those whose call met an error.
THEOREM ApprovalsAreReplayed == Spec => []ApprovedIsReplayed
<1>1. Init => ReplayInv
  <2> SUFFICES ASSUME Init PROVE ReplayInv
    OBVIOUS
  <2>1. \A r \in Requests : effect[Lasting(r)] = "none"
    BY KeysTyped DEF Init
  <2> QED
    BY <2>1 DEF ReplayInv
<1>2. OnceInv /\ ReplayInv /\ [Next]_vars => ReplayInv'
  BY ReplayStays
<1>3. ReplayInv => ApprovedIsReplayed
  BY DEF ReplayInv, Owed, ApprovedIsReplayed
<1> QED
  BY <1>1, <1>2, <1>3, OnceHolds, PTL DEF Spec

------------------------------------------------------------------------------
(* The promise of OneEffect is kept *)

\* What OnceInv does not say of the keys of single calls, of completed effects and
\* of an answer under way.
PlainInv ==
  /\ answer.key # None => effect[answer.key] # "none"
  /\ overwritten \subseteq LastingKeys
  /\ \A k \in Keys \ LastingKeys : effect[k] \in {"none", "intended", "completed"}
  /\ \A k \in Keys \ overwritten : effect[k] = "completed" => performed[k] = 1

\* Only performing is counted, and only an answer overwrites.
LEMMA ActsLeave ==
  ASSUME NEW e \in Execs, Acts(e)
  PROVE  UNCHANGED <<answer, overwritten>> /\ (Perform(e) \/ performed' = performed)
<1>1. CASE Perform(e) \/ Create(e) \/ Reread(e) \/ ToolThrows(e)
  BY <1>1 DEF Perform, Create, Reread, ToolThrows
<1>2. CASE Begin(e) \/ Prepare(e) \/ Find(e) \/ LookAtRun(e) \/ Renew(e)
  BY <1>2 DEF Begin, Prepare, Find, LookAtRun, Renew, ghosts
<1>3. CASE Replay(e) \/ \E r \in Requests : Call(e, r)
  <2>1. ASSUME NEW r, NEW q, Apply(e, r, q) PROVE UNCHANGED <<answer, overwritten, performed>>
    BY <2>1 DEF Apply, ghosts
  <2> QED
    BY <1>3, <2>1 DEF Replay, Call
<1>4. CASE \/ Pause(e) \/ Claim(e) \/ Settle(e) \/ Complete(e) \/ Finish(e) \/ Die(e)
           \/ RunThrows(e)
  BY <1>4 DEF Pause, Claim, Settle, Complete, Finish, Die, RunThrows, ghosts
<1> QED
  BY <1>1, <1>2, <1>3, <1>4 DEF Acts

\* The effect an invocation writes, claims, settles or completes is that of its call.
LEMMA WriterHasKey ==
  ASSUME OnceInv, NEW e \in Execs, Acts(e), effect' # effect
  PROVE  /\ Key(e) \in Keys
         /\ \A j \in Keys \ {Key(e)} : effect'[j] = effect[j]
         /\ \A s \in Status : Becomes(Key(e), s) => effect'[Key(e)] = s
<1>1. RowsOK /\ ExecInv
  BY TypesSplit DEF OnceInv
<1>2. Create(e) \/ Claim(e) \/ Settle(e) \/ Complete(e)
  BY EffectMoves DEF OnceInv
<1>3. Key(e) \in Keys
  BY <1>1, <1>2, CallHasKey, CallingSteps DEF Create, Claim, Settle, Complete, At
<1>4. \E s \in Status : Becomes(Key(e), s)
  BY EffectMoves DEF OnceInv, Status
<1> QED
  BY <1>1, <1>3, <1>4, BecomesKnown

\* Who claims or settles an effect has a lasting key, and who completes one has
\* performed it.
LEMMA WriterIsPlaced ==
  ASSUME OnceInv, NEW e \in Execs, Key(e) \in Keys
  PROVE  /\ Claim(e) \/ Settle(e) => Key(e) \in LastingKeys
         /\ Claim(e) => exec[e].call.from \in {"intended", "approved"}
         /\ Complete(e) /\ Key(e) \notin overwritten => performed[Key(e)] = 1
<1>1. PlaceOK(e) /\ (Key(e) \notin overwritten => TurnOK(e, Key(e)))
  BY DEF OnceInv, Calls, Counts
<1>2. exec[e].call.from \in {"intended", "approved"}
  BY TypesSplit DEF OnceInv, ExecInv, ExecTypes, CallTypes
<1>3. Claim(e) \/ Settle(e) => Key(e) \in LastingKeys
  BY <1>1, CallingSteps DEF PlaceOK, Claim, Settle, At
<1>4. Complete(e) /\ Key(e) \notin overwritten => performed[Key(e)] = 1
  BY <1>1 DEF TurnOK, Complete
<1> QED
  BY <1>2, <1>3, <1>4

\* An answer is about an effect with a lasting key, and writes that one only.
LEMMA AnswerWrites ==
  ASSUME OnceInv, CommitAnswer
  PROVE  /\ answer.key \in LastingKeys /\ answer.key \in Keys
         /\ UNCHANGED performed
         /\ \/ UNCHANGED <<effect, overwritten>>
            \/ /\ effect'[answer.key] \in {"approved", "denied"}
               /\ \A j \in Keys \ {answer.key} : effect'[j] = effect[j]
               /\ overwritten' = overwritten \cup {k \in {answer.key} : effect[k] # "intended"}
<1>1. RowsOK /\ answer.key \in LastingKeys
  BY TypesSplit DEF OnceInv, AsksOK, CommitAnswer
<1>2. answer.key \in Keys
  BY <1>1 DEF CommitAnswer, RowsOK
<1>3. UNCHANGED performed
  BY DEF CommitAnswer
<1>4. CASE run.status = "waiting_input"
  <2>1. PICK s \in {"approved", "denied"} : Becomes(answer.key, s)
    BY <1>4 DEF CommitAnswer
  <2>2. effect'[answer.key] = s /\ \A j \in Keys \ {answer.key} : effect'[j] = effect[j]
    BY <1>1, <1>2, <2>1, BecomesKnown DEF Status
  <2>3. overwritten' = overwritten \cup {k \in {answer.key} : effect[k] # "intended"}
    BY <1>4 DEF CommitAnswer
  <2> QED
    BY <1>1, <1>2, <1>3, <2>2, <2>3
<1>5. CASE run.status # "waiting_input"
  BY <1>1, <1>2, <1>3, <1>5 DEF CommitAnswer
<1> QED
  BY <1>4, <1>5

LEMMA ActsKeepPlain ==
  ASSUME OnceInv, PlainInv, NEW e \in Execs, Acts(e)
  PROVE  PlainInv'
<1>r. RowsOK /\ Growth
  BY TypesSplit, ActsGrow DEF OnceInv
<1>1. overwritten' = overwritten
  BY ActsLeave
<1>2. (answer.key # None => effect[answer.key] # "none")'
  <2>1. answer' = answer
    BY ActsLeave
  <2>2. answer.key # None => answer.key \in Keys
    BY <1>r DEF RowsOK
  <2> QED
    BY <1>r, <2>1, <2>2 DEF Growth, PlainInv
<1>3. CASE effect' # effect
  <2>1. performed' = performed
    BY <1>3, ActsLeave DEF Perform
  <2>2. /\ Key(e) \in Keys
        /\ \A j \in Keys \ {Key(e)} : effect'[j] = effect[j]
        /\ \A s \in Status : Becomes(Key(e), s) => effect'[Key(e)] = s
    BY <1>3, WriterHasKey
  <2>3. \/ Create(e) /\ effect'[Key(e)] = "intended"
        \/ Claim(e) /\ effect'[Key(e)] = "executing"
        \/ Settle(e) /\ effect'[Key(e)] = "uncertain"
        \/ Complete(e) /\ effect'[Key(e)] = "completed"
    BY <1>3, <2>2, EffectMoves DEF OnceInv, Status
  <2>4. /\ Key(e) \notin LastingKeys => effect'[Key(e)] \in {"none", "intended", "completed"}
        /\ effect'[Key(e)] = "completed" /\ Key(e) \notin overwritten
             => performed[Key(e)] = 1
    BY <2>2, <2>3, WriterIsPlaced
  <2> QED
    BY <1>1, <1>2, <2>1, <2>2, <2>4 DEF PlainInv
<1>4. CASE Perform(e)
  <2>1. effect' = effect /\ exec[e].pc \in Calling /\ At(e, "performing")
    BY <1>4, CallingSteps DEF Perform, At
  <2>2. Key(e) \in Keys
    BY <2>1, CallHasKey, TypesSplit DEF OnceInv
  <2>3. \A j \in Keys \ {Key(e)} : performed'[j] = performed[j]
    BY <1>r, <1>4, <2>2 DEF Perform, RowsOK
  <2>4. Key(e) \notin overwritten => effect[Key(e)] # "completed"
    BY <2>1, <2>2, PerformsUnanswered DEF PlainInv
  <2> QED
    BY <1>1, <1>2, <2>1, <2>3, <2>4 DEF PlainInv
<1>5. CASE effect' = effect /\ performed' = performed
  BY <1>1, <1>2, <1>5 DEF PlainInv
<1> QED
  BY <1>3, <1>4, <1>5, ActsLeave

LEMMA PlainStays ==
  ASSUME OnceInv, PlainInv, [Next]_vars
  PROVE  PlainInv'
<1>1. CASE \E e \in Execs : Acts(e)
  BY <1>1, ActsKeepPlain
<1>2. CASE CommitAnswer
  <2>1. answer'.key = None
    BY <1>2 DEF CommitAnswer
  <2> QED
    BY <1>2, <2>1, AnswerWrites DEF PlainInv
<1>3. CASE (\E k \in Keys : ReadAnswer(k)) \/ EditRules \/ Retry \/ UNCHANGED vars
  <2>1. UNCHANGED <<effect, performed, overwritten>>
    BY <1>3 DEF ReadAnswer, EditRules, Retry, vars, ghosts
  <2>2. answer' = answer \/ effect[answer'.key] = "intended"
    BY <1>3 DEF ReadAnswer, EditRules, Retry, vars
  <2> QED
    BY <2>1, <2>2 DEF PlainInv
<1> QED
  BY <1>1, <1>2, <1>3, Actors

\* An effect whose row and count stay, and which is not overwritten just then, has
\* the same fate.
LEMMA FateStays ==
  ASSUME NEW k \in Keys, effect'[k] = effect[k], performed'[k] = performed[k],
         k \in overwritten' <=> k \in overwritten
  PROVE  UNCHANGED Promise(k)!vars
  BY DEF Promise!vars, Fate

LEMMA LastingIsClaimed ==
  ASSUME NEW k \in Keys
  PROVE  k \in LastingKeys <=> k = Lasting(k[1])
<1>1. k[1] \in Requests
  BY KeysTyped
<1>2. ASSUME NEW r \in Requests, k = Lasting(r) PROVE k = Lasting(k[1])
  BY <1>2 DEF Lasting
<1> QED
  BY <1>1, <1>2 DEF LastingKeys

LEMMA PerformKeepsPromise ==
  ASSUME OnceInv, PlainInv, NEW e \in Execs, Perform(e), NEW k \in Keys
  PROVE  [Promise(k)!Next]_(Promise(k)!vars)
<1>r. RowsOK
  BY TypesSplit DEF OnceInv
<1>1. effect' = effect /\ overwritten' = overwritten /\ At(e, "performing")
  BY DEF Perform
<1>2. Key(e) \in Keys
  BY <1>1, CallHasKey, CallingSteps, TypesSplit DEF OnceInv, At
<1>3. performed'[Key(e)] = performed[Key(e)] + 1 /\ performed[Key(e)] \in Nat
      /\ \A j \in Keys \ {Key(e)} : performed'[j] = performed[j]
  BY <1>r, <1>2 DEF Perform, RowsOK
<1>4. CASE k # Key(e)
  BY <1>1, <1>3, <1>4, FateStays
<1>5. CASE k = Key(e) /\ k \in overwritten
  BY <1>1, <1>3, <1>5 DEF Promise!Next, Promise!CarryOutDisputed, Promise!Turns, Fate
<1>6. CASE k = Key(e) /\ k \notin overwritten
  <2>1. /\ performed[k] = 0 /\ effect[k] # "none"
        /\ k \in LastingKeys => effect[k] \in {"executing", "uncertain"}
    BY <1>1, <1>6, PerformsUnanswered
  <2>2. k \notin LastingKeys => effect[k] = "intended"
    BY <1>6, <2>1 DEF PlainInv
  <2>3. Fate(k) = IF k = Lasting(k[1]) THEN "claimed" ELSE "open"
    BY <1>6, <2>1, <2>2, LastingIsClaimed DEF Fate
  <2>4. Fate(k)' = "done"
    BY <1>1, <1>3, <1>6, <2>1 DEF Fate
  <2> QED
    BY <1>3, <1>6, <2>3, <2>4 DEF Promise!Next, Promise!CarryOut, Promise!Turns
<1> QED
  BY <1>4, <1>5, <1>6

LEMMA WriteKeepsPromise ==
  ASSUME OnceInv, NEW e \in Execs, Acts(e), effect' # effect, NEW k \in Keys
  PROVE  [Promise(k)!Next]_(Promise(k)!vars)
<1>1. performed' = performed /\ overwritten' = overwritten
  BY ActsLeave DEF Perform
<1>2. /\ Key(e) \in Keys
      /\ \A j \in Keys \ {Key(e)} : effect'[j] = effect[j]
      /\ \A s \in Status : Becomes(Key(e), s) => effect'[Key(e)] = s
  BY WriterHasKey
<1>3. CASE k # Key(e)
  BY <1>1, <1>2, <1>3, FateStays
<1>4. CASE k \in overwritten
  BY <1>1, <1>4 DEF Promise!vars, Fate
<1>5. CASE k = Key(e) /\ k \notin overwritten
  <2>1. CASE Claim(e) /\ effect[k] = exec[e].call.from /\ Becomes(k, "executing")
    <3>1. k = Lasting(k[1]) /\ k \in LastingKeys /\ effect[k] \in {"intended", "approved"}
      BY <1>2, <1>5, <2>1, WriterIsPlaced, LastingIsClaimed
    <3>2. performed[k] = 0 /\ effect'[k] = "executing"
      BY <1>2, <1>5, <2>1, <3>1 DEF OnceInv, Counts, CountOK, Status
    <3>3. Fate(k) \in {"open", "allowed"} /\ Fate(k)' = "claimed"
      BY <1>1, <1>5, <3>1, <3>2 DEF Fate
    <3> QED
      BY <1>1, <3>1, <3>3 DEF Promise!Next, Promise!Claim, Promise!Turns
  <2>2. CASE \/ Create(e) /\ effect[k] = "none" /\ Becomes(k, "intended")
             \/ Settle(e) /\ effect[k] = "executing" /\ Becomes(k, "uncertain")
    <3>1. \/ effect[k] = "none" /\ effect'[k] = "intended"
          \/ effect[k] = "executing" /\ effect'[k] = "uncertain"
      BY <1>2, <1>5, <2>2 DEF Status
    <3> QED
      BY <1>1, <1>5, <3>1 DEF Promise!vars, Fate
  <2>3. CASE Complete(e) /\ effect[k] \in {"executing", "intended"} /\ Becomes(k, "completed")
    <3>1. performed[k] = 1
      BY <1>2, <1>5, <2>3, WriterIsPlaced
    <3> QED
      BY <1>1, <1>5, <3>1 DEF Promise!vars, Fate
  <2> QED
    BY <1>5, <2>1, <2>2, <2>3, EffectMoves DEF OnceInv
<1> QED
  BY <1>3, <1>4, <1>5

LEMMA AnswerKeepsPromise ==
  ASSUME OnceInv, PlainInv, CommitAnswer, NEW k \in Keys
  PROVE  [Promise(k)!Next]_(Promise(k)!vars)
<1> USE AnswerWrites
<1>1. CASE UNCHANGED <<effect, overwritten>>
  BY <1>1, FateStays
<1>2. CASE k # answer.key
  BY <1>2, FateStays
<1>3. CASE k = answer.key /\ ~UNCHANGED <<effect, overwritten>>
  <2>1. /\ k \in LastingKeys /\ k = Lasting(k[1]) /\ UNCHANGED performed
        /\ effect'[k] \in {"approved", "denied"}
        /\ overwritten' = overwritten \cup {j \in {k} : effect[j] # "intended"}
    BY <1>3, LastingIsClaimed
  <2>2. CASE k \in overwritten
    BY <2>1, <2>2 DEF Promise!vars, Fate
  <2>3. CASE k \notin overwritten /\ effect[k] = "intended"
    <3>1. performed[k] = 0
      BY <2>1, <2>3 DEF OnceInv, Counts, CountOK
    <3>2. Fate(k) = "open" /\ Fate(k)' \in {"allowed", "refused"}
      BY <2>1, <2>3, <3>1 DEF Fate
    <3> QED
      BY <2>1, <3>2 DEF Promise!Next, Promise!Allow, Promise!Refuse, Promise!Turns
  <2>4. CASE k \notin overwritten /\ effect[k] # "intended"
    <3>1. Fate(k)' = "disputed"
      BY <2>1, <2>4 DEF Fate
    <3>2. effect[k] \in Status \ {"none", "intended"}
      BY <1>3, <2>4, TypesSplit DEF OnceInv, RowsOK, PlainInv, CommitAnswer
    <3>3. Fate(k) \in {"allowed", "refused", "claimed", "done"}
      BY <2>4, <3>2 DEF Fate, Status
    <3> QED
      BY <2>1, <3>1, <3>3 DEF Promise!Next, Promise!Dispute, Promise!Turns
  <2> QED
    BY <2>2, <2>3, <2>4
<1> QED
  BY <1>1, <1>2, <1>3

LEMMA StepKeepsPromise ==
  ASSUME OnceInv, PlainInv, [Next]_vars, NEW k \in Keys
  PROVE  [Promise(k)!Next]_(Promise(k)!vars)
<1>1. ASSUME NEW e \in Execs, Acts(e)
      PROVE  [Promise(k)!Next]_(Promise(k)!vars)
  <2>1. CASE effect' = effect /\ performed' = performed
    BY <1>1, <2>1, ActsLeave, FateStays
  <2> QED
    BY <1>1, <2>1, PerformKeepsPromise, WriteKeepsPromise, ActsLeave
<1>2. CASE (\E j \in Keys : ReadAnswer(j)) \/ EditRules \/ Retry \/ UNCHANGED vars
  <2>1. UNCHANGED <<effect, performed, overwritten>>
    BY <1>2 DEF ReadAnswer, EditRules, Retry, vars, ghosts
  <2> QED
    BY <2>1, FateStays
<1> QED
  BY <1>1, <1>2, AnswerKeepsPromise, Actors

LEMMA PromiseInit == Init => \A k \in Keys : Promise(k)!Init
<1> SUFFICES ASSUME Init, NEW k \in Keys PROVE Promise(k)!Init
  OBVIOUS
<1>1. /\ effect = [j \in Keys |-> "none"] /\ performed = [j \in Keys |-> 0]
      /\ overwritten = {}
  BY DEF Init
<1> QED
  BY <1>1 DEF Promise!Init, Fate

LEMMA PlainInit == Init => PlainInv
  BY DEF Init, PlainInv

\* Every step of the invocations, of the user and of the failures is a step of each
\* effect's promise, or leaves it as it is.
THEOREM PromisesKept == Spec => KeepsPromise
<1> DEFINE Kept == \A k \in Keys : \/ UNCHANGED <<effect[k], performed[k], overwritten>>
                                    \/ [Promise(k)!Next]_(Promise(k)!vars)
           Inits == \A k \in Keys : Promise(k)!Init
<1>1. Init => Inits /\ PlainInv
  BY PromiseInit, PlainInit
<1>2. OnceInv /\ PlainInv /\ [Next]_vars => PlainInv' /\ [Kept]_vars
  BY PlainStays, StepKeepsPromise
<1> HIDE DEF Kept, Inits
<1>3. Spec => Inits /\ [][Kept]_vars
  BY <1>1, <1>2, OnceHolds, PTL DEF Spec
<1> QED
  BY <1>3 DEF KeepsPromise, Kept, Inits

\* The run of each effect is a behaviour of OneEffect.
THEOREM EachEffectIsOne ==
  ASSUME NEW k \in Keys
  PROVE  Spec => Promise(k)!Spec
<1>1. Init => Promise(k)!Init /\ PlainInv
  BY PromiseInit, PlainInit
<1>2. OnceInv /\ PlainInv /\ [Next]_vars => PlainInv' /\ [Promise(k)!Next]_(Promise(k)!vars)
  BY PlainStays, StepKeepsPromise
<1> QED
  BY <1>1, <1>2, OnceHolds, PTL DEF Spec, Promise!Spec
==============================================================================
