-------------------- MODULE WorkspaceCancellationProofs --------------------
(***************************************************************************)
(* The safety of a cancellation, for any number of requests, workers,      *)
(* faults and overrun leases, and any retention.                           *)
(***************************************************************************)
EXTENDS WorkspaceCancellation, TLAPS

---------------------------------------------------------------------------
(* The lists *)

\* A request goes through the immediate actions, a worker through the
\* destructive ones; no action is on both lists or is the clean-up.
LEMMA Lists ==
  /\ Len(Immediate) = 5 /\ Len(AfterRetention) = 5
  /\ \A i \in 1..5 : Immediate[i] \in First /\ AfterRetention[i] \in Destructive
  /\ First \subseteq Actions /\ Destructive \subseteq Actions
  /\ First \cap Destructive = {} /\ Cleanup \notin Actions
  /\ AtProvider \subseteq Actions
  /\ {"disable_openrouter", "suspend_computer"} \subseteq First
  /\ {"delete_openrouter", "destroy_computer", "delete_secrets"} \subseteq Destructive
<1>1. Len(Immediate) = 5 /\ Len(AfterRetention) = 5
  BY DEF Immediate, AfterRetention
<1>2. \A i \in 1..5 : Immediate[i] \in First /\ AfterRetention[i] \in Destructive
  BY DEF First, Destructive
<1>3. First = {"mark_canceling", "pause_routines", "block_new_runs",
               "disable_openrouter", "suspend_computer"}
  BY DEF First, Immediate
<1>4. Destructive = {"delete_openrouter", "revoke_connectors", "destroy_computer",
                     "delete_secrets", "archive_workspace"}
  BY DEF Destructive, AfterRetention
<1>5. QED
  BY <1>1, <1>2, <1>3, <1>4 DEF Actions, Cleanup, AtProvider

\* The five actions of a list are in place when those before and the fifth are.
LEMMA WholeList ==
  /\ \A a \in First : \E i \in 1..5 : a = Immediate[i]
  /\ \A a \in Destructive : \E i \in 1..5 : a = AfterRetention[i]
  BY DEF First, Destructive

\* What an actor can be at.
LEMMA AtAction ==
  ASSUME TypeOK, NEW p \in Actors
  PROVE  /\ Action(p) \in Actions /\ Action(p) # Cleanup
         /\ p \in Requests => Action(p) \in First /\ p \notin Workers
         /\ p \in Workers => Action(p) \in Destructive
         /\ Len(Todo(p)) = 5
         /\ job[p].next \in 1..5
  BY Lists, ConstantsOK DEF TypeOK, Action, Todo, Actors

---------------------------------------------------------------------------
(* Types *)

\* Moves of one actor keep the types of the jobs.
LEMMA JobTyped ==
  ASSUME TypeOK, NEW p \in Actors
  PROVE  /\ \A s \in Steps : Goto(p, s) => job' \in [Actors -> [pc: Steps, at: Nat, next: 1..5]]
         /\ Advance(p) => job' \in [Actors -> [pc: Steps, at: Nat, next: 1..5]]
         /\ Throw(p) => job' \in [Actors -> [pc: Steps, at: Nat, next: 1..5]]
         /\ job' = [job EXCEPT ![p] = Idle] => job' \in [Actors -> [pc: Steps, at: Nat, next: 1..5]]
<1>1. job[p] \in [pc: Steps, at: Nat, next: 1..5] /\ job \in [Actors -> [pc: Steps, at: Nat, next: 1..5]]
  BY DEF TypeOK
<1>2. Idle \in [pc: Steps, at: Nat, next: 1..5]
  BY DEF Idle, Steps
<1>3. \A s \in Steps : [job[p] EXCEPT !.pc = s] \in [pc: Steps, at: Nat, next: 1..5]
  BY <1>1
<1>4. {"open", "close", "schedule", "give_up"} \subseteq Steps
  BY DEF Steps
<1>5. ASSUME job[p].next < 5
      PROVE  [job[p] EXCEPT !.pc = "open", !.next = job[p].next + 1] \in [pc: Steps, at: Nat, next: 1..5]
  <2>1. job[p].next + 1 \in 1..5
    BY <1>1, <1>5
  <2>2. "open" \in Steps
    BY <1>4
  <2>3. QED
    BY <1>1, <2>1, <2>2
<1>6. \A s \in Steps : Goto(p, s) => job' \in [Actors -> [pc: Steps, at: Nat, next: 1..5]]
  BY <1>1, <1>3 DEF Goto
<1>7. Advance(p) => job' \in [Actors -> [pc: Steps, at: Nat, next: 1..5]]
  <2>1. Len(Todo(p)) = 5
    BY AtAction
  <2>2. [job[p] EXCEPT !.pc = IF p \in Workers THEN "close" ELSE "schedule"]
          \in [pc: Steps, at: Nat, next: 1..5]
    BY <1>3, <1>4
  <2>3. QED
    <3>1. CASE Advance(p) /\ job[p].next < 5
      <4>1. job' = [job EXCEPT ![p] = [job[p] EXCEPT !.pc = "open", !.next = job[p].next + 1]]
        BY <1>1, <2>1, <3>1 DEF Advance
      <4>2. QED
        BY <1>1, <1>5, <3>1, <4>1
    <3>2. CASE Advance(p) /\ ~(job[p].next < 5)
      <4>1. job' = [job EXCEPT ![p] = [job[p] EXCEPT !.pc = IF p \in Workers THEN "close" ELSE "schedule"]]
        BY <2>1, <3>2 DEF Advance
      <4>2. QED
        BY <1>1, <2>2, <4>1
    <3>3. QED
      BY <3>1, <3>2
<1>8. Throw(p) => job' \in [Actors -> [pc: Steps, at: Nat, next: 1..5]]
  BY <1>1, <1>2, <1>3, <1>4 DEF Throw
<1>9. QED
  BY <1>1, <1>2, <1>6, <1>7, <1>8

\* Every change of a row keeps the types of the rows.
LEMMA RowsTyped ==
  ASSUME TypeOK, NEW s \in Stages
  PROVE  /\ \A n \in {"none", "pending", "running", "completed", "failed"} :
              Becomes(s, n) => status' \in [Stages -> {"none", "pending", "running", "completed", "failed"}]
                               /\ lapsed' \subseteq Stages
         /\ Claimed(s) \/ Done(s) \/ Failed(s) =>
              /\ status' \in [Stages -> {"none", "pending", "running", "completed", "failed"}]
              /\ lapsed' \subseteq Stages /\ executed' \subseteq Stages
  BY DEF TypeOK, Becomes, Claimed, Done, Failed

\* Every step keeps every variable in its type; only an action that has business
\* with a provider is at the call.
TypeInv ==
  /\ TypeOK
  /\ \A p \in Actors : job[p].pc = "call" => Action(p) \in AtProvider

LEMMA StepTyped == ASSUME TypeInv, [Next]_vars PROVE TypeOK'
<1>t. TypeOK
  BY DEF TypeInv
<1>j. job \in [Actors -> [pc: Steps, at: Nat, next: 1..5]]
  BY <1>t DEF TypeOK
<1>a. Actions \subseteq Stages /\ Cleanup \in Stages
  BY DEF Stages
<1>b. {"idle", "open", "claim", "reread", "call", "store", "finish", "schedule", "take"} \subseteq Steps
  BY DEF Steps
<1>c. ASSUME NEW p \in Actors, Step(p) PROVE TypeOK'
  <2>a. Action(p) \in Stages
    BY <1>t, AtAction, <1>a
  <2>1. CASE Open(p)
    BY <1>t, <2>1, <2>a, <1>b, JobTyped, RowsTyped DEF Open, TypeOK, rows, world, bounds
  <2>2. CASE ClaimAction(p)
    BY <1>t, <2>2, <2>a, <1>b, JobTyped, RowsTyped DEF ClaimAction, TypeOK, rows, world, bounds
  <2>3. CASE Reread(p)
    BY <1>t, <2>3, JobTyped DEF Reread, TypeOK, rows, world, bounds
  <2>4. CASE Call(p)
    <3>1. called' \subseteq AtProvider
      <4>1. Action(p) \in AtProvider
        BY <2>4 DEF Call, TypeInv
      <4>2. QED
        BY <1>t, <2>4, <4>1 DEF Call, TypeOK
    <3>2. QED
      BY <1>t, <2>4, <3>1, <1>b, JobTyped DEF Call, TypeOK, rows, world, bounds
  <2>5. CASE Store(p)
    BY <1>t, <2>5, AtAction, <1>b, JobTyped DEF Store, TypeOK, rows, world, bounds
  <2>6. CASE Finish(p)
    BY <1>t, <2>6, <2>a, JobTyped, RowsTyped DEF Finish, TypeOK, rows, world, bounds
  <2>7. CASE Schedule(p)
    <3>1. deadline' \in Nat
      BY <1>t, <2>7, ConstantsOK DEF Schedule, TypeOK
    <3>2. QED
      BY <1>t, <2>7, <3>1, <1>a, JobTyped, RowsTyped DEF Schedule, TypeOK, rows, world, bounds
  <2>8. CASE Take(p)
    BY <1>t, <2>8, <1>a, <1>b, JobTyped, RowsTyped DEF Take, TypeOK, rows, world, bounds
  <2>9. CASE Close(p)
    BY <1>t, <2>9, <1>a, JobTyped, RowsTyped DEF Close, TypeOK, rows, world, bounds
  <2>10. CASE GiveUp(p)
    BY <1>t, <2>10, <1>a, JobTyped, RowsTyped DEF GiveUp, TypeOK, rows, world, bounds
  <2>11. QED
    BY <1>c, <2>1, <2>2, <2>3, <2>4, <2>5, <2>6, <2>7, <2>8, <2>9, <2>10 DEF Step
<1>d. ASSUME NEW p \in Actors, Cancel(p) \/ Look(p) \/ Fail(p) \/ Die(p) PROVE TypeOK'
  <2>1. CASE Cancel(p)
    <3>1. [pc |-> "open", at |-> clock, next |-> 1] \in [pc: Steps, at: Nat, next: 1..5]
      BY <1>t, <1>b DEF TypeOK
    <3>2. QED
      BY <1>t, <1>j, <2>1, <3>1, ConstantsOK DEF Cancel, TypeOK, rows, world
  <2>2. CASE Look(p)
    <3>1. Goto(p, "take")
      BY <2>2 DEF Look, Goto
    <3>2. QED
      BY <1>t, <2>2, <3>1, <1>b, JobTyped DEF Look, TypeOK, rows, world, bounds
  <2>3. CASE Fail(p)
    <3>1. Action(p) \in Stages
      BY <1>t, AtAction, <1>a
    <3>2. QED
      BY <1>t, <2>3, <3>1, JobTyped, RowsTyped, ConstantsOK DEF Fail, TypeOK, world
  <2>4. CASE Die(p)
    <3>1. faults' \in 0..MaxFaults
      BY <1>t, <2>4, ConstantsOK DEF Die, TypeOK
    <3>2. job' \in [Actors -> [pc: Steps, at: Nat, next: 1..5]]
      BY <1>t, <2>4, JobTyped DEF Die
    <3>3. QED
      BY <1>t, <2>4, <3>1, <3>2 DEF Die, TypeOK, rows, world
  <2>5. QED
    BY <1>d, <2>1, <2>2, <2>3, <2>4
<1>e. ASSUME NEW s \in Stages, Expire(s) PROVE TypeOK'
  BY <1>t, <1>e DEF Expire, TypeOK, world
<1>f. CASE Tick
  BY <1>t, <1>f, ConstantsOK DEF Tick, TypeOK, rows, world
<1>g. CASE UNCHANGED vars
  BY <1>t, <1>g DEF TypeOK, vars, rows, world, bounds
<1>h. QED
  BY <1>c, <1>d, <1>e, <1>f, <1>g DEF Next

\* The initial state has the types.
LEMMA InitTyped == ASSUME Init PROVE TypeInv
<1>1. Idle \in [pc: Steps, at: Nat, next: 1..5] /\ Idle.pc = "idle"
  BY DEF Idle, Steps
<1>2. job = [p \in Actors |-> Idle]
  BY DEF Init
<1>3. TypeOK
  BY <1>1, ConstantsOK DEF Init, TypeOK
<1>4. \A p \in Actors : job[p].pc # "call"
  BY <1>1, <1>2
<1>5. QED
  BY <1>3, <1>4 DEF TypeInv

---------------------------------------------------------------------------
(* How a step moves one actor, and what it can do to a row *)

\* The next action of the list, or what follows the last one.
Forward(p) ==
  /\ job[p].pc = "finish" \/ status[Action(p)] = "completed"
  /\ \/ job[p].next < 5 /\ job'[p].pc = "open" /\ job'[p].next = job[p].next + 1
     \/ job[p].next = 5 /\ job'[p].next = 5
          /\ job'[p].pc = (IF p \in Workers THEN "close" ELSE "schedule")

\* One step on with the same action.
Onward(p) ==
  /\ job'[p].next = job[p].next
  /\ \/ job[p].pc = "open" /\ job'[p].pc = "claim"
     \/ job[p].pc = "claim" /\ job'[p].pc = "call" /\ Action(p) \in AtProvider
          /\ ClaimAction(p)
     \/ job[p].pc = "claim" /\ job'[p].pc = "store" /\ Action(p) \notin AtProvider
          /\ ClaimAction(p)
     \/ job[p].pc = "claim" /\ job'[p].pc = "reread"
     \/ job[p].pc = "call" /\ job'[p].pc = "store" /\ Call(p)
     \/ job[p].pc = "store" /\ job'[p].pc = "finish" /\ Store(p)
     \/ p \in Workers /\ job[p].pc # "idle" /\ job'[p].pc = "give_up"
     \/ p \in Workers /\ job[p].pc = "idle" /\ job'[p].pc = "take" /\ Look(p)
     \/ p \in Workers /\ job[p].pc = "take" /\ job'[p].pc = "open"

\* Everything an actor can do.
Moved(p) ==
  \/ job'[p] = job[p]
  \/ job'[p] = Idle
  \/ p \in Requests /\ job'[p].pc = "open" /\ job'[p].next = 1
  \/ Forward(p)
  \/ Onward(p)

\* Only workers look for clean-ups, only requests schedule one.
PlacesOK ==
  \A p \in Actors : /\ job[p].pc = "schedule" => p \in Requests
                    /\ job[p].pc \in {"take", "close", "give_up"} => p \in Workers

LEMMA AdvanceMoves ==
  ASSUME TypeOK, NEW p \in Actors, Advance(p),
         job[p].pc = "finish" \/ status[Action(p)] = "completed"
  PROVE  Forward(p)
<1>1. Len(Todo(p)) = 5 /\ job[p].next \in 1..5 /\ job[p] \in [pc: Steps, at: Nat, next: 1..5]
  BY AtAction DEF TypeOK
<1>2. CASE job[p].next < 5
  <2>1. job'[p] = [job[p] EXCEPT !.pc = "open", !.next = job[p].next + 1]
    BY <1>1, <1>2 DEF Advance, TypeOK
  <2>2. QED
    BY <1>1, <1>2, <2>1 DEF Forward
<1>3. CASE ~(job[p].next < 5)
  <2>1. job'[p] = [job[p] EXCEPT !.pc = IF p \in Workers THEN "close" ELSE "schedule"]
    BY <1>1, <1>3 DEF Advance, TypeOK
  <2>2. job[p].next = 5
    BY <1>1, <1>3
  <2>3. QED
    BY <1>1, <2>1, <2>2 DEF Forward
<1>4. QED
  BY <1>2, <1>3

\* Every step of Next moves one actor at most.
LEMMA Movement ==
  ASSUME TypeInv, PlacesOK, [Next]_vars
  PROVE  \A q \in Actors : Moved(q)
<1>j. TypeOK /\ job \in [Actors -> [pc: Steps, at: Nat, next: 1..5]]
  BY DEF TypeInv, TypeOK
<1>o. ASSUME NEW p \in Actors, NEW n,
             job' = [job EXCEPT ![p] = n], Moved(p)
      PROVE  \A q \in Actors : Moved(q)
  BY <1>j, <1>o DEF Moved
<1>g. ASSUME NEW p \in Actors, NEW s, Goto(p, s)
      PROVE  /\ job'[p] = [job[p] EXCEPT !.pc = s]
             /\ job'[p].pc = s /\ job'[p].next = job[p].next
             /\ job' = [job EXCEPT ![p] = [job[p] EXCEPT !.pc = s]]
  BY <1>j, <1>g DEF Goto
<1>i. ASSUME NEW p \in Actors, job' = [job EXCEPT ![p] = Idle]
      PROVE  \A q \in Actors : Moved(q)
  BY <1>j, <1>i DEF Moved
<1>u. ASSUME job' = job PROVE \A q \in Actors : Moved(q)
  BY <1>u DEF Moved
<1>f. ASSUME NEW p \in Actors, Advance(p),
             job[p].pc = "finish" \/ status[Action(p)] = "completed"
      PROVE  \A q \in Actors : Moved(q)
  <2>1. Moved(p)
    BY <1>j, <1>f, AdvanceMoves DEF Moved
  <2>2. QED
    BY <1>f, <1>o, <2>1 DEF Advance
<1>h. ASSUME NEW p \in Actors, Throw(p), job[p].pc # "idle"
      PROVE  \A q \in Actors : Moved(q)
  <2>1. CASE p \in Workers
    <3>1. Goto(p, "give_up")
      BY <1>h, <2>1, <1>j DEF Throw, Goto
    <3>2. Moved(p)
      BY <1>g, <1>h, <2>1, <3>1 DEF Moved, Onward
    <3>3. QED
      BY <1>g, <1>o, <3>1, <3>2
  <2>2. CASE p \notin Workers
    BY <1>h, <1>i, <1>j, <2>2 DEF Throw
  <2>3. QED
    BY <2>1, <2>2
<1>1. ASSUME NEW p \in Actors, Open(p) PROVE \A q \in Actors : Moved(q)
  <2>1. CASE Completed(Action(p)) /\ Advance(p)
    BY <1>f, <2>1 DEF Completed
  <2>2. CASE Goto(p, "claim")
    BY <1>1, <1>g, <1>o, <2>2 DEF Open, Moved, Onward
  <2>3. QED
    BY <1>1, <2>1, <2>2 DEF Open
<1>2. ASSUME NEW p \in Actors, ClaimAction(p) PROVE \A q \in Actors : Moved(q)
  <2>1. PICK n \in {"call", "store", "reread"} :
          /\ Goto(p, n)
          /\ n = "call" => Action(p) \in AtProvider
          /\ n = "store" => Action(p) \notin AtProvider
    BY <1>2 DEF ClaimAction
  <2>2. job[p].pc = "claim"
    BY <1>2 DEF ClaimAction
  <2>3. job'[p].pc = n /\ job'[p].next = job[p].next
    BY <1>g, <2>1
  <2>4. Moved(p)
    BY <1>2, <2>1, <2>2, <2>3 DEF Moved, Onward
  <2>5. QED
    BY <1>g, <1>o, <2>1, <2>4
<1>3. ASSUME NEW p \in Actors, Reread(p) PROVE \A q \in Actors : Moved(q)
  BY <1>3, <1>f, <1>h DEF Reread
<1>4. ASSUME NEW p \in Actors, Call(p) PROVE \A q \in Actors : Moved(q)
  <2>1. Goto(p, "store") /\ job[p].pc = "call"
    BY <1>4 DEF Call
  <2>2. Moved(p)
    BY <1>4, <1>g, <2>1 DEF Moved, Onward
  <2>3. QED
    BY <1>g, <1>o, <2>1, <2>2
<1>5. ASSUME NEW p \in Actors, Store(p) PROVE \A q \in Actors : Moved(q)
  <2>1. Goto(p, "finish") /\ job[p].pc = "store"
    BY <1>5 DEF Store
  <2>2. Moved(p)
    BY <1>5, <1>g, <2>1 DEF Moved, Onward
  <2>3. QED
    BY <1>g, <1>o, <2>1, <2>2
<1>6. ASSUME NEW p \in Actors, Finish(p) PROVE \A q \in Actors : Moved(q)
  BY <1>6, <1>f DEF Finish
<1>7. ASSUME NEW p \in Actors, Schedule(p) \/ Close(p) \/ GiveUp(p) \/ Die(p)
      PROVE  \A q \in Actors : Moved(q)
  BY <1>7, <1>i DEF Schedule, Close, GiveUp, Die
<1>8. ASSUME NEW p \in Actors, Take(p) PROVE \A q \in Actors : Moved(q)
  <2>1. CASE Goto(p, "open")
    <3>1. p \in Workers /\ job[p].pc = "take"
      BY <1>8 DEF Take, PlacesOK
    <3>2. Moved(p)
      BY <1>g, <2>1, <3>1 DEF Moved, Onward
    <3>3. QED
      BY <1>g, <1>o, <2>1, <3>2
  <2>2. QED
    BY <1>8, <1>i, <2>1 DEF Take
<1>9. ASSUME NEW p \in Actors, Look(p) PROVE \A q \in Actors : Moved(q)
  <2>1. Goto(p, "take") /\ p \in Workers /\ job[p].pc = "idle"
    BY <1>9 DEF Look, Goto
  <2>2. Moved(p)
    BY <1>9, <1>g, <2>1 DEF Moved, Onward
  <2>3. QED
    BY <1>g, <1>o, <2>1, <2>2
<1>10. ASSUME NEW p \in Actors, Cancel(p) PROVE \A q \in Actors : Moved(q)
  <2>1. Moved(p)
    BY <1>10, <1>j DEF Cancel, Moved
  <2>2. QED
    BY <1>10, <1>o, <2>1 DEF Cancel
<1>11. ASSUME NEW p \in Actors, Fail(p) PROVE \A q \in Actors : Moved(q)
  BY <1>11, <1>h DEF Fail, Acting
<1>12. CASE (\E s \in Stages : Expire(s)) \/ Tick \/ UNCHANGED vars
  BY <1>12, <1>u DEF Expire, Tick, vars
<1>13. QED
  BY <1>1, <1>2, <1>3, <1>4, <1>5, <1>6, <1>7, <1>8, <1>9, <1>10, <1>11, <1>12 DEF Next, Step

\* Effects, promises and time are never taken back.
LEMMA Monotone ==
  ASSUME TypeOK, [Next]_vars
  PROVE  /\ called \subseteq called' /\ stored \subseteq stored'
         /\ promised \subseteq promised' /\ clock \in Int /\ clock' \in Int /\ clock <= clock'
         /\ \A a \in Actions : InPlace(a) => InPlace(a)'
<1>a. clock \in Int /\ MaxClock \in Nat
  BY ConstantsOK DEF TypeOK
<1>1. called \subseteq called' /\ stored \subseteq stored' /\ promised \subseteq promised'
  BY DEF Next, Step, Open, ClaimAction, Reread, Call, Store, Finish, Schedule, Take, Close,
         GiveUp, Cancel, Look, Fail, Die, Expire, Tick, vars, world, bounds
<1>2. clock' = clock \/ clock' = clock + 1
  BY DEF Next, Step, Open, ClaimAction, Reread, Call, Store, Finish, Schedule, Take, Close,
         GiveUp, Cancel, Look, Fail, Die, Expire, Tick, vars, world, bounds
<1>3. \A a \in Actions : InPlace(a) => InPlace(a)'
  BY <1>1 DEF InPlace
<1>4. QED
  BY <1>a, <1>1, <1>2, <1>3

\* A stage becomes completed only when an actor has finished it or closes the clean-up.
LEMMA Completion ==
  ASSUME TypeOK, [Next]_vars, NEW s \in Stages, status'[s] = "completed"
  PROVE  \/ status[s] = "completed"
         \/ \E p \in Actors : job[p].pc = "finish" /\ Action(p) = s
         \/ s = Cleanup /\ \E p \in Actors : job[p].pc = "close"
<1>a. status \in [Stages -> {"none", "pending", "running", "completed", "failed"}]
  BY DEF TypeOK
<1>b. \A t, n : Becomes(t, n) /\ n # "completed" => status[s] = "completed"
  BY <1>a DEF Becomes
<1>c. \A t : Claimed(t) \/ Failed(t) => status[s] = "completed"
  BY <1>b DEF Claimed, Failed
<1>d. \A t : Done(t) => s = t \/ status[s] = "completed"
  BY <1>a DEF Done, Becomes
<1>1. ASSUME NEW p \in Actors, Finish(p) \/ Close(p)
      PROVE  \/ status[s] = "completed"
             \/ job[p].pc = "finish" /\ Action(p) = s
             \/ s = Cleanup /\ job[p].pc = "close"
  BY <1>1, <1>d DEF Finish, Close
<1>2. ASSUME NEW p \in Actors, Open(p) \/ ClaimAction(p) \/ Reread(p) \/ Call(p) \/ Store(p)
                                 \/ Schedule(p) \/ Take(p) \/ GiveUp(p)
      PROVE  status[s] = "completed"
  BY <1>2, <1>b, <1>c DEF Open, ClaimAction, Reread, Call, Store, Schedule, Take, GiveUp, rows
<1>3. ASSUME NEW p \in Actors, Cancel(p) \/ Look(p) \/ Fail(p) \/ Die(p)
      PROVE  status[s] = "completed"
  BY <1>3, <1>c DEF Cancel, Look, Fail, Die, rows
<1>4. CASE (\E t \in Stages : Expire(t)) \/ Tick \/ UNCHANGED vars
  BY <1>4 DEF Expire, Tick, vars, rows
<1>5. QED
  BY <1>1, <1>2, <1>3, <1>4 DEF Next, Step

---------------------------------------------------------------------------
(* What is completed is in place *)

\* The actions before the one an actor has reached are in place, and so is that one
\* once it has been carried out.
OnTheWay(p) ==
  /\ job[p].pc = "store" /\ Action(p) \in AtProvider => Action(p) \in called
  /\ job[p].pc = "finish" => InPlace(Action(p))
  /\ \A i \in 1..5 : i < job[p].next => InPlace(Todo(p)[i])
  /\ job[p].pc \in {"schedule", "close"} => \A i \in 1..5 : InPlace(Todo(p)[i])

\* A worker at work does so because of a deadline that has passed.
Due(p) == p \in Workers /\ job[p].pc # "idle" => \E d \in promised : d <= clock

WorkInv ==
  /\ TypeInv
  /\ PlacesOK
  /\ \A p \in Actors : OnTheWay(p) /\ Due(p)
  /\ \A a \in Actions : status[a] = "completed" => InPlace(a)
  /\ status[Cleanup] = "completed" => \A a \in Destructive : InPlace(a)
  /\ status[Cleanup] # "none" => promised # {}
  /\ promised # {} => deadline \in promised
  /\ promised \subseteq Nat
  /\ ClosedBeforeScheduled
  /\ NothingDestroyedEarly
  /\ NothingOrphaned

\* A provider that is not asked any more has been asked before.
LEMMA AskedBefore ==
  ASSUME WorkInv, NEW p \in Actors, Call(p)
  PROVE  Action(p) \in called'
<1>a. TypeOK /\ Action(p) \in AtProvider
  BY DEF WorkInv, TypeInv, Call
<1>1. CASE Named(Action(p))
  BY <1>1 DEF Call
<1>2. CASE ~Named(Action(p))
  <2>1. stored \cap Destructive # {} => \A a \in First : InPlace(a)
    BY DEF WorkInv, NothingDestroyedEarly, ClosedBeforeScheduled
  <2>2. Action(p) \in {"disable_openrouter", "delete_openrouter"} =>
          "delete_secrets" \in stored
    BY <1>2 DEF Named
  <2>3. Action(p) \in {"suspend_computer", "destroy_computer"} =>
          "destroy_computer" \in stored
    BY <1>2 DEF Named
  <2>4. Action(p) \in {"disable_openrouter", "suspend_computer"} => Action(p) \in called
    BY <2>1, <2>2, <2>3, Lists DEF InPlace, AtProvider
  <2>5. Action(p) \in {"delete_openrouter", "destroy_computer"} => Action(p) \in called
    BY <2>2, <2>3 DEF WorkInv, NothingOrphaned
  <2>6. Action(p) \in called
    BY <1>a, <2>4, <2>5 DEF AtProvider
  <2>7. QED
    BY <2>6 DEF Call
<1>3. QED
  BY <1>1, <1>2

\* Every move of an actor keeps what it relies on.
LEMMA WayInductive ==
  ASSUME WorkInv, [Next]_vars, NEW p \in Actors
  PROVE  OnTheWay(p)'
<1>a. TypeOK /\ PlacesOK /\ TypeInv /\ OnTheWay(p)
  BY DEF WorkInv, TypeInv
<1>b. /\ called \subseteq called'
      /\ \A a \in Actions : InPlace(a) => InPlace(a)'
  BY <1>a, Monotone
<1>c. \A i \in 1..5 : Todo(p)[i] \in Actions /\ Todo(p)' = Todo(p)
  BY Lists DEF Todo
<1>d. Action(p) = Todo(p)[job[p].next] /\ Action(p)' = Todo(p)[job'[p].next]
      /\ job[p].next \in 1..5 /\ Action(p) \in Actions
  BY <1>a, AtAction DEF Action, Todo
<1>e. Moved(p)
  BY <1>a, Movement
<1>1. CASE job'[p] = job[p]
  BY <1>1, <1>a, <1>b, <1>c, <1>d DEF OnTheWay
<1>2. CASE job'[p] = Idle \/ (job'[p].pc = "open" /\ job'[p].next = 1)
  BY <1>2 DEF OnTheWay, Idle
<1>3. CASE Forward(p)
  <2>1. InPlace(Action(p))
    BY <1>3, <1>a, <1>d DEF Forward, OnTheWay, WorkInv
  <2>2. \A i \in 1..5 : i <= job[p].next => InPlace(Todo(p)[i])'
    <3>1. \A i \in 1..5 : i <= job[p].next => InPlace(Todo(p)[i])
      <4>1. \A i \in 1..5 : i < job[p].next => InPlace(Todo(p)[i])
        BY <1>a DEF OnTheWay
      <4>2. InPlace(Todo(p)[job[p].next])
        BY <2>1, <1>d
      <4>3. \A i \in 1..5 : i <= job[p].next => i < job[p].next \/ i = job[p].next
        BY <1>d
      <4>4. QED
        BY <4>1, <4>2, <4>3
    <3>2. QED
      BY <3>1, <1>b, <1>c
  <2>3. \A i \in 1..5 : /\ i < job'[p].next => InPlace(Todo(p)[i])'
                        /\ job'[p].pc \in {"schedule", "close"} => InPlace(Todo(p)[i])'
    BY <1>3, <1>d, <2>2 DEF Forward
  <2>4. job'[p].pc \in {"open", "schedule", "close"}
    BY <1>3 DEF Forward
  <2>5. QED
    BY <2>3, <2>4, <1>c DEF OnTheWay
<1>4. CASE Onward(p)
  <2>1. job'[p].next = job[p].next /\ Action(p)' = Action(p)
    BY <1>4, <1>d DEF Onward
  <2>2. \A i \in 1..5 : i < job'[p].next => InPlace(Todo(p)[i])'
    BY <1>a, <1>b, <1>c, <2>1 DEF OnTheWay
  <2>3. job'[p].pc \notin {"schedule", "close"}
    BY <1>4 DEF Onward
  <2>4. ASSUME job'[p].pc = "store", Action(p) \in AtProvider
        PROVE  Action(p) \in called'
    BY <1>4, <2>4, AskedBefore DEF Onward
  <2>5. ASSUME job'[p].pc = "finish"
        PROVE  InPlace(Action(p))'
    <3>1. Store(p) /\ job[p].pc = "store"
      BY <1>4, <2>5 DEF Onward
    <3>2. Action(p) \in AtProvider => Action(p) \in called'
      BY <1>a, <1>b, <3>1 DEF OnTheWay
    <3>3. Action(p) # "delete_openrouter" => Action(p) \in stored'
      BY <3>1 DEF Store
    <3>4. QED
      BY <2>1, <3>2, <3>3 DEF InPlace
  <2>6. QED
    BY <2>1, <2>2, <2>3, <2>4, <2>5, <1>c DEF OnTheWay
<1>5. QED
  BY <1>1, <1>2, <1>3, <1>4, <1>e DEF Moved

\* Workers are at work, and requests are not, in the places of their own.
LEMMA PlacesInductive ==
  ASSUME WorkInv, [Next]_vars
  PROVE  PlacesOK'
<1>1. \A p \in Actors : Moved(p)
  BY Movement DEF WorkInv
<1>2. PlacesOK
  BY DEF WorkInv
<1>3. ASSUME NEW p \in Actors
      PROVE  /\ job'[p].pc = "schedule" => p \in Requests
             /\ job'[p].pc \in {"take", "close", "give_up"} => p \in Workers
  <2>1. p \in Requests \/ p \in Workers
    BY DEF Actors
  <2>2. CASE job'[p] = job[p]
    BY <1>2, <2>2 DEF PlacesOK
  <2>3. CASE job'[p] = Idle \/ job'[p].pc = "open"
    <3>1. Idle.pc = "idle"
      BY DEF Idle
    <3>2. job'[p].pc \in {"idle", "open"}
      BY <2>3, <3>1
    <3>3. QED
      BY <3>2
  <2>4. CASE Forward(p)
    BY <2>1, <2>4 DEF Forward
  <2>5. CASE Onward(p)
    BY <2>5 DEF Onward
  <2>6. QED
    BY <1>1, <2>2, <2>3, <2>4, <2>5 DEF Moved
<1>4. QED
  BY <1>3 DEF PlacesOK

\* A worker starts for a deadline that has passed.
LEMMA DueInductive ==
  ASSUME WorkInv, [Next]_vars, NEW p \in Actors
  PROVE  Due(p)'
<1>a. TypeOK /\ promised \subseteq promised' /\ promised \subseteq Nat
      /\ clock \in Int /\ clock' \in Int /\ clock <= clock'
  BY Monotone DEF WorkInv, TypeInv
<1>b. \A d \in promised : d <= clock => d <= clock'
  BY <1>a
<1>1. CASE job[p].pc # "idle" \/ p \notin Workers
  <2>1. (\E d \in promised : d <= clock) \/ p \notin Workers
    BY <1>1 DEF WorkInv, Due
  <2>2. QED
    BY <1>a, <1>b, <2>1 DEF Due
<1>2. CASE job[p].pc = "idle" /\ p \in Workers
  <2>1. p \notin Requests
    BY <1>2, ConstantsOK
  <2>2. job'[p] = job[p] \/ job'[p] = Idle \/ Forward(p) \/ Onward(p)
    BY <2>1, Movement DEF WorkInv, Moved
  <2>3. CASE job'[p].pc = "idle"
    BY <2>3 DEF Due
  <2>4. CASE Look(p)
    <3>1. deadline \in promised /\ deadline <= clock
      BY <2>4 DEF Look, Claimable, WorkInv
    <3>2. QED
      BY <1>a, <1>b, <3>1 DEF Due
  <2>5. CASE status[Action(p)] = "completed" /\ Forward(p)
    <3>1. Action(p) \in Destructive /\ InPlace(Action(p))
      BY <1>a, <1>2, <2>5, AtAction DEF WorkInv
    <3>2. (called \cup stored) \cap Destructive # {}
      BY <3>1 DEF InPlace, AtProvider
    <3>3. QED
      BY <1>a, <1>b, <3>2 DEF Due, WorkInv, NothingDestroyedEarly
  <2>6. QED
    BY <1>2, <2>2, <2>3, <2>4, <2>5 DEF Idle, Forward, Onward
<1>3. QED
  BY <1>1, <1>2

\* The row of the clean-up is never without a deadline that was promised.
LEMMA DeadlineInductive ==
  ASSUME WorkInv, [Next]_vars
  PROVE  /\ status'[Cleanup] # "none" => promised' # {}
         /\ promised' # {} => deadline' \in promised'
         /\ promised' \subseteq Nat
<1>a. /\ TypeOK /\ promised \subseteq Nat
      /\ status[Cleanup] # "none" => promised # {}
      /\ promised # {} => deadline \in promised
      /\ status \in [Stages -> {"none", "pending", "running", "completed", "failed"}]
      /\ \A p \in Actors : job[p].at \in Nat
  BY DEF WorkInv, TypeInv, TypeOK
<1>1. CASE \E p \in Actors : Schedule(p)
  <2>1. PICK p \in Actors : Schedule(p)
    BY <1>1
  <2>2. deadline' = job[p].at + Retention /\ promised' = promised \cup {deadline'}
    BY <2>1 DEF Schedule
  <2>3. job[p].at \in Nat /\ Retention \in Nat
    BY <1>a, ConstantsOK
  <2>4. deadline' \in Nat
    BY <2>2, <2>3
  <2>5. promised' \subseteq Nat /\ deadline' \in promised'
    BY <1>a, <2>2, <2>4
  <2>6. QED
    BY <2>5
<1>2. CASE ~\E p \in Actors : Schedule(p)
  <2>1. UNCHANGED <<deadline, promised>>
    BY <1>2 DEF Next, Step, Open, ClaimAction, Reread, Call, Store, Finish, Take, Close, GiveUp,
                Cancel, Look, Fail, Die, Expire, Tick, vars, world, bounds
  <2>2. ASSUME status'[Cleanup] # "none" PROVE promised # {}
    <3>1. \A n : \A s \in Actions : Becomes(s, n) => status'[Cleanup] = status[Cleanup]
      BY <1>a, Lists DEF Becomes
    <3>2. \A p \in Actors : Action(p) \in Actions
      BY <1>a, AtAction
    <3>3. CASE \E p \in Actors : Close(p) \/ GiveUp(p)
      <4>1. PICK p \in Actors : p \in Workers /\ job[p].pc # "idle"
        BY <3>3 DEF Close, GiveUp, WorkInv, PlacesOK
      <4>2. QED
        BY <4>1 DEF WorkInv, Due
    <3>4. CASE \E p \in Actors : Take(p)
      <4>1. status[Cleanup] # "none"
        BY <2>2, <3>4 DEF Take, Claimable, rows
      <4>2. QED
        BY <1>a, <4>1
    <3>5. CASE \E p \in Actors : Open(p) \/ ClaimAction(p) \/ Reread(p) \/ Call(p) \/ Store(p)
                                   \/ Finish(p) \/ Cancel(p) \/ Look(p) \/ Fail(p) \/ Die(p)
      <4>1. status'[Cleanup] = status[Cleanup]
        BY <3>1, <3>2, <3>5 DEF Open, ClaimAction, Reread, Call, Store, Finish, Cancel, Look, Fail,
                                Die, Claimed, Done, Failed, rows
      <4>2. QED
        BY <1>a, <2>2, <4>1
    <3>6. CASE (\E s \in Stages : Expire(s)) \/ Tick \/ UNCHANGED vars
      BY <1>a, <2>2, <3>6 DEF Expire, Tick, vars, rows
    <3>7. QED
      BY <1>2, <3>3, <3>4, <3>5, <3>6 DEF Next, Step
  <2>3. QED
    BY <1>a, <2>1, <2>2
<1>3. QED
  BY <1>1, <1>2

\* A stage that is completed has its effects in place.
LEMMA CompletionInductive ==
  ASSUME WorkInv, [Next]_vars
  PROVE  /\ \A a \in Actions : status'[a] = "completed" => InPlace(a)'
         /\ status'[Cleanup] = "completed" => \A a \in Destructive : InPlace(a)'
<1>a. TypeOK /\ PlacesOK
  BY DEF WorkInv, TypeInv
<1>b. \A a \in Actions : InPlace(a) => InPlace(a)'
  BY <1>a, Monotone
<1>1. ASSUME NEW a \in Actions, status'[a] = "completed"
      PROVE  InPlace(a)
  <2>1. a \in Stages /\ a # Cleanup
    BY Lists DEF Stages
  <2>2. status[a] = "completed" \/ \E p \in Actors : job[p].pc = "finish" /\ Action(p) = a
    BY <1>1, <1>a, <2>1, Completion
  <2>3. QED
    BY <2>2 DEF WorkInv, OnTheWay
<1>2. ASSUME status'[Cleanup] = "completed"
      PROVE  \A a \in Destructive : InPlace(a)
  <2>1. CASE status[Cleanup] = "completed"
    BY <2>1 DEF WorkInv
  <2>2. CASE \E p \in Actors : job[p].pc = "close"
    <3>1. PICK p \in Workers : \A i \in 1..5 : InPlace(Todo(p)[i])
      BY <1>a, <2>2 DEF WorkInv, OnTheWay, PlacesOK
    <3>2. QED
      BY <3>1, WholeList DEF Todo
  <2>3. Cleanup \in Stages /\ \A p \in Actors : Action(p) # Cleanup
    BY <1>a, AtAction DEF Stages
  <2>4. QED
    BY <1>2, <1>a, <2>1, <2>2, <2>3, Completion
<1>3. QED
  BY <1>1, <1>2, <1>b, Lists

\* A request schedules the clean-up when the whole list is in place.
LEMMA ClosedInductive == ASSUME WorkInv, [Next]_vars PROVE ClosedBeforeScheduled'
<1>a. TypeOK /\ PlacesOK /\ ClosedBeforeScheduled
  BY DEF WorkInv, TypeInv
<1>b. \A a \in First : InPlace(a) => InPlace(a)'
  BY <1>a, Monotone, Lists
<1>1. CASE \E p \in Actors : Schedule(p)
  <2>1. PICK p \in Requests : \A i \in 1..5 : InPlace(Todo(p)[i])
    BY <1>1, <1>a DEF Schedule, WorkInv, OnTheWay, PlacesOK
  <2>2. Todo(p) = Immediate
    BY ConstantsOK DEF Todo
  <2>3. QED
    BY <1>b, <2>1, <2>2, WholeList DEF ClosedBeforeScheduled
<1>2. CASE ~\E p \in Actors : Schedule(p)
  <2>1. promised' = promised
    BY <1>2 DEF Next, Step, Open, ClaimAction, Reread, Call, Store, Finish, Take, Close, GiveUp,
                Cancel, Look, Fail, Die, Expire, Tick, vars, world, bounds
  <2>2. QED
    BY <1>a, <1>b, <2>1 DEF ClosedBeforeScheduled
<1>3. QED
  BY <1>1, <1>2

\* What a step adds to the effects, and who adds it.
LEMMA Effects ==
  ASSUME [Next]_vars
  PROVE  \/ UNCHANGED world
         \/ \E p \in Actors : Call(p) /\ stored' = stored /\ called' \subseteq called \cup {Action(p)}
         \/ \E p \in Actors : Store(p) /\ called' = called /\ stored' \subseteq stored \cup {Action(p)}
<1>1. ASSUME NEW p \in Actors, Call(p)
      PROVE  stored' = stored /\ called' \subseteq called \cup {Action(p)}
  BY <1>1 DEF Call
<1>2. ASSUME NEW p \in Actors, Store(p)
      PROVE  called' = called /\ stored' \subseteq stored \cup {Action(p)}
  BY <1>2 DEF Store
<1>3. CASE ~\E p \in Actors : Call(p) \/ Store(p)
  BY <1>3 DEF Next, Step, Open, ClaimAction, Reread, Finish, Schedule, Take, Close, GiveUp,
              Cancel, Look, Fail, Die, Expire, Tick, vars, world
<1>4. QED
  BY <1>1, <1>2, <1>3

\* Only a worker destroys anything, and it has a deadline.
LEMMA EarlyInductive == ASSUME WorkInv, [Next]_vars PROVE NothingDestroyedEarly'
<1>a. TypeOK /\ promised \subseteq promised' /\ promised \subseteq Nat
      /\ clock \in Int /\ clock' \in Int /\ clock <= clock'
  BY Monotone DEF WorkInv, TypeInv
<1>b. (\E d \in promised : d <= clock) => \E d \in promised' : d <= clock'
  BY <1>a
<1>1. CASE (called \cup stored) \cap Destructive # {}
  BY <1>1, <1>b DEF WorkInv, NothingDestroyedEarly
<1>2. CASE (called \cup stored) \cap Destructive = {} /\ (called' \cup stored') \cap Destructive # {}
  <2>1. PICK p \in Actors : Action(p) \in Destructive /\ (Call(p) \/ Store(p))
    BY <1>2, Effects DEF world
  <2>2. p \in Workers
    BY <1>a, <2>1, AtAction, Lists DEF Actors
  <2>3. \E d \in promised : d <= clock
    BY <2>1, <2>2 DEF Call, Store, WorkInv, Due
  <2>4. QED
    BY <1>b, <2>3 DEF NothingDestroyedEarly
<1>3. QED
  BY <1>1, <1>2 DEF NothingDestroyedEarly

\* The list puts the keys before their credentials, a call its provider before the database.
LEMMA OrphansInductive == ASSUME WorkInv, [Next]_vars PROVE NothingOrphaned'
<1>a. TypeOK /\ NothingOrphaned /\ called \subseteq called'
  BY Monotone DEF WorkInv, TypeInv
<1>1. ASSUME "delete_secrets" \in stored', "delete_secrets" \notin stored
      PROVE  "delete_openrouter" \in called'
  <2>1. PICK p \in Actors : Action(p) = "delete_secrets" /\ Store(p)
    BY <1>1, Effects DEF world
  <2>2. Todo(p) = AfterRetention /\ job[p].next = 4
    <3>1. \A i \in 1..5 : /\ Immediate[i] # "delete_secrets"
                          /\ AfterRetention[i] = "delete_secrets" => i = 4
      BY DEF Immediate, AfterRetention
    <3>2. QED
      BY <1>a, <2>1, <3>1, AtAction DEF Action, Todo
  <2>3. InPlace(AfterRetention[1])
    BY <2>2 DEF WorkInv, OnTheWay
  <2>4. AfterRetention[1] = "delete_openrouter"
    BY DEF AfterRetention
  <2>5. QED
    BY <1>a, <2>3, <2>4 DEF InPlace, AtProvider
<1>2. ASSUME "destroy_computer" \in stored', "destroy_computer" \notin stored
      PROVE  "destroy_computer" \in called'
  <2>1. PICK p \in Actors : Action(p) = "destroy_computer" /\ Store(p)
    BY <1>2, Effects DEF world
  <2>2. "destroy_computer" \in called
    BY <2>1 DEF Store, WorkInv, OnTheWay, AtProvider
  <2>3. QED
    BY <1>a, <2>2
<1>3. QED
  BY <1>a, <1>1, <1>2 DEF NothingOrphaned

LEMMA WorkInitial == ASSUME Init PROVE WorkInv
<1>1. TypeInv
  BY InitTyped
<1>2. \A p \in Actors : job[p] = Idle
  BY DEF Init
<1>3. \A p \in Actors : job[p].pc = "idle" /\ job[p].next = 1
  BY <1>2 DEF Idle
<1>4. \A s \in Stages : status[s] = "none"
  BY DEF Init
<1>5. promised = {} /\ called = {} /\ stored = {}
  BY DEF Init
<1>6. Actions \subseteq Stages /\ Cleanup \in Stages
  BY DEF Stages
<1>7. \A p \in Actors : OnTheWay(p) /\ Due(p)
  BY <1>3 DEF OnTheWay, Due
<1>8. PlacesOK
  BY <1>3 DEF PlacesOK
<1>9. QED
  BY <1>1, <1>4, <1>5, <1>6, <1>7, <1>8 DEF WorkInv, ClosedBeforeScheduled, NothingDestroyedEarly,
                                            NothingOrphaned

\* Only an action with business at a provider gets to the call.
LEMMA CallsInductive == ASSUME WorkInv, [Next]_vars PROVE TypeInv'
<1>1. TypeOK'
  BY StepTyped DEF WorkInv
<1>2. ASSUME NEW p \in Actors, job'[p].pc = "call"
      PROVE  Action(p)' \in AtProvider
  <2>1. Moved(p)
    BY Movement DEF WorkInv
  <2>2. \/ job'[p] = job[p]
        \/ job'[p].next = job[p].next /\ Action(p) \in AtProvider
    BY <1>2, <2>1 DEF Moved, Idle, Forward, Onward
  <2>3. QED
    BY <1>2, <2>2 DEF WorkInv, TypeInv, Action, Todo
<1>3. QED
  BY <1>1, <1>2 DEF TypeInv

LEMMA WorkInductive == ASSUME WorkInv, [Next]_vars PROVE WorkInv'
<1>1. TypeInv' /\ PlacesOK'
  BY CallsInductive, PlacesInductive
<1>2. \A p \in Actors : OnTheWay(p)' /\ Due(p)'
  BY WayInductive, DueInductive
<1>3. QED
  BY <1>1, <1>2, CompletionInductive, DeadlineInductive, ClosedInductive, EarlyInductive,
     OrphansInductive DEF WorkInv

---------------------------------------------------------------------------
(* The leases of the actions *)

\* An actor inside an action whose lease has not run out under it has the row to itself.
LeaseInv ==
  /\ \A p \in Actors : job[p].pc \in Acting /\ Action(p) \notin overran =>
       /\ status[Action(p)] = "running"
       /\ Action(p) \notin lapsed /\ Action(p) \notin executed
  /\ ActionsExclude

\* A row that changes under an actor whose lease holds changes by its own hand.
LEMMA RowsKept ==
  ASSUME WorkInv, LeaseInv, [Next]_vars,
         NEW p \in Actors, job[p].pc \in Acting, Action(p) \notin overran',
         job'[p].pc \in Acting, Action(p)' = Action(p)
  PROVE  /\ status'[Action(p)] = "running"
         /\ Action(p) \notin lapsed' /\ Action(p) \notin executed'
<1> DEFINE s == Action(p)
<1>a. /\ TypeOK /\ PlacesOK /\ s \in Actions /\ s # Cleanup /\ s \in Stages
      /\ status \in [Stages -> {"none", "pending", "running", "completed", "failed"}]
  BY AtAction DEF WorkInv, TypeInv, TypeOK, Stages
<1>b. overran \subseteq overran'
  BY DEF Next, Step, Open, ClaimAction, Reread, Call, Store, Finish, Schedule, Take, Close,
         GiveUp, Cancel, Look, Fail, Die, Expire, Tick, vars, world, bounds
<1>c. status[s] = "running" /\ s \notin lapsed /\ s \notin executed /\ s \notin overran
  BY <1>b DEF LeaseInv
<1>d. ASSUME NEW t, t # s, NEW n, Becomes(t, n)
      PROVE  status'[s] = "running" /\ s \notin lapsed'
  BY <1>a, <1>c, <1>d DEF Becomes
<1>e. ASSUME NEW t, t # s, Claimed(t) \/ Done(t) \/ Failed(t)
      PROVE  status'[s] = "running" /\ s \notin lapsed' /\ s \notin executed'
  BY <1>c, <1>d, <1>e DEF Claimed, Done, Failed
<1>f. ASSUME UNCHANGED rows
      PROVE  status'[s] = "running" /\ s \notin lapsed' /\ s \notin executed'
  BY <1>c, <1>f DEF rows
<1>g. ASSUME NEW q \in Actors, job[q].pc \in Acting, Action(q) = s
      PROVE  q = p
  BY <1>c, <1>g DEF LeaseInv, ActionsExclude, Acting
<1>1. ASSUME NEW q \in Actors, Open(q) PROVE status'[s] = "running" /\ s \notin lapsed' /\ s \notin executed'
  BY <1>1, <1>c, <1>d, <1>f DEF Open
<1>2. ASSUME NEW q \in Actors, ClaimAction(q) PROVE status'[s] = "running" /\ s \notin lapsed' /\ s \notin executed'
  BY <1>2, <1>c, <1>e, <1>f DEF ClaimAction, Claimable
<1>3. ASSUME NEW q \in Actors, Reread(q) \/ Call(q) \/ Store(q) \/ Cancel(q) \/ Look(q) \/ Die(q)
      PROVE  status'[s] = "running" /\ s \notin lapsed' /\ s \notin executed'
  BY <1>3, <1>f DEF Reread, Call, Store, Cancel, Look, Die
<1>4. ASSUME NEW q \in Actors, Finish(q) \/ Fail(q)
      PROVE  status'[s] = "running" /\ s \notin lapsed' /\ s \notin executed'
  <2>1. CASE Action(q) # s
    BY <1>4, <1>e, <2>1 DEF Finish, Fail
  <2>2. CASE Action(q) = s
    <3>1. q = p
      BY <1>4, <1>g, <2>2 DEF Finish, Fail, Acting
    <3>2. job'[p].pc \notin Acting
      <4>1. CASE Finish(p)
        <5>1. Forward(p)
          BY <1>a, <4>1, AdvanceMoves DEF Finish
        <5>2. QED
          BY <5>1 DEF Forward, Acting
      <4>2. CASE Fail(p)
        <5>1. job'[p].pc \in {"give_up", "idle"}
          BY <1>a, <4>2 DEF Fail, Throw, TypeOK, Idle
        <5>2. QED
          BY <5>1 DEF Acting
      <4>3. QED
        BY <1>4, <3>1, <4>1, <4>2
    <3>3. QED
      BY <3>2
  <2>3. QED
    BY <2>1, <2>2
<1>5. ASSUME NEW q \in Actors, Schedule(q) \/ Take(q) \/ Close(q) \/ GiveUp(q)
      PROVE  status'[s] = "running" /\ s \notin lapsed' /\ s \notin executed'
  BY <1>5, <1>a, <1>c, <1>d, <1>e, <1>f DEF Schedule, Take, Close, GiveUp
<1>6. ASSUME NEW t \in Stages, Expire(t)
      PROVE  status'[s] = "running" /\ s \notin lapsed' /\ s \notin executed'
  <2>1. Live(s)
    BY <1>a DEF Live, Holds
  <2>2. t # s
    BY <1>6, <2>1 DEF Expire
  <2>3. QED
    BY <1>6, <1>c, <2>2 DEF Expire
<1>7. CASE Tick \/ UNCHANGED vars
  BY <1>7, <1>f DEF Tick, vars
<1>8. QED
  BY <1>1, <1>2, <1>3, <1>4, <1>5, <1>6, <1>7 DEF Next, Step

\* An actor enters an action only by claiming its row.
LEMMA Entering ==
  ASSUME WorkInv, [Next]_vars, NEW p \in Actors, job'[p].pc \in Acting
  PROVE  /\ Action(p)' = Action(p)
         /\ \/ job[p].pc \in Acting
            \/ ClaimAction(p) /\ Claimable(Action(p)) /\ Claimed(Action(p))
<1>1. Moved(p)
  BY Movement DEF WorkInv
<1>a. Todo(p)' = Todo(p)
  BY Lists DEF Todo
<1>2. CASE job'[p] = job[p]
  BY <1>2, <1>a DEF Action
<1>3. CASE Onward(p)
  <2>1. job'[p].next = job[p].next
    BY <1>3 DEF Onward
  <2>2. Action(p)' = Action(p)
    BY <1>a, <2>1 DEF Action
  <2>3. job[p].pc \in Acting \/ ClaimAction(p)
    BY <1>3 DEF Onward, Acting
  <2>4. ASSUME ClaimAction(p)
        PROVE  Claimable(Action(p)) /\ Claimed(Action(p))
    <3>1. ~Goto(p, "reread")
      BY DEF Goto, Acting, WorkInv, TypeInv, TypeOK
    <3>2. QED
      BY <2>4, <3>1 DEF ClaimAction
  <2>5. QED
    BY <2>2, <2>3, <2>4
<1>4. QED
  BY <1>1, <1>2, <1>3 DEF Moved, Idle, Forward, Acting

LEMMA LeaseInductive ==
  ASSUME WorkInv, LeaseInv, [Next]_vars
  PROVE  LeaseInv'
<1>a. overran \subseteq overran' /\ \A p \in Actors : Action(p) \in Stages
  <2>1. overran \subseteq overran'
    BY DEF Next, Step, Open, ClaimAction, Reread, Call, Store, Finish, Schedule, Take, Close,
           GiveUp, Cancel, Look, Fail, Die, Expire, Tick, vars, world, bounds
  <2>2. QED
    BY <2>1, AtAction DEF WorkInv, TypeInv, Stages
<1>b. /\ status \in [Stages -> {"none", "pending", "running", "completed", "failed"}]
  BY DEF WorkInv, TypeInv, TypeOK
<1>1. ASSUME NEW p \in Actors, job'[p].pc \in Acting, Action(p)' \notin overran'
      PROVE  /\ status'[Action(p)'] = "running"
             /\ Action(p)' \notin lapsed' /\ Action(p)' \notin executed'
  <2>1. Action(p)' = Action(p)
    BY <1>1, Entering
  <2>2. CASE job[p].pc \in Acting
    BY <1>1, <2>1, <2>2, RowsKept
  <2>3. CASE Claimable(Action(p)) /\ Claimed(Action(p))
    BY <1>a, <1>b, <2>1, <2>3 DEF Claimable, Claimed, Becomes
  <2>4. QED
    BY <1>1, <2>2, <2>3, Entering
<1>2. ASSUME NEW p \in Actors, NEW q \in Actors, p # q,
             job'[p].pc \in Acting, job'[q].pc \in Acting, Action(p)' = Action(q)'
      PROVE  Action(p)' \in overran'
  <2>1. Action(p)' = Action(p) /\ Action(q)' = Action(q) /\ Action(p) = Action(q)
    BY <1>2, Entering
  <2>2. SUFFICES ASSUME Action(p) \notin overran PROVE FALSE
    BY <1>a, <2>1
  <2>3. CASE job[p].pc \in Acting /\ job[q].pc \in Acting
    BY <1>2, <2>1, <2>2, <2>3 DEF LeaseInv, ActionsExclude
  <2>4. ASSUME NEW d \in {p, q}, NEW e \in {p, q}, job[d].pc \in Acting, ClaimAction(e),
               Claimable(Action(e))
        PROVE  FALSE
    BY <2>1, <2>2, <2>4 DEF LeaseInv, Claimable
  <2>5. CASE ClaimAction(p) /\ ClaimAction(q)
    <3>1. job' = [job EXCEPT ![p] = job'[p]]
      BY <2>5 DEF ClaimAction, Goto, WorkInv, TypeInv, TypeOK
    <3>2. job'[q] = job[q]
      BY <1>2, <3>1 DEF WorkInv, TypeInv, TypeOK
    <3>3. job[q].pc = "claim"
      BY <2>5 DEF ClaimAction
    <3>4. QED
      BY <1>2, <3>2, <3>3 DEF Acting
  <2>6. QED
    BY <1>2, <2>3, <2>4, <2>5, Entering
<1>3. \A p, q \in Actors : (p # q /\ {job[p].pc, job[q].pc} \subseteq Acting
                               /\ Action(p) = Action(q))' => (Action(p) \in overran)'
  BY <1>2 DEF Acting
<1>4. ActionsExclude'
  BY <1>3 DEF ActionsExclude
<1>5. QED
  BY <1>1, <1>4 DEF LeaseInv

\* While the lease on an action holds, nothing takes its completion back.
LEMMA CompletionKept ==
  ASSUME WorkInv, LeaseInv, [Next]_vars,
         NEW s \in Actions, Completed(s), s \notin overran
  PROVE  Completed(s)'
<1>a. /\ TypeOK /\ s # Cleanup /\ s \in Stages
      /\ status \in [Stages -> {"none", "pending", "running", "completed", "failed"}]
  BY Lists DEF WorkInv, TypeInv, TypeOK, Stages
<1>b. status[s] = "completed" /\ s \in executed
  BY DEF Completed
<1>c. \A t, n : t # s /\ Becomes(t, n) => status'[s] = "completed"
  BY <1>a, <1>b DEF Becomes
<1>d. \A t : t # s /\ (Claimed(t) \/ Failed(t)) => Completed(s)'
  BY <1>b, <1>c DEF Claimed, Failed, Completed
<1>e. \A t : Done(t) => Completed(s)'
  BY <1>a, <1>b, <1>c DEF Done, Becomes, Completed
<1>f. UNCHANGED rows => Completed(s)'
  BY <1>b DEF rows, Completed
<1>1. ASSUME NEW q \in Actors, Open(q) \/ ClaimAction(q) PROVE Completed(s)'
  <2>1. CASE UNCHANGED rows
    BY <1>f, <2>1
  <2>2. CASE Becomes(Action(q), "pending") /\ UNCHANGED executed /\ status[Action(q)] = "none"
    <3>1. Action(q) # s
      BY <1>b, <2>2
    <3>2. QED
      BY <1>b, <1>c, <2>2, <3>1 DEF Completed
  <2>3. CASE Claimable(Action(q)) /\ Claimed(Action(q))
    BY <1>b, <1>d, <2>3 DEF Claimable
  <2>4. QED
    BY <1>1, <2>1, <2>2, <2>3 DEF Open, ClaimAction
<1>2. ASSUME NEW q \in Actors, Reread(q) \/ Call(q) \/ Store(q) \/ Cancel(q) \/ Look(q) \/ Die(q)
      PROVE  Completed(s)'
  BY <1>2, <1>f DEF Reread, Call, Store, Cancel, Look, Die
<1>3. ASSUME NEW q \in Actors, Finish(q) \/ Close(q) PROVE Completed(s)'
  BY <1>3, <1>e DEF Finish, Close
<1>4. ASSUME NEW q \in Actors, Fail(q) PROVE Completed(s)'
  <2>1. Action(q) # s
    BY <1>4, <1>b DEF Fail, LeaseInv
  <2>2. QED
    BY <1>4, <1>d, <2>1 DEF Fail
<1>5. ASSUME NEW q \in Actors, Take(q) \/ GiveUp(q) PROVE Completed(s)'
  BY <1>5, <1>a, <1>d, <1>f DEF Take, GiveUp
<1>6. ASSUME NEW q \in Actors, Schedule(q) PROVE Completed(s)'
  <2>1. status'[s] = "completed" /\ s \in executed'
    BY <1>6, <1>a, <1>b, <1>c DEF Schedule
  <2>2. QED
    BY <2>1 DEF Completed
<1>7. CASE (\E t \in Stages : Expire(t)) \/ Tick \/ UNCHANGED vars
  BY <1>7, <1>b, <1>f DEF Expire, Tick, vars, Completed
<1>8. QED
  BY <1>1, <1>2, <1>3, <1>4, <1>5, <1>6, <1>7 DEF Next, Step

---------------------------------------------------------------------------
(* The theorems *)

\* The invariant behind all of them.
LEMMA CancellationInvariant == Spec => [](WorkInv /\ LeaseInv)
<1>1. Init => WorkInv /\ LeaseInv
  <2>1. Init => \A p \in Actors : job[p].pc \notin Acting
    BY DEF Init, Idle, Acting
  <2>2. Init => LeaseInv
    BY <2>1 DEF LeaseInv, ActionsExclude
  <2>3. QED
    BY <2>2, WorkInitial
<1>2. WorkInv /\ LeaseInv /\ [Next]_vars => (WorkInv /\ LeaseInv)'
  BY WorkInductive, LeaseInductive
<1>3. QED
  BY <1>1, <1>2, PTL DEF Spec

\* Every variable of a cancellation keeps its type, however many requests, workers,
\* faults and overrun leases there are.
THEOREM CancellationTypes == Spec => []TypeOK
<1>1. WorkInv => TypeOK
  BY DEF WorkInv, TypeInv
<1>2. QED
  BY <1>1, CancellationInvariant, PTL

\* Retention is promised only for a workspace whose routines, runs, keys and computers
\* have been stopped: scheduleRetentionCleanup comes after all the immediate actions.
THEOREM RetentionAfterClosing == Spec => []ClosedBeforeScheduled
<1>1. WorkInv => ClosedBeforeScheduled
  BY DEF WorkInv
<1>2. QED
  BY <1>1, CancellationInvariant, PTL

\* No destructive action starts before some promised deadline has passed.
THEOREM RetentionIsKept == Spec => []NothingDestroyedEarly
<1>1. WorkInv => NothingDestroyedEarly
  BY DEF WorkInv
<1>2. QED
  BY <1>1, CancellationInvariant, PTL

\* No key and no machine outlives what names it.
THEOREM NoOrphans == Spec => []NothingOrphaned
<1>1. WorkInv => NothingOrphaned
  BY DEF WorkInv
<1>2. QED
  BY <1>1, CancellationInvariant, PTL

\* A clean-up that counts as completed has done every destructive action.
THEOREM CleanupIsComplete == Spec => []CleanedUpForGood
<1>1. WorkInv => CleanedUpForGood
  BY DEF WorkInv, CleanedUpForGood, Completed
<1>2. QED
  BY <1>1, CancellationInvariant, PTL

\* Two actors are inside one action only after its lease has run out under the first.
THEOREM ActionsAreExclusive == Spec => []ActionsExclude
<1>1. LeaseInv => ActionsExclude
  BY DEF LeaseInv
<1>2. QED
  BY <1>1, CancellationInvariant, PTL

\* An action whose lease has never run out under its holder stays completed.
THEOREM CompletionLasts == Spec => CompletedStays
<1>1. WorkInv /\ LeaseInv /\ [Next]_vars =>
        [\A s \in Actions : Completed(s) /\ s \notin overran => Completed(s)']_vars
  BY CompletionKept
<1>2. QED
  BY <1>1, CancellationInvariant, PTL DEF Spec, CompletedStays

---------------------------------------------------------------------------
(* The promise of RetentionPeriod is kept *)

\* A request's time is not later than now.
AtInv == \A p \in Actors : job[p].at <= clock

LEMMA AtMoves ==
  ASSUME TypeOK, [Next]_vars, NEW q \in Actors
  PROVE  job'[q].at \in {job[q].at, 0, clock}
<1>j. job \in [Actors -> [pc: Steps, at: Nat, next: 1..5]]
  BY DEF TypeOK
<1>1. ASSUME NEW p \in Actors, NEW s, Goto(p, s)
      PROVE  job'[q].at = job[q].at
  BY <1>j, <1>1 DEF Goto
<1>2. ASSUME NEW p \in Actors, Advance(p)
      PROVE  job'[q].at = job[q].at
  <2>1. CASE job[p].next < Len(Todo(p))
    <3>1. job' = [job EXCEPT ![p] = [job[p] EXCEPT !.pc = "open", !.next = job[p].next + 1]]
      BY <1>j, <1>2, <2>1 DEF Advance
    <3> QED
      BY <1>j, <3>1
  <2>2. CASE ~(job[p].next < Len(Todo(p)))
    <3>1. job' = [job EXCEPT ![p] = [job[p] EXCEPT !.pc = IF p \in Workers THEN "close" ELSE "schedule"]]
      BY <1>j, <1>2, <2>2 DEF Advance
    <3> QED
      BY <1>j, <3>1
  <2> QED
    BY <2>1, <2>2
<1>3. ASSUME NEW p \in Actors, job' = [job EXCEPT ![p] = Idle]
      PROVE  job'[q].at \in {job[q].at, 0}
  BY <1>j, <1>3 DEF Idle
<1>4. ASSUME NEW p \in Actors, Throw(p)
      PROVE  job'[q].at \in {job[q].at, 0}
  <2>1. CASE p \in Workers
    <3>1. Goto(p, "give_up")
      BY <1>j, <1>4, <2>1 DEF Throw, Goto
    <3> QED
      BY <1>1, <3>1
  <2>2. CASE p \notin Workers
    BY <1>j, <1>3, <1>4, <2>2 DEF Throw
  <2> QED
    BY <2>1, <2>2
<1>5. ASSUME NEW p \in Actors, Cancel(p)
      PROVE  job'[q].at \in {job[q].at, clock}
  BY <1>j, <1>5 DEF Cancel
<1>6. ASSUME NEW p \in Actors,
             Open(p) \/ ClaimAction(p) \/ Reread(p) \/ Call(p) \/ Store(p) \/ Finish(p) \/ Fail(p)
      PROVE  job'[q].at \in {job[q].at, 0}
  BY <1>1, <1>2, <1>4, <1>6 DEF Open, ClaimAction, Reread, Call, Store, Finish, Fail
<1>7. ASSUME NEW p \in Actors,
             Schedule(p) \/ Take(p) \/ Close(p) \/ GiveUp(p) \/ Die(p)
      PROVE  job'[q].at \in {job[q].at, 0}
  BY <1>1, <1>3, <1>7 DEF Schedule, Take, Close, GiveUp, Die
<1>8. ASSUME NEW p \in Actors, Look(p)
      PROVE  job'[q].at = job[q].at
  <2>1. Goto(p, "take")
    BY <1>8 DEF Look, Goto
  <2> QED
    BY <1>1, <2>1
<1>9. CASE (\E s \in Stages : Expire(s)) \/ Tick \/ UNCHANGED vars
  BY <1>9 DEF Expire, Tick, vars
<1> QED
  BY <1>5, <1>6, <1>7, <1>8, <1>9 DEF Next, Step

LEMMA AtStays == ASSUME TypeOK, TypeOK', AtInv, [Next]_vars PROVE AtInv'
<1> SUFFICES ASSUME NEW q \in Actors PROVE job'[q].at <= clock'
  BY DEF AtInv
<1>1. clock \in Nat /\ clock' \in Nat /\ clock <= clock'
  BY Monotone, ConstantsOK DEF TypeOK
<1>2. job[q].at \in Nat /\ job[q].at <= clock
  BY DEF TypeOK, AtInv
<1> QED
  BY <1>1, <1>2, AtMoves

\* The effects in place, as the promise counts them.
Placed == ({"provider"} \X called) \cup ({"database"} \X stored)

LEMMA EffectsOfActions ==
  /\ \A S, a : <<"provider", a>> \in EffectsOf(S) <=> a \in S \cap AtProvider
  /\ \A S, a : <<"database", a>> \in EffectsOf(S) <=> a \in S \ {"delete_openrouter"}
  /\ \A a : <<"provider", a>> \in Placed <=> a \in called
  /\ \A a : <<"database", a>> \in Placed <=> a \in stored
  BY DEF EffectsOf, Placed

LEMMA PlacedOf ==
  ASSUME NEW S, \A a \in S : InPlace(a)
  PROVE  EffectsOf(S) \subseteq Placed
  BY DEF EffectsOf, Placed, InPlace

\* Only the row of the clean-up changes: it is reported over, for which everything must
\* be destroyed, or the report is taken back.
LEMMA RowsKeepPromise ==
  ASSUME WorkInv', UNCHANGED <<clock, called, stored, promised>>
  PROVE  [Promise!Next]_(Promise!vars)
<1>1. CASE Completed(Cleanup)' <=> Completed(Cleanup)
  BY <1>1 DEF Promise!vars, Completed
<1>2. CASE ~Completed(Cleanup)'
  BY <1>2 DEF Promise!Next, Promise!Retract
<1>3. CASE Completed(Cleanup)'
  <2>1. \A a \in Destructive : InPlace(a)'
    BY <1>3 DEF WorkInv, Completed
  <2>2. \A a \in Destructive : InPlace(a)
    BY <2>1 DEF InPlace
  <2>3. EffectsOf(Destructive) \subseteq Placed
    BY <2>2, PlacedOf
  <2> QED
    BY <1>3, <2>3 DEF Promise!Next, Promise!Report, Placed
<1> QED
  BY <1>1, <1>2, <1>3

\* An effect that is added closes the workspace when a request adds it, and destroys when
\* a worker does.
LEMMA EffectKeepsPromise ==
  ASSUME WorkInv, WorkInv', NEW p \in Actors, NEW x, Placed' = Placed \cup {x},
         job[p].pc # "idle",
         \/ x = <<"provider", Action(p)>> /\ Action(p) \in AtProvider
         \/ x = <<"database", Action(p)>> /\ Action(p) # "delete_openrouter" /\ called' = called,
         UNCHANGED <<clock, promised, rows>>
  PROVE  [Promise!Next]_(Promise!vars)
<1>1. Completed(Cleanup)' = Completed(Cleanup)
  BY DEF Completed, rows
<1>2. TypeOK
  BY DEF WorkInv, TypeInv
<1>3. CASE p \in Requests
  <2>1. x \in EffectsOf(First)
    BY <1>2, <1>3, AtAction, EffectsOfActions
  <2> QED
    BY <1>1, <2>1 DEF Promise!Next, Promise!Close, Placed
<1>4. CASE p \in Workers
  <2>1. x \in EffectsOf(Destructive)
    BY <1>2, <1>4, AtAction, EffectsOfActions
  <2>2. \E d \in promised : d <= clock
    BY <1>4 DEF WorkInv, Due
  <2>3. x = <<"database", "delete_secrets">> => <<"provider", "delete_openrouter">> \in Placed
    <3>1. ASSUME x = <<"database", "delete_secrets">>
          PROVE  "delete_secrets" \in stored' /\ called' = called
      BY <3>1 DEF Placed
    <3> QED
      BY <3>1, EffectsOfActions DEF WorkInv, NothingOrphaned
  <2>4. x = <<"database", "destroy_computer">> => <<"provider", "destroy_computer">> \in Placed
    <3>1. ASSUME x = <<"database", "destroy_computer">>
          PROVE  "destroy_computer" \in stored' /\ called' = called
      BY <3>1 DEF Placed
    <3> QED
      BY <3>1, EffectsOfActions DEF WorkInv, NothingOrphaned
  <2> QED
    BY <1>1, <2>1, <2>2, <2>3, <2>4 DEF Promise!Next, Promise!Destroy, Placed
<1> QED
  BY <1>3, <1>4 DEF Actors

LEMMA CallKeepsPromise ==
  ASSUME WorkInv, WorkInv', NEW p \in Actors, Call(p)
  PROVE  [Promise!Next]_(Promise!vars)
<1>1. Action(p) \in AtProvider /\ job[p].pc = "call" /\ stored' = stored
      /\ UNCHANGED <<clock, promised, rows>>
  BY DEF Call, WorkInv, TypeInv, bounds
<1>2. CASE called' = called
  BY <1>1, <1>2, RowsKeepPromise
<1>3. CASE called' = called \cup {Action(p)}
  <2>1. Placed' = Placed \cup {<<"provider", Action(p)>>}
    BY <1>1, <1>3 DEF Placed
  <2> QED
    BY <1>1, <2>1, EffectKeepsPromise
<1> QED
  BY <1>2, <1>3 DEF Call

LEMMA StoreKeepsPromise ==
  ASSUME WorkInv, WorkInv', NEW p \in Actors, Store(p)
  PROVE  [Promise!Next]_(Promise!vars)
<1>1. job[p].pc = "store" /\ called' = called /\ UNCHANGED <<clock, promised, rows>>
  BY DEF Store, bounds
<1>2. CASE Action(p) = "delete_openrouter"
  <2>1. stored' = stored
    BY <1>2 DEF Store
  <2> QED
    BY <1>1, <2>1, RowsKeepPromise
<1>3. CASE Action(p) # "delete_openrouter"
  <2>1. stored' = stored \cup {Action(p)}
    BY <1>3 DEF Store
  <2>2. Placed' = Placed \cup {<<"database", Action(p)>>}
    BY <1>1, <2>1 DEF Placed
  <2> QED
    BY <1>1, <1>3, <2>2, EffectKeepsPromise
<1> QED
  BY <1>2, <1>3

\* The deadline counts from the day the request read.
LEMMA ScheduleKeepsPromise ==
  ASSUME WorkInv, WorkInv', AtInv, NEW p \in Actors, Schedule(p)
  PROVE  [Promise!Next]_(Promise!vars)
<1>1. /\ deadline' = job[p].at + Retention /\ promised' = promised \cup {deadline'}
      /\ UNCHANGED <<clock, called, stored>>
  BY DEF Schedule, world, bounds
<1>2. ~Completed(Cleanup)'
  <2>1. executed' = executed \ {Cleanup}
    BY DEF Schedule
  <2> QED
    BY <2>1 DEF Completed
<1>3. deadline' \in Retention .. clock + Retention
  <2>1. job[p].at \in Nat /\ clock \in Nat /\ Retention \in Nat /\ job[p].at <= clock
    BY ConstantsOK DEF WorkInv, TypeInv, TypeOK, AtInv
  <2> QED
    BY <1>1, <2>1
<1>4. EffectsOf(First) \subseteq Placed
  <2>1. \A a \in First : InPlace(a)'
    BY <1>1 DEF WorkInv, ClosedBeforeScheduled
  <2>2. \A a \in First : InPlace(a)
    BY <1>1, <2>1 DEF InPlace
  <2> QED
    BY <2>2, PlacedOf
<1> QED
  BY <1>1, <1>2, <1>3, <1>4 DEF Promise!Next, Promise!SetDeadline, Placed

LEMMA StepKeepsPromise ==
  ASSUME WorkInv, WorkInv', AtInv, [Next]_vars
  PROVE  [Promise!Next]_(Promise!vars)
<1>1. CASE Tick
  BY <1>1 DEF Tick, rows, world, Completed, Promise!Next, Promise!PassDay
<1>2. CASE \E p \in Actors : Call(p) \/ Store(p) \/ Schedule(p)
  BY <1>2, CallKeepsPromise, StoreKeepsPromise, ScheduleKeepsPromise
<1>3. CASE ~Tick /\ ~\E p \in Actors : Call(p) \/ Store(p) \/ Schedule(p)
  <2>1. UNCHANGED <<clock, called, stored, promised>>
    BY <1>3 DEF Next, Step, Open, ClaimAction, Reread, Finish, Take, Close, GiveUp, Cancel, Look,
                Fail, Die, Expire, vars, world, bounds
  <2> QED
    BY <2>1, RowsKeepPromise
<1> QED
  BY <1>1, <1>2, <1>3

\* Requests, workers, failures, deaths and leases that run out keep the promise of
\* RetentionPeriod: every step of a cancellation is a step of it, or changes nothing that
\* it speaks of.
THEOREM RetentionPromiseKept == Spec => KeepsPromise
<1>1. Init => Promise!Init /\ AtInv
  <2>1. ASSUME Init PROVE Promise!Init
    BY <2>1 DEF Init, Promise!Init, Completed, Cleanup
  <2>2. ASSUME Init PROVE AtInv
    BY <2>2 DEF Init, AtInv, Idle
  <2> QED
    BY <2>1, <2>2
<1>2. WorkInv /\ WorkInv' /\ AtInv /\ [Next]_vars => AtInv' /\ [Promise!Next]_(Promise!vars)
  BY AtStays, StepKeepsPromise DEF WorkInv, TypeInv
<1> QED
  BY <1>1, <1>2, CancellationInvariant, PTL DEF Spec, KeepsPromise, Promise!Spec
===========================================================================
