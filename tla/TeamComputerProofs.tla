-------------------------- MODULE TeamComputerProofs --------------------------
(***************************************************************************)
(* The Team Computer's invariants, for any number of bots, machines,       *)
(* requests and faults: the types, one teardown of a bot at a time, every  *)
(* lease is returned, and no teardown turns off the machine of a bot that  *)
(* holds one.                                                              *)
(***************************************************************************)
EXTENDS TeamComputer, TLAPS

-----------------------------------------------------------------------------
(* The local states of workers and requests *)

Fine(o) ==
  /\ o \in Op
  /\ o.pc \in Given => o.ref \in Machines
  /\ o.pc \in Named => o.old \in Machines

OpsOK == op \in [Callers -> Op] /\ \A c \in Callers : Fine(op[c])

RestOK ==
  /\ row \in Row
  /\ touched \in BOOLEAN
  /\ lease \in [Bots -> Lease]
  /\ run \in [Bots -> Run]
  /\ power \in [Machines -> {"on", "off", "gone"}]
  /\ disk \in [Machines -> SUBSET Scribes]
  /\ home \subseteq Scribes
  /\ sleep \in Sleep
  /\ sleep.pc # "idle" => sleep.ref \in Machines
  /\ requests \in 0..MaxRequests
  /\ faults \in [count : 0..MaxFaults, died : BOOLEAN]

\* TypeOK is the one and the other.
LEMMA Parts == TypeOK <=> OpsOK /\ RestOK
  BY DEF TypeOK, OpsOK, RestOK, Fine

\* A bot has a worker and its requests, and they are different callers.
LEMMA BotsCall ==
  \A b \in Bots : Worker(b) \in Callers /\ Api(b) \in Callers /\ Worker(b)[2] = b
                   /\ Api(b)[2] = b /\ Worker(b)[1] = "worker" /\ Api(b)[1] = "api"
  BY DEF Callers, Worker, Api

\* The fields of a local state.
LEMMA Fields ==
  ASSUME NEW o
  PROVE  o \in Op <=> /\ o = [pc |-> o.pc, mode |-> o.mode, was |-> o.was, old |-> o.old,
                              ref |-> o.ref, fresh |-> o.fresh, snap |-> o.snap]
                      /\ o.pc \in PC /\ o.mode \in Mode /\ o.was \in State
                      /\ o.old \in Machines \cup {None} /\ o.ref \in Machines \cup {None}
                      /\ o.fresh \in BOOLEAN /\ o.snap \in SUBSET Scribes
  BY DEF Op

\* Putting a fine local state in the place of another one.
LEMMA PutOK ==
  ASSUME OpsOK, NEW c \in Callers, NEW o, Fine(o), op' = [op EXCEPT ![c] = o]
  PROVE  OpsOK'
  BY DEF OpsOK, Fine

\* A move of the program counter alone.
LEMMA GoOK ==
  ASSUME OpsOK, NEW c \in Callers, NEW p \in PC, Go(c, p),
         p \in Given => op[c].ref \in Machines,
         p \in Named => op[c].old \in Machines
  PROVE  OpsOK'
<1>1. op' = [op EXCEPT ![c] = [op[c] EXCEPT !.pc = p]]
  BY DEF Go
<1>2. Fine([op[c] EXCEPT !.pc = p])
  BY DEF OpsOK, Fine, Op
<1>3. QED
  BY <1>1, <1>2, PutOK

\* A move that also takes or drops an exported workspace.
LEMMA SnapOK ==
  ASSUME NEW o, Fine(o), NEW p \in PC, NEW s \in SUBSET Scribes,
         p \in Given => o.ref \in Machines, p \in Named => o.old \in Machines
  PROVE  Fine([o EXCEPT !.pc = p, !.snap = s])
  BY DEF Fine, Op

\* The first state of an operation.
LEMMA QuietOK ==
  ASSUME NEW p \in PC \ (Given \cup Named)
  PROVE  Fine([Quiet EXCEPT !.pc = p])
  BY DEF Fine, Op, Quiet, Mode, State

\* Going on through with what was read.
LEMMA TurnOK ==
  ASSUME OpsOK, NEW c \in Callers, NEW p \in PC \ (Given \cup Named), Turn(c, p)
  PROVE  OpsOK'
  BY QuietOK, PutOK DEF Turn

\* Ending, and going to the finally.
LEMMA DoneOK ==
  ASSUME OpsOK, NEW c \in Callers, Done(c) \/ Through(c)
  PROVE  OpsOK'
<1>1. CASE Done(c)
  <2>3. Fine(Quiet)
    BY DEF Fine, Op, Quiet, Mode, State, PC, Given, Named, Using
  <2>4. QED
    BY <1>1, <2>3, PutOK DEF Done
<1>2. CASE Through(c)
  <2>1. "leaving" \in PC \ (Given \cup Named)
    BY DEF PC, Given, Named, Using
  <2>2. QED
    BY <1>2, <2>1, TurnOK DEF Through
<1>3. QED
  BY <1>1, <1>2

\* What a step does to the local state of its caller keeps it fine.
LEMMA OpsTyped == ASSUME TypeOK, [Next]_vars PROVE OpsOK'
<1>a. OpsOK /\ RestOK
  BY Parts
<1>b. UNCHANGED op => OpsOK'
  BY <1>a DEF OpsOK
<1>c. \A c \in Callers :
        /\ op[c].pc \in Given => op[c].ref \in Machines
        /\ op[c].pc \in Named => op[c].old \in Machines
        /\ op[c].old \in Machines \cup {None}
  BY <1>a DEF OpsOK, Fine, Op
<1>d. \A c \in Callers : Fine(op[c])
  BY <1>a DEF OpsOK
<1>e. row.state \in State /\ row.ref \in Machines \cup {None}
  BY <1>a DEF RestOK, Row
<1>p. ASSUME NEW c \in Callers, Proceed(c)
      PROVE  OpsOK'
  <2>1. PICK p \in {"reconnecting", "claiming"} :
          op' = [op EXCEPT ![c] = [op[c] EXCEPT !.old = row.ref, !.pc = p]]
    BY <1>p, <1>a DEF Proceed, OpsOK
  <2>2. Fine([op[c] EXCEPT !.old = row.ref, !.pc = p])
    BY <1>d, <1>e DEF Fine, Op, PC, Given, Named, Using, Provisioning
  <2>3. QED
    BY <2>1, <2>2, <1>a, PutOK
<1>r. ASSUME NEW c \in Callers, NEW m \in Machines, Ready(c, m)
      PROVE  OpsOK'
  <2>1. CASE c[1] = "worker"
    <3>1. op' = [op EXCEPT ![c] = [Quiet EXCEPT !.pc = "working", !.ref = m]]
      BY <2>1, <1>r DEF Ready
    <3>2. Fine([Quiet EXCEPT !.pc = "working", !.ref = m])
      BY DEF Fine, Op, Quiet, Mode, State, PC, Given, Named, Using
    <3>3. QED
      BY <3>1, <3>2, <1>a, PutOK
  <2>2. CASE c[1] # "worker"
    BY <2>2, <1>r, <1>a, DoneOK DEF Ready
  <2>3. QED
    BY <2>1, <2>2
<1>1. ASSUME NEW c \in Callers, TakeLease(c)
      PROVE  OpsOK'
    BY <1>1, <1>a, <1>c, GoOK, TurnOK, DoneOK, BotsCall DEF TakeLease, At, Exists, PC,
       Given, Named, Using
<1>2. ASSUME NEW c \in Callers, CheckLease(c)
      PROVE  OpsOK'
    BY <1>2, <1>a, GoOK, TurnOK, DoneOK DEF CheckLease, PC, Given, Named, Using,
       Provisioning, Taking, Stopping
<1>3. ASSUME NEW c \in Callers, Leave(c)
      PROVE  OpsOK'
    BY <1>3, <1>a, <1>c, GoOK, TurnOK, DoneOK, BotsCall DEF Leave, At, Exists, PC, Given,
       Named, Using
<1>4. ASSUME NEW c \in Callers, Look(c)
      PROVE  OpsOK'
    BY <1>4, <1>a, <1>c, GoOK, DoneOK, <1>p, <1>r DEF Look, At, Exists, PC, Given, Named,
       Using, Provisioning
<1>5. ASSUME NEW c \in Callers, Wait(c)
      PROVE  OpsOK'
    BY <1>5, <1>p DEF Wait
<1>6. ASSUME NEW c \in Callers, Claim(c)
      PROVE  OpsOK'
    BY <1>6, <1>a, <1>c, GoOK, DoneOK, <1>p, <1>r DEF Claim, At, Exists, PC, Given, Named,
       Using, Provisioning
<1>7. ASSUME NEW c \in Callers, Start(c)
      PROVE  OpsOK'
    <2>1. PICK m \in Machines, f \in BOOLEAN :
            op' = [op EXCEPT ![c] = [op[c] EXCEPT !.pc = "preparing", !.ref = m, !.fresh = f]]
      BY <1>7, <1>a DEF Start, OpsOK, Exists
    <2>2. Fine([op[c] EXCEPT !.pc = "preparing", !.ref = m, !.fresh = f])
      BY <1>d DEF Fine, Op, PC, Given, Named, Using, Provisioning
    <2>3. QED
      BY <2>1, <2>2, <1>a, PutOK
<1>8. ASSUME NEW c \in Callers, Prepare(c)
      PROVE  OpsOK'
    BY <1>8, <1>a, <1>c, GoOK DEF Prepare, At, Exists, PC, Given, Named, Using, Provisioning
<1>9. ASSUME NEW c \in Callers, Activate(c)
      PROVE  OpsOK'
    BY <1>9, <1>a, <1>c, GoOK, DoneOK, <1>p, <1>r DEF Activate, At, Exists, PC, Given,
       Named, Using, Provisioning
<1>10. ASSUME NEW c \in Callers, BootFails(c)
      PROVE  OpsOK'
    BY <1>10, <1>a, <1>c, GoOK, DoneOK, <1>p, <1>r DEF BootFails, At, Exists, PC, Given,
       Named, Using, Provisioning
<1>11. ASSUME NEW c \in Callers, Undo(c)
      PROVE  OpsOK'
    BY <1>11, <1>a, <1>c, GoOK, DoneOK, <1>p, <1>r DEF Undo, At, Exists, PC, Given, Named,
       Using, Provisioning
<1>12. ASSUME NEW c \in Callers, Fail(c)
      PROVE  OpsOK'
    BY <1>12, <1>a, <1>c, GoOK, DoneOK, <1>p, <1>r DEF Fail, At, Exists, PC, Given, Named,
       Using, Provisioning
<1>13. ASSUME NEW c \in Callers, Reconnect(c)
      PROVE  OpsOK'
    BY <1>13, <1>r DEF Reconnect
<1>14. ASSUME NEW c \in Callers, Crash(c)
      PROVE  OpsOK'
    BY <1>14, <1>a, <1>c, GoOK, TurnOK, DoneOK, BotsCall DEF Crash, At, Exists, PC, Given,
       Named, Using
<1>15. ASSUME NEW b \in Bots, Message(b)
      PROVE  OpsOK'
    BY <1>15, <1>b DEF Message, machinery
<1>16. ASSUME NEW b \in Bots, Cancel(b)
      PROVE  OpsOK'
    BY <1>16, <1>b DEF Cancel, machinery
<1>17. ASSUME NEW b \in Bots, Begin(b)
      PROVE  OpsOK'
    BY <1>17, <1>a, GoOK, BotsCall DEF Begin, PC, Given, Named, Using
<1>18. ASSUME NEW b \in Bots, Expire(b)
      PROVE  OpsOK'
    BY <1>18, <1>b DEF Expire, machinery
<1>19. ASSUME NEW b \in Bots, Work(b)
      PROVE  OpsOK'
    BY <1>19, <1>b DEF Work, machinery
<1>20. ASSUME NEW b \in Bots, Export(b)
      PROVE  OpsOK'
    <2>1. PICK s \in SUBSET Scribes :
            op' = [op EXCEPT ![Worker(b)] = [op[Worker(b)] EXCEPT !.pc = "saving", !.snap = s]]
      <4>1. disk[op[Worker(b)].ref] \in SUBSET Scribes
        BY <1>20, <1>a, <1>c, BotsCall DEF Export, At, Exists, RestOK, PC, Given, Named, Using
      <4>2. QED
        BY <1>20, <4>1, <1>a DEF Export, OpsOK
    <2>2. Fine([op[Worker(b)] EXCEPT !.pc = "saving", !.snap = s])
      <4>3. Fine(op[Worker(b)])
        BY <1>d, BotsCall
      <4>4. QED
        BY <4>3, <1>20, <1>c, BotsCall, SnapOK DEF Export, At, PC, Given, Named, Using,
           Provisioning
    <2>3. QED
      BY <2>1, <2>2, <1>a, PutOK, BotsCall
<1>21. ASSUME NEW b \in Bots, Save(b)
      PROVE  OpsOK'
    BY <1>21, <1>a, <1>c, GoOK, TurnOK, DoneOK, BotsCall DEF Save, At, Exists, PC, Given,
       Named, Using
<1>22. ASSUME NEW b \in Bots, Falter(b)
      PROVE  OpsOK'
    BY <1>22, <1>a, <1>c, GoOK, TurnOK, DoneOK, BotsCall DEF Falter, At, Exists, PC, Given,
       Named, Using
<1>23. ASSUME NEW b \in Bots, Finish(b)
      PROVE  OpsOK'
    BY <1>23, <1>a, <1>c, GoOK, TurnOK, DoneOK, BotsCall DEF Finish, At, Exists, PC, Given,
       Named, Using
<1>24. ASSUME NEW b \in Bots, StopClaim(b)
      PROVE  OpsOK'
    BY <1>24, <1>a, <1>c, GoOK, DoneOK, BotsCall DEF StopClaim, At, Exists, PC, Given,
       Named, Using, Stopping
<1>25. ASSUME NEW b \in Bots, StopCheck(b)
      PROVE  OpsOK'
    BY <1>25, <1>a, <1>c, GoOK, DoneOK, BotsCall DEF StopCheck, At, Exists, PC, Given,
       Named, Using, Stopping
<1>26. ASSUME NEW b \in Bots, StopExport(b)
      PROVE  OpsOK'
    <2>1. PICK s \in SUBSET Scribes :
            op' = [op EXCEPT ![Api(b)] = [op[Api(b)] EXCEPT !.pc = "stop saving", !.snap = s]]
      <4>1. disk[op[Api(b)].old] \in SUBSET Scribes
        BY <1>26, <1>a, <1>c, BotsCall DEF StopExport, At, Exists, RestOK, PC, Given, Named,
           Using
      <4>2. QED
        BY <1>26, <4>1, <1>a DEF StopExport, OpsOK
    <2>2. Fine([op[Api(b)] EXCEPT !.pc = "stop saving", !.snap = s])
      <4>3. Fine(op[Api(b)])
        BY <1>d, BotsCall
      <4>4. QED
        BY <4>3, <1>26, <1>c, BotsCall, SnapOK DEF StopExport, At, PC, Given, Named, Using,
           Stopping
    <2>3. QED
      BY <2>1, <2>2, <1>a, PutOK, BotsCall
<1>27. ASSUME NEW b \in Bots, StopSave(b)
      PROVE  OpsOK'
    <2>1. op' = [op EXCEPT ![Api(b)] = [op[Api(b)] EXCEPT !.pc = "stop powering", !.snap = {}]]
      BY <1>27, <1>a DEF StopSave, OpsOK
    <2>2. Fine([op[Api(b)] EXCEPT !.pc = "stop powering", !.snap = {}])
      <4>3. Fine(op[Api(b)])
        BY <1>d, BotsCall
      <4>4. QED
        BY <4>3, <1>27, <1>c, BotsCall, SnapOK DEF StopSave, At, PC, Given, Named, Using,
           Stopping
    <2>3. QED
      BY <2>1, <2>2, <1>a, PutOK, BotsCall
<1>28. ASSUME NEW b \in Bots, StopPower(b)
      PROVE  OpsOK'
    BY <1>28, <1>a, <1>c, GoOK, DoneOK, BotsCall DEF StopPower, At, Exists, PC, Given,
       Named, Using, Stopping
<1>29. ASSUME NEW b \in Bots, StopBreaks(b)
      PROVE  OpsOK'
    BY <1>29, <1>a, <1>c, GoOK, DoneOK, BotsCall DEF StopBreaks, At, Exists, PC, Given,
       Named, Using, Stopping
<1>30. ASSUME NEW b \in Bots, StopEnd(b)
      PROVE  OpsOK'
    BY <1>30, <1>a, <1>c, GoOK, DoneOK, BotsCall DEF StopEnd, At, Exists, PC, Given, Named,
       Using, Stopping
<1>31. ASSUME NEW b \in Bots, TakeLook(b)
      PROVE  OpsOK'
    <2>1. CASE Through(Api(b))
      BY <2>1, <1>a, DoneOK, BotsCall
    <2>2. CASE ~Through(Api(b))
      <4>1. op' = [op EXCEPT ![Api(b)] = [op[Api(b)] EXCEPT !.pc = "take claiming",
                                            !.was = row.state, !.old = row.ref]]
        BY <1>31, <2>2, <1>a DEF TakeLook, OpsOK
      <4>2. Fine([op[Api(b)] EXCEPT !.pc = "take claiming", !.was = row.state, !.old = row.ref])
        <5>1. Fine(op[Api(b)])
          BY <1>d, BotsCall
        <5>2. QED
          BY <5>1, <1>e DEF Fine, Op, PC, Given, Named, Using
      <4>3. QED
        BY <4>1, <4>2, <1>a, PutOK, BotsCall
    <2>3. QED
      BY <2>1, <2>2
<1>32. ASSUME NEW b \in Bots, TakeClaim(b)
      PROVE  OpsOK'
    BY <1>32, <1>a, <1>c, GoOK, DoneOK, BotsCall DEF TakeClaim, At, Exists, PC, Given,
       Named, Using, Taking
<1>33. ASSUME NEW b \in Bots, TakeCheck(b)
      PROVE  OpsOK'
    BY <1>33, <1>a, <1>c, GoOK, DoneOK, BotsCall DEF TakeCheck, At, Exists, PC, Given,
       Named, Using, Taking
<1>34. ASSUME NEW b \in Bots, TakeExport(b)
      PROVE  OpsOK'
    <2>1. PICK s \in SUBSET Scribes :
            op' = [op EXCEPT ![Api(b)] = [op[Api(b)] EXCEPT !.pc = "take saving", !.snap = s]]
      <4>1. disk[op[Api(b)].old] \in SUBSET Scribes
        BY <1>34, <1>a, <1>c, BotsCall DEF TakeExport, At, Exists, RestOK, PC, Given, Named,
           Using
      <4>2. QED
        BY <1>34, <4>1, <1>a DEF TakeExport, OpsOK
    <2>2. Fine([op[Api(b)] EXCEPT !.pc = "take saving", !.snap = s])
      <4>3. Fine(op[Api(b)])
        BY <1>d, BotsCall
      <4>4. QED
        BY <4>3, <1>34, <1>c, BotsCall, SnapOK DEF TakeExport, At, PC, Given, Named, Using,
           Taking
    <2>3. QED
      BY <2>1, <2>2, <1>a, PutOK, BotsCall
<1>35. ASSUME NEW b \in Bots, TakeSave(b)
      PROVE  OpsOK'
    <2>1. op' = [op EXCEPT ![Api(b)] = [op[Api(b)] EXCEPT !.pc = "destroying", !.snap = {}]]
      BY <1>35, <1>a DEF TakeSave, OpsOK
    <2>2. Fine([op[Api(b)] EXCEPT !.pc = "destroying", !.snap = {}])
      <4>3. Fine(op[Api(b)])
        BY <1>d, BotsCall
      <4>4. QED
        BY <4>3, <1>35, <1>c, BotsCall, SnapOK DEF TakeSave, At, PC, Given, Named, Using, Taking
    <2>3. QED
      BY <2>1, <2>2, <1>a, PutOK, BotsCall
<1>36. ASSUME NEW b \in Bots, Destroy(b)
      PROVE  OpsOK'
    BY <1>36, <1>a, <1>c, GoOK, DoneOK, BotsCall DEF Destroy, At, Exists, PC, Given, Named,
       Using, Taking
<1>37. ASSUME NEW b \in Bots, TakeBreaks(b)
      PROVE  OpsOK'
    BY <1>37, <1>a, <1>c, GoOK, DoneOK, BotsCall DEF TakeBreaks, At, Exists, PC, Given,
       Named, Using, Taking
<1>38. ASSUME NEW b \in Bots, TakeEnd(b)
      PROVE  OpsOK'
    BY <1>38, <1>a, TurnOK, DoneOK, BotsCall DEF TakeEnd, PC, Given, Named, Using, Provisioning
<1>39. ASSUME NEW b \in Bots, NEW mode \in Mode \ {"run"}, Request(b, mode)
      PROVE  OpsOK'
    <2>1. PICK o : /\ op' = [op EXCEPT ![Api(b)] = o]
                  /\ o = IF mode = "stop"
                         THEN [Quiet EXCEPT !.pc = "stop claiming", !.mode = mode,
                                            !.was = row.state, !.old = row.ref]
                         ELSE [Quiet EXCEPT !.pc = "leasing", !.mode = mode]
      BY <1>39 DEF Request
    <2>2. Fine(o)
      BY <1>39, <2>1, <1>e DEF Fine, Op, Quiet, State, PC, Given, Named, Using
    <2>3. QED
      BY <2>1, <2>2, <1>a, PutOK, BotsCall
<1>40. ASSUME SleepLook
      PROVE  OpsOK'
    BY <1>40, <1>b DEF SleepLook, machinery
<1>41. ASSUME SleepExport
      PROVE  OpsOK'
    BY <1>41, <1>b DEF SleepExport, machinery
<1>42. ASSUME SleepSave
      PROVE  OpsOK'
    BY <1>42, <1>b DEF SleepSave, machinery
<1>43. ASSUME SleepClaim
      PROVE  OpsOK'
    BY <1>43, <1>b DEF SleepClaim, machinery
<1>44. ASSUME SleepCheck
      PROVE  OpsOK'
    BY <1>44, <1>b DEF SleepCheck, machinery
<1>45. ASSUME SleepPower
      PROVE  OpsOK'
    BY <1>45, <1>b DEF SleepPower, machinery
<1>46. ASSUME SleepBreaks
      PROVE  OpsOK'
    BY <1>46, <1>b DEF SleepBreaks, machinery
<1>47. ASSUME SleepEnd
      PROVE  OpsOK'
    BY <1>47, <1>b DEF SleepEnd, machinery
<1>48. ASSUME SleepCrash
      PROVE  OpsOK'
    BY <1>48, <1>b DEF SleepCrash, machinery
<1>49. ASSUME NEW m \in Machines, Lose(m)
      PROVE  OpsOK'
    BY <1>49, <1>b DEF Lose, machinery
<1>50. CASE UNCHANGED vars
    BY <1>50, <1>b DEF vars
<1>51. QED
    BY <1>1, <1>2, <1>3, <1>4, <1>5, <1>6, <1>7, <1>8, <1>9, <1>10, <1>11, <1>12, <1>13,
       <1>14, <1>15, <1>16, <1>17, <1>18, <1>19, <1>20, <1>21, <1>22, <1>23, <1>24, <1>25,
       <1>26, <1>27, <1>28, <1>29, <1>30, <1>31, <1>32, <1>33, <1>34, <1>35, <1>36, <1>37,
       <1>38, <1>39, <1>40, <1>41, <1>42, <1>43, <1>44, <1>45, <1>46, <1>47, <1>48, <1>49,
       <1>50
    DEF Next, LeaseStep, BootStep, WorkStep, StopStep, TakeStep, SleepStep

\* What a step does to everything else keeps its type.
LEMMA RestTyped == ASSUME TypeOK, [Next]_vars PROVE RestOK'
<1>a. OpsOK /\ RestOK
  BY Parts
<1>c. \A c \in Callers :
        /\ op[c].pc \in Given => op[c].ref \in Machines
        /\ op[c].pc \in Named => op[c].old \in Machines
        /\ op[c].old \in Machines \cup {None}
        /\ op[c].snap \in SUBSET Scribes /\ op[c].was \in State
        /\ op[c].ref \in Machines \cup {None}
  BY <1>a DEF OpsOK, Fine, Op
<1>s. {"stopped", "booting", "running", "suspending", "suspended", "error"} \subseteq State
  BY DEF State
<1>z. ASSUME NEW r \in Row, Set(r)
      PROVE  row' \in Row /\ touched' \in BOOLEAN
  BY <1>z DEF Set, Touch
<1>t. ASSUME NEW s \in State, SetState(s)
      PROVE  row' \in Row /\ touched' \in BOOLEAN
  <2>1. [row EXCEPT !.state = s] \in Row
    BY <1>a DEF RestOK, Row
  <2>2. QED
    BY <2>1, <1>z, <1>t DEF SetState
<1>i. ASSUME NEW s, NEW t \in State, SetStateIf(s, t)
      PROVE  row' \in Row /\ touched' \in BOOLEAN
  BY <1>t, <1>i, <1>a DEF SetStateIf, RestOK
<1>k. KeepRow => row' \in Row /\ touched' \in BOOLEAN
  BY <1>a DEF KeepRow, RestOK
<1>f. Fault \/ Death => faults' \in [count : 0..MaxFaults, died : BOOLEAN]
  <2>1. faults \in [count : 0..MaxFaults, died : BOOLEAN] /\ MaxFaults \in Nat
    BY <1>a, ComputerConstantsOK DEF RestOK
  <2>2. Fault => faults' \in [count : 0..MaxFaults, died : BOOLEAN]
    BY <2>1 DEF Fault
  <2>3. Death => faults' \in [count : 0..MaxFaults, died : BOOLEAN]
    BY <2>1 DEF Death
  <2>4. QED
    BY <2>2, <2>3
<1>l. \A c \in Callers : Dropped(c) \in [Bots -> Lease]
  BY <1>a DEF Dropped, Mine, RestOK, Lease, NoLease, Callers
<1>n. \A b \in Bots : [lease EXCEPT ![b] = NoLease] \in [Bots -> Lease]
  BY <1>a DEF RestOK, Lease, NoLease
<1>o. \A c \in Callers :
        [lease EXCEPT ![c[2]] = [by |-> c[1], live |-> TRUE]] \in [Bots -> Lease]
  <2>1. \A c \in Callers : c[1] \in {"worker", "api"} /\ c[2] \in Bots
    BY DEF Callers
  <2>2. \A c \in Callers : [by |-> c[1], live |-> TRUE] \in Lease
    BY <2>1 DEF Lease
  <2>3. QED
    BY <2>1, <2>2, <1>a DEF RestOK
<1>w. \A m \in Machines : Wake(m) \/ Off(m) => power' \in [Machines -> {"on", "off", "gone"}]
  BY <1>a DEF Wake, Off, RestOK
<1>y. /\ Awake \in Sleep /\ Awake.pc = "idle"
      /\ sleep.snap \in SUBSET Scribes
      /\ \A p \in {"sleep checking", "sleep powering", "sleep ending"} :
           /\ [sleep EXCEPT !.pc = p] \in Sleep
           /\ [sleep EXCEPT !.pc = p].ref = sleep.ref
  BY <1>a DEF RestOK, Sleep, Sleeping, Awake
<1>m. \A r \in Machines \cup {None} : [state |-> "running", ref |-> r] \in Row
      /\ [state |-> "error", ref |-> r] \in Row /\ [state |-> "stopped", ref |-> r] \in Row
  BY <1>s DEF Row
<1>1. ASSUME NEW c \in Callers, TakeLease(c)
      PROVE  RestOK'
    BY <1>1, <1>a, <1>o DEF TakeLease, RestOK, machinery
<1>2. ASSUME NEW c \in Callers, CheckLease(c)
      PROVE  RestOK'
    BY <1>2, <1>a, <1>l DEF CheckLease, RestOK, machinery
<1>3. ASSUME NEW c \in Callers, Leave(c)
      PROVE  RestOK'
    BY <1>3, <1>a, <1>l DEF Leave, RestOK, machinery
<1>4. ASSUME NEW c \in Callers, Look(c)
      PROVE  RestOK'
    BY <1>4, <1>a DEF Look, RestOK, machinery
<1>5. ASSUME NEW c \in Callers, Wait(c)
      PROVE  RestOK'
    BY <1>5, <1>a DEF Wait, RestOK, machinery
<1>6. ASSUME NEW c \in Callers, Claim(c)
      PROVE  RestOK'
    BY <1>6, <1>a, <1>t, <1>k, <1>s DEF Claim, RestOK, machinery
<1>7. ASSUME NEW c \in Callers, Start(c)
      PROVE  RestOK'
    BY <1>7, <1>a, <1>w DEF Start, RestOK, machinery, Provisioned
<1>8. ASSUME NEW c \in Callers, Prepare(c)
      PROVE  RestOK'
    BY <1>8, <1>a, <1>c DEF Prepare, RestOK, machinery, At, Exists, Given, Named, Using
<1>9. ASSUME NEW c \in Callers, Activate(c)
      PROVE  RestOK'
    BY <1>9, <1>a, <1>c, <1>z, <1>k, <1>m DEF Activate, RestOK, machinery, At, Exists,
       Given, Named, Using
<1>10. ASSUME NEW c \in Callers, BootFails(c)
      PROVE  RestOK'
    BY <1>10, <1>a, <1>f DEF BootFails, RestOK, machinery
<1>11. ASSUME NEW c \in Callers, Undo(c)
      PROVE  RestOK'
    BY <1>11, <1>a, <1>c, <1>w, <1>f DEF Undo, RestOK, machinery, At, Exists, Given, Named,
       Using
<1>12. ASSUME NEW c \in Callers, Fail(c)
      PROVE  RestOK'
    BY <1>12, <1>a, <1>c, <1>z, <1>k, <1>m, <1>t, <1>s DEF Fail, RestOK, machinery, At,
       Exists, Given, Named, Using
<1>13. ASSUME NEW c \in Callers, Reconnect(c)
      PROVE  RestOK'
    BY <1>13, <1>a, <1>w DEF Reconnect, RestOK, machinery, Provisioned
<1>14. ASSUME NEW c \in Callers, Crash(c)
      PROVE  RestOK'
    BY <1>14, <1>a, <1>f DEF Crash, RestOK, machinery
<1>15. ASSUME NEW b \in Bots, Message(b)
      PROVE  RestOK'
    BY <1>15, <1>a DEF Message, RestOK, machinery, Run
<1>16. ASSUME NEW b \in Bots, Cancel(b)
      PROVE  RestOK'
    BY <1>16, <1>a DEF Cancel, RestOK, machinery, Run
<1>17. ASSUME NEW b \in Bots, Begin(b)
      PROVE  RestOK'
    BY <1>17, <1>a DEF Begin, RestOK, machinery, Run
<1>18. ASSUME NEW b \in Bots, Expire(b)
      PROVE  RestOK'
    BY <1>18, <1>a DEF Expire, RestOK, machinery, Lease
<1>19. ASSUME NEW b \in Bots, Work(b)
      PROVE  RestOK'
    BY <1>19, <1>a, <1>c, <1>w, BotsCall DEF Work, RestOK, machinery, At, Exists, Given,
       Named, Using
<1>20. ASSUME NEW b \in Bots, Export(b)
      PROVE  RestOK'
    BY <1>20, <1>a, <1>c, <1>w, BotsCall DEF Export, RestOK, machinery, At, Exists, Given,
       Named, Using
<1>21. ASSUME NEW b \in Bots, Save(b)
      PROVE  RestOK'
    BY <1>21, <1>a, <1>c, BotsCall DEF Save, RestOK, machinery, Touch
<1>22. ASSUME NEW b \in Bots, Falter(b)
      PROVE  RestOK'
    BY <1>22, <1>a, <1>f DEF Falter, RestOK, machinery
<1>23. ASSUME NEW b \in Bots, Finish(b)
      PROVE  RestOK'
    BY <1>23, <1>a DEF Finish, RestOK, machinery, Run
<1>24. ASSUME NEW b \in Bots, StopClaim(b)
      PROVE  RestOK'
    BY <1>24, <1>a, <1>t, <1>k, <1>s DEF StopClaim, RestOK, machinery
<1>25. ASSUME NEW b \in Bots, StopCheck(b)
      PROVE  RestOK'
    <2>1. row' \in Row /\ touched' \in BOOLEAN
      BY <1>25, <1>c, <1>i, <1>k, BotsCall DEF StopCheck
    <2>2. lease' \in [Bots -> Lease]
      BY <1>25, <1>a, <1>n DEF StopCheck, RestOK
    <2>3. UNCHANGED <<run, power, disk, home, sleep, requests, faults>>
      BY <1>25 DEF StopCheck, machinery
    <2>4. QED
      BY <2>1, <2>2, <2>3, <1>a DEF RestOK
<1>26. ASSUME NEW b \in Bots, StopExport(b)
      PROVE  RestOK'
    BY <1>26, <1>a, <1>c, <1>w, BotsCall DEF StopExport, RestOK, machinery, At, Exists,
       Given, Named, Using
<1>27. ASSUME NEW b \in Bots, StopSave(b)
      PROVE  RestOK'
    BY <1>27, <1>a, <1>c, BotsCall DEF StopSave, RestOK, machinery, Touch
<1>28. ASSUME NEW b \in Bots, StopPower(b)
      PROVE  RestOK'
    BY <1>28, <1>a, <1>c, <1>w, BotsCall DEF StopPower, RestOK, machinery, At, Exists,
       Given, Named, Using
<1>29. ASSUME NEW b \in Bots, StopBreaks(b)
      PROVE  RestOK'
    BY <1>29, <1>a, <1>f DEF StopBreaks, RestOK, machinery
<1>30. ASSUME NEW b \in Bots, StopEnd(b)
      PROVE  RestOK'
    BY <1>30, <1>a, <1>t, <1>i, <1>s DEF StopEnd, RestOK, machinery
<1>31. ASSUME NEW b \in Bots, TakeLook(b)
      PROVE  RestOK'
    BY <1>31, <1>a DEF TakeLook, RestOK, machinery
<1>32. ASSUME NEW b \in Bots, TakeClaim(b)
      PROVE  RestOK'
    BY <1>32, <1>a, <1>t, <1>k, <1>s DEF TakeClaim, RestOK, machinery
<1>33. ASSUME NEW b \in Bots, TakeCheck(b)
      PROVE  RestOK'
    BY <1>33, <1>a, <1>c, <1>i, <1>k, BotsCall DEF TakeCheck, RestOK, machinery
<1>34. ASSUME NEW b \in Bots, TakeExport(b)
      PROVE  RestOK'
    BY <1>34, <1>a, <1>c, <1>w, BotsCall DEF TakeExport, RestOK, machinery, At, Exists,
       Given, Named, Using
<1>35. ASSUME NEW b \in Bots, TakeSave(b)
      PROVE  RestOK'
    BY <1>35, <1>a, <1>c, BotsCall DEF TakeSave, RestOK, machinery, Touch
<1>36. ASSUME NEW b \in Bots, Destroy(b)
      PROVE  RestOK'
    BY <1>36, <1>a, <1>c, BotsCall DEF Destroy, RestOK, machinery, At, Exists, Given, Named,
       Using
<1>37. ASSUME NEW b \in Bots, TakeBreaks(b)
      PROVE  RestOK'
    BY <1>37, <1>a, <1>f DEF TakeBreaks, RestOK, machinery
<1>38. ASSUME NEW b \in Bots, TakeEnd(b)
      PROVE  RestOK'
    BY <1>38, <1>a, <1>z, <1>m, <1>t, <1>s DEF TakeEnd, RestOK, machinery
<1>39. ASSUME NEW b \in Bots, NEW mode \in Mode \ {"run"}, Request(b, mode)
      PROVE  RestOK'
    BY <1>39, <1>a, ComputerConstantsOK DEF Request, RestOK, machinery
<1>40. ASSUME SleepLook
      PROVE  RestOK'
    BY <1>40, <1>a DEF SleepLook, RestOK, machinery, Sleep, Awake, Running, Row
<1>41. ASSUME SleepExport
      PROVE  RestOK'
    BY <1>41, <1>a, <1>w, <1>y DEF SleepExport, RestOK, machinery, Sleep, Exists
<1>42. ASSUME SleepSave
      PROVE  RestOK'
    BY <1>42, <1>a, <1>y DEF SleepSave, RestOK, machinery, Sleep
<1>43. ASSUME SleepClaim
      PROVE  RestOK'
    BY <1>43, <1>a, <1>y, <1>s DEF SleepClaim, RestOK, machinery, Row, State, Running
<1>44. ASSUME SleepCheck
      PROVE  RestOK'
    BY <1>44, <1>a, <1>y, <1>i, <1>k, <1>s DEF SleepCheck, RestOK, machinery
<1>45. ASSUME SleepPower
      PROVE  RestOK'
    BY <1>45, <1>a, <1>y, <1>w DEF SleepPower, RestOK, machinery
<1>46. ASSUME SleepBreaks
      PROVE  RestOK'
    BY <1>46, <1>a, <1>y, <1>f, <1>i, <1>s DEF SleepBreaks, RestOK, machinery
<1>47. ASSUME SleepEnd
      PROVE  RestOK'
    BY <1>47, <1>a, <1>y, <1>t, <1>s DEF SleepEnd, RestOK, machinery
<1>48. ASSUME SleepCrash
      PROVE  RestOK'
    BY <1>48, <1>a, <1>y, <1>f DEF SleepCrash, RestOK, machinery
<1>49. ASSUME NEW m \in Machines, Lose(m)
      PROVE  RestOK'
    BY <1>49, <1>a, <1>f DEF Lose, RestOK, machinery
<1>50. CASE UNCHANGED vars
    BY <1>50, <1>a DEF vars, machinery, RestOK
<1>51. QED
    BY <1>1, <1>2, <1>3, <1>4, <1>5, <1>6, <1>7, <1>8, <1>9, <1>10, <1>11, <1>12, <1>13,
       <1>14, <1>15, <1>16, <1>17, <1>18, <1>19, <1>20, <1>21, <1>22, <1>23, <1>24, <1>25,
       <1>26, <1>27, <1>28, <1>29, <1>30, <1>31, <1>32, <1>33, <1>34, <1>35, <1>36, <1>37,
       <1>38, <1>39, <1>40, <1>41, <1>42, <1>43, <1>44, <1>45, <1>46, <1>47, <1>48, <1>49,
       <1>50
    DEF Next, LeaseStep, BootStep, WorkStep, StopStep, TakeStep, SleepStep

\* Nothing has happened yet.
LEMMA InitTyped == ASSUME Init PROVE TypeOK
<1>1. Fine(Quiet)
  BY DEF Fine, Op, Quiet, Mode, State, PC, Given, Named, Using
<1>2. OpsOK
  BY <1>1 DEF Init, OpsOK, Fine
<1>3. row \in Row /\ touched \in BOOLEAN
  BY DEF Init, Row, State
<1>4. lease \in [Bots -> Lease] /\ run \in [Bots -> Run]
  BY DEF Init, Lease, NoLease, Run
<1>5. sleep \in Sleep /\ sleep.pc = "idle"
  BY DEF Init, Sleep, Awake
<1>6. RestOK
  BY <1>3, <1>4, <1>5, ComputerConstantsOK DEF Init, RestOK
<1>7. QED
  BY <1>2, <1>6, Parts

\* Every step keeps what it types.
LEMMA StepTyped == ASSUME TypeOK, [Next]_vars PROVE TypeOK'
<1>1. OpsOK' /\ RestOK'
  BY OpsTyped, RestTyped
<1>2. QED
  BY <1>1 DEF TypeOK, OpsOK, RestOK, Fine

\* TypeOK is inductive: every step that works on a machine has been given one.
THEOREM TypesHold == Spec => []TypeOK
  BY InitTyped, StepTyped, PTL DEF Spec

-----------------------------------------------------------------------------
(* The order of the steps of an operation *)

\* Of all callers this one moves, from one of these steps to one of those.
Jump(c, From, To) ==
  /\ op[c].pc \in From
  /\ op'[c].pc \in To
  /\ \A d \in Callers \ {c} : op'[d] = op[d]

\* What the moves do to the program counters.
LEMMA Says ==
  ASSUME op \in [Callers -> Op], NEW c \in Callers
  PROVE  /\ \A p : Go(c, p) => Jump(c, {op[c].pc}, {p}) /\ op'[c].was = op[c].was
         /\ \A p : Turn(c, p) => Jump(c, {op[c].pc}, {p})
         /\ Through(c) => Jump(c, {op[c].pc}, {"leaving"})
         /\ Done(c) => Jump(c, {op[c].pc}, {"idle"})
         /\ Proceed(c) => Jump(c, {op[c].pc}, {"reconnecting", "claiming"})
         /\ \A m : Ready(c, m) => Jump(c, {op[c].pc}, {"working", "leaving"})
<1>1. ASSUME NEW p, Go(c, p)
      PROVE  Jump(c, {op[c].pc}, {p}) /\ op'[c].was = op[c].was
  BY <1>1 DEF Go, Jump, Op
<1>2. ASSUME NEW p, Turn(c, p)
      PROVE  Jump(c, {op[c].pc}, {p})
  BY <1>2 DEF Turn, Jump, Quiet
<1>3. Through(c) => Jump(c, {op[c].pc}, {"leaving"})
  BY <1>2 DEF Through
<1>4. Done(c) => Jump(c, {op[c].pc}, {"idle"})
  BY DEF Done, Jump, Quiet
<1>5. Proceed(c) => Jump(c, {op[c].pc}, {"reconnecting", "claiming"})
  BY DEF Proceed, Jump, Op
<1>6. ASSUME NEW m, Ready(c, m)
      PROVE  Jump(c, {op[c].pc}, {"working", "leaving"})
  BY <1>6, <1>3 DEF Ready, Jump, Quiet
<1>7. QED
  BY <1>1, <1>2, <1>3, <1>4, <1>5, <1>6

\* Where each step leads.
LEMMA Flow ==
  ASSUME TypeOK
  PROVE  /\ \A c \in Callers : TakeLease(c) => Jump(c, {"leasing"}, {"idle", "checking"})
         /\ \A c \in Callers : CheckLease(c) => Jump(c, {"checking"}, {"idle", "replacing", "looking"})
         /\ \A c \in Callers : Leave(c) => Jump(c, {"leaving"}, {"idle"})
         /\ \A c \in Callers : Look(c) => Jump(c, {"looking"}, {"waiting", "reconnecting", "claiming"})
         /\ \A c \in Callers : Wait(c) => Jump(c, {"waiting"}, {"reconnecting", "claiming"})
         /\ \A c \in Callers : Claim(c) => Jump(c, {"claiming"}, {"starting", "leaving"})
         /\ \A c \in Callers : Start(c) => Jump(c, {"starting"}, {"preparing"})
         /\ \A c \in Callers : Prepare(c) => Jump(c, {"preparing"}, {"activating"})
         /\ \A c \in Callers : Activate(c) => Jump(c, {"activating"}, {"working", "leaving", "undoing"})
         /\ \A c \in Callers : BootFails(c) => Jump(c, {"starting", "preparing"}, {"failing", "undoing"})
         /\ \A c \in Callers : Undo(c) => Jump(c, {"undoing"}, {"failing", "keeping"})
         /\ \A c \in Callers : Fail(c) => Jump(c, {"failing", "keeping"}, {"leaving"})
         /\ \A c \in Callers : Reconnect(c) => Jump(c, {"reconnecting"}, {"working", "leaving"})
         /\ \A b \in Bots : Begin(b) => Jump(Worker(b), {"idle"}, {"leasing"})
         /\ \A b \in Bots : Export(b) => Jump(Worker(b), {"working"}, {"saving"})
         /\ \A b \in Bots : Save(b) => Jump(Worker(b), {"saving"}, {"saved"})
         /\ \A b \in Bots : Falter(b) => Jump(Worker(b), {"working"}, {"saved"})
         /\ \A b \in Bots : Finish(b) => Jump(Worker(b), {"saved"}, {"leaving"})
         /\ \A b \in Bots : StopClaim(b) => Jump(Api(b), {"stop claiming"}, {"stop checking", "idle"})
         /\ \A b \in Bots : StopCheck(b) => Jump(Api(b), {"stop checking"}, {"idle", "stop ending", "stop exporting"})
         /\ \A b \in Bots : StopExport(b) => Jump(Api(b), {"stop exporting"}, {"stop saving"})
         /\ \A b \in Bots : StopSave(b) => Jump(Api(b), {"stop saving"}, {"stop powering"})
         /\ \A b \in Bots : StopPower(b) => Jump(Api(b), {"stop powering"}, {"stop ending"})
         /\ \A b \in Bots : StopBreaks(b) => Jump(Api(b), {"stop exporting", "stop powering"}, {"stop failing"})
         /\ \A b \in Bots : StopEnd(b) => Jump(Api(b), {"stop ending", "stop failing"}, {"idle"})
         /\ \A b \in Bots : TakeLook(b) => Jump(Api(b), {"replacing"}, {"take claiming", "leaving"})
         /\ \A b \in Bots : TakeClaim(b) => Jump(Api(b), {"take claiming"}, {"take checking", "leaving"})
         /\ \A b \in Bots : TakeCheck(b) => Jump(Api(b), {"take checking"}, {"clearing", "take exporting", "destroying", "leaving"})
         /\ \A b \in Bots : TakeExport(b) => Jump(Api(b), {"take exporting"}, {"take saving"})
         /\ \A b \in Bots : TakeSave(b) => Jump(Api(b), {"take saving"}, {"destroying"})
         /\ \A b \in Bots : Destroy(b) => Jump(Api(b), {"destroying"}, {"clearing"})
         /\ \A b \in Bots : TakeBreaks(b) => Jump(Api(b), {"take exporting", "destroying"}, {"clearing", "destroying", "take failing"})
         /\ \A b \in Bots : TakeEnd(b) => Jump(Api(b), {"clearing", "take failing"}, {"looking", "leaving"})
<1>a. op \in [Callers -> Op]
  BY DEF TypeOK
<1>b. \A b \in Bots : Worker(b) \in Callers /\ Api(b) \in Callers
  BY BotsCall
<1>1. ASSUME NEW c \in Callers, TakeLease(c)
      PROVE  Jump(c, {"leasing"}, {"idle", "checking"})
  BY <1>1, <1>a, Says DEF TakeLease, At, Jump
<1>2. ASSUME NEW c \in Callers, CheckLease(c)
      PROVE  Jump(c, {"checking"}, {"idle", "replacing", "looking"})
  BY <1>2, <1>a, Says DEF CheckLease, At, Jump
<1>3. ASSUME NEW c \in Callers, Leave(c)
      PROVE  Jump(c, {"leaving"}, {"idle"})
  BY <1>3, <1>a, Says DEF Leave, At, Jump
<1>4. ASSUME NEW c \in Callers, Look(c)
      PROVE  Jump(c, {"looking"}, {"waiting", "reconnecting", "claiming"})
  <2>1. op[c].pc = "looking" /\ (Proceed(c) \/ \E p \in {"waiting"} : Go(c, p))
    BY <1>4 DEF Look, At
  <2>2. QED
    BY <2>1, <1>a, <1>b, Says DEF Jump
<1>5. ASSUME NEW c \in Callers, Wait(c)
      PROVE  Jump(c, {"waiting"}, {"reconnecting", "claiming"})
  BY <1>5, <1>a, Says DEF Wait, At, Jump
<1>6. ASSUME NEW c \in Callers, Claim(c)
      PROVE  Jump(c, {"claiming"}, {"starting", "leaving"})
  BY <1>6, <1>a, Says DEF Claim, At, Jump
<1>7. ASSUME NEW c \in Callers, Start(c)
      PROVE  Jump(c, {"starting"}, {"preparing"})
  BY <1>7, <1>a DEF Start, At, Jump
<1>8. ASSUME NEW c \in Callers, Prepare(c)
      PROVE  Jump(c, {"preparing"}, {"activating"})
  BY <1>8, <1>a, Says DEF Prepare, At, Jump
<1>9. ASSUME NEW c \in Callers, Activate(c)
      PROVE  Jump(c, {"activating"}, {"working", "leaving", "undoing"})
  BY <1>9, <1>a, Says DEF Activate, At, Jump
<1>10. ASSUME NEW c \in Callers, BootFails(c)
      PROVE  Jump(c, {"starting", "preparing"}, {"failing", "undoing"})
  BY <1>10, <1>a, Says DEF BootFails, At, Jump
<1>11. ASSUME NEW c \in Callers, Undo(c)
      PROVE  Jump(c, {"undoing"}, {"failing", "keeping"})
  BY <1>11, <1>a, Says DEF Undo, At, Jump
<1>12. ASSUME NEW c \in Callers, Fail(c)
      PROVE  Jump(c, {"failing", "keeping"}, {"leaving"})
  BY <1>12, <1>a, Says DEF Fail, At, Jump
<1>13. ASSUME NEW c \in Callers, Reconnect(c)
      PROVE  Jump(c, {"reconnecting"}, {"working", "leaving"})
  BY <1>13, <1>a, Says DEF Reconnect, At, Jump
<1>14. ASSUME NEW b \in Bots, Begin(b)
      PROVE  Jump(Worker(b), {"idle"}, {"leasing"})
  BY <1>14, <1>a, Says, BotsCall DEF Begin, At, Jump
<1>15. ASSUME NEW b \in Bots, Export(b)
      PROVE  Jump(Worker(b), {"working"}, {"saving"})
  <2>1. op' = [op EXCEPT ![Worker(b)] = [op[Worker(b)] EXCEPT !.pc = "saving", !.snap = disk[op[Worker(b)].ref]]]
    BY <1>15 DEF Export
  <2>2. [op[Worker(b)] EXCEPT !.pc = "saving", !.snap = disk[op[Worker(b)].ref]].pc = "saving"
    BY <1>a, <1>b DEF Op
  <2>3. QED
    BY <1>15, <2>1, <2>2, <1>a, <1>b DEF Export, At, Jump
<1>16. ASSUME NEW b \in Bots, Save(b)
      PROVE  Jump(Worker(b), {"saving"}, {"saved"})
  BY <1>16, <1>a, Says, BotsCall DEF Save, At, Jump
<1>17. ASSUME NEW b \in Bots, Falter(b)
      PROVE  Jump(Worker(b), {"working"}, {"saved"})
  BY <1>17, <1>a, Says, BotsCall DEF Falter, At, Jump
<1>18. ASSUME NEW b \in Bots, Finish(b)
      PROVE  Jump(Worker(b), {"saved"}, {"leaving"})
  BY <1>18, <1>a, Says, BotsCall DEF Finish, At, Jump
<1>19. ASSUME NEW b \in Bots, StopClaim(b)
      PROVE  Jump(Api(b), {"stop claiming"}, {"stop checking", "idle"})
  BY <1>19, <1>a, Says, BotsCall DEF StopClaim, At, Jump
<1>20. ASSUME NEW b \in Bots, StopCheck(b)
      PROVE  Jump(Api(b), {"stop checking"}, {"idle", "stop ending", "stop exporting"})
  <2>1. op[Api(b)].pc = "stop checking" /\ (Done(Api(b)) \/ \E p \in {"stop ending", "stop exporting"} : Go(Api(b), p))
    BY <1>20 DEF StopCheck, At
  <2>2. QED
    BY <2>1, <1>a, <1>b, Says DEF Jump
<1>21. ASSUME NEW b \in Bots, StopExport(b)
      PROVE  Jump(Api(b), {"stop exporting"}, {"stop saving"})
  <2>1. op' = [op EXCEPT ![Api(b)] = [op[Api(b)] EXCEPT !.pc = "stop saving", !.snap = disk[op[Api(b)].old]]]
    BY <1>21 DEF StopExport
  <2>2. [op[Api(b)] EXCEPT !.pc = "stop saving", !.snap = disk[op[Api(b)].old]].pc = "stop saving"
    BY <1>a, <1>b DEF Op
  <2>3. QED
    BY <1>21, <2>1, <2>2, <1>a, <1>b DEF StopExport, At, Jump
<1>22. ASSUME NEW b \in Bots, StopSave(b)
      PROVE  Jump(Api(b), {"stop saving"}, {"stop powering"})
  <2>1. op' = [op EXCEPT ![Api(b)] = [op[Api(b)] EXCEPT !.pc = "stop powering", !.snap = {}]]
    BY <1>22 DEF StopSave
  <2>2. [op[Api(b)] EXCEPT !.pc = "stop powering", !.snap = {}].pc = "stop powering"
    BY <1>a, <1>b DEF Op
  <2>3. QED
    BY <1>22, <2>1, <2>2, <1>a, <1>b DEF StopSave, At, Jump
<1>23. ASSUME NEW b \in Bots, StopPower(b)
      PROVE  Jump(Api(b), {"stop powering"}, {"stop ending"})
  BY <1>23, <1>a, Says, BotsCall DEF StopPower, At, Jump
<1>24. ASSUME NEW b \in Bots, StopBreaks(b)
      PROVE  Jump(Api(b), {"stop exporting", "stop powering"}, {"stop failing"})
  BY <1>24, <1>a, Says, BotsCall DEF StopBreaks, At, Jump
<1>25. ASSUME NEW b \in Bots, StopEnd(b)
      PROVE  Jump(Api(b), {"stop ending", "stop failing"}, {"idle"})
  BY <1>25, <1>a, Says, BotsCall DEF StopEnd, At, Jump
<1>26. ASSUME NEW b \in Bots, TakeLook(b)
      PROVE  Jump(Api(b), {"replacing"}, {"take claiming", "leaving"})
  <2>1. CASE Through(Api(b))
    BY <1>26, <2>1, <1>a, <1>b, Says DEF TakeLook, At, Jump
  <2>2. CASE ~Through(Api(b))
    <3>1. op' = [op EXCEPT ![Api(b)] = [op[Api(b)] EXCEPT !.pc = "take claiming",
                                          !.was = row.state, !.old = row.ref]]
      BY <1>26, <2>2 DEF TakeLook
    <3>2. op[Api(b)] \in Op
      BY <1>a, <1>b
    <3>3. QED
      BY <1>26, <3>1, <3>2, <1>a, <1>b DEF TakeLook, At, Jump, Op
  <2>3. QED
    BY <2>1, <2>2
<1>27. ASSUME NEW b \in Bots, TakeClaim(b)
      PROVE  Jump(Api(b), {"take claiming"}, {"take checking", "leaving"})
  BY <1>27, <1>a, Says, BotsCall DEF TakeClaim, At, Jump
<1>28. ASSUME NEW b \in Bots, TakeCheck(b)
      PROVE  Jump(Api(b), {"take checking"}, {"clearing", "take exporting", "destroying", "leaving"})
  <2>1. op[Api(b)].pc = "take checking" /\ (Through(Api(b)) \/ \E p \in {"clearing", "take exporting", "destroying"} : Go(Api(b), p))
    BY <1>28 DEF TakeCheck, At
  <2>2. QED
    BY <2>1, <1>a, <1>b, Says DEF Jump
<1>29. ASSUME NEW b \in Bots, TakeExport(b)
      PROVE  Jump(Api(b), {"take exporting"}, {"take saving"})
  <2>1. op' = [op EXCEPT ![Api(b)] = [op[Api(b)] EXCEPT !.pc = "take saving", !.snap = disk[op[Api(b)].old]]]
    BY <1>29 DEF TakeExport
  <2>2. [op[Api(b)] EXCEPT !.pc = "take saving", !.snap = disk[op[Api(b)].old]].pc = "take saving"
    BY <1>a, <1>b DEF Op
  <2>3. QED
    BY <1>29, <2>1, <2>2, <1>a, <1>b DEF TakeExport, At, Jump
<1>30. ASSUME NEW b \in Bots, TakeSave(b)
      PROVE  Jump(Api(b), {"take saving"}, {"destroying"})
  <2>1. op' = [op EXCEPT ![Api(b)] = [op[Api(b)] EXCEPT !.pc = "destroying", !.snap = {}]]
    BY <1>30 DEF TakeSave
  <2>2. [op[Api(b)] EXCEPT !.pc = "destroying", !.snap = {}].pc = "destroying"
    BY <1>a, <1>b DEF Op
  <2>3. QED
    BY <1>30, <2>1, <2>2, <1>a, <1>b DEF TakeSave, At, Jump
<1>31. ASSUME NEW b \in Bots, Destroy(b)
      PROVE  Jump(Api(b), {"destroying"}, {"clearing"})
  BY <1>31, <1>a, Says, BotsCall DEF Destroy, At, Jump
<1>32. ASSUME NEW b \in Bots, TakeBreaks(b)
      PROVE  Jump(Api(b), {"take exporting", "destroying"}, {"clearing", "destroying", "take failing"})
  <2>1. \E p \in {"clearing", "destroying", "take failing"} : Go(Api(b), p)
    BY <1>32 DEF TakeBreaks
  <2>2. QED
    BY <1>32, <2>1, <1>a, <1>b, Says DEF TakeBreaks, Jump
<1>33. ASSUME NEW b \in Bots, TakeEnd(b)
      PROVE  Jump(Api(b), {"clearing", "take failing"}, {"looking", "leaving"})
  BY <1>33, <1>a, Says, BotsCall DEF TakeEnd, At, Jump
<1>34. QED
  BY <1>1, <1>2, <1>3, <1>4, <1>5, <1>6, <1>7, <1>8, <1>9, <1>10, <1>11, <1>12, <1>13,
     <1>14, <1>15, <1>16, <1>17, <1>18, <1>19, <1>20, <1>21, <1>22, <1>23, <1>24, <1>25,
     <1>26, <1>27, <1>28, <1>29, <1>30, <1>31, <1>32, <1>33

\* Where a request starts.
LEMMA RequestFlow ==
  ASSUME TypeOK, NEW b \in Bots, NEW mode \in Mode, Request(b, mode)
  PROVE  Jump(Api(b), {"idle"}, {"leasing", "stop claiming"})
  BY BotsCall DEF TypeOK, Request, Jump, At, Quiet

-----------------------------------------------------------------------------
(* Teardowns serialize *)

\* A replacement has read a state that no boot and no teardown has claimed.
ClaimsFresh ==
  \A c \in Callers : At(c, "take claiming") => op[c].was \notin {"booting", "suspending"}

TeardownInv == TypeOK /\ OneTeardown /\ ClaimsFresh

\* What a step of a worker or of a request does to the state that teardowns claim.
Moves(c) ==
  /\ \A d \in Callers \ {c} : op'[d] = op[d]
  /\ sleep'.pc = sleep.pc
  /\ op'[c].pc \in Stopping \cup Taking =>
       \/ Tearing(c) /\ row'.state = row.state
       \/ ~Suspending /\ row'.state = "suspending"
  /\ row'.state = row.state \/ Tearing(c) \/ ~Suspending
  /\ op'[c].pc = "take claiming" => op'[c].was \notin {"booting", "suspending"}

\* Such a step keeps the invariant: it writes the state only when it holds the claim
\* or nobody does.
LEMMA MovesKeep ==
  ASSUME TeardownInv, TypeOK', NEW c \in Callers, Moves(c)
  PROVE  TeardownInv'
<1>1. ClaimsFresh'
  BY DEF TeardownInv, ClaimsFresh, Moves, At
<1>2. ASSUME NEW d \in Callers, op'[d].pc \in Stopping \cup Taking, d # c
      PROVE  Tearing(d) /\ ~Tearing(c) /\ row.state = "suspending" /\ row'.state = row.state
  BY <1>2 DEF TeardownInv, OneTeardown, Moves, Tearing, Suspending
<1>3. ASSUME op'[c].pc \in Stopping \cup Taking
      PROVE  row'.state = "suspending" /\ sleep'.pc \notin Sleeping
  BY <1>3 DEF TeardownInv, OneTeardown, Moves, Suspending
<1>4. ASSUME NEW d \in Callers, op'[d].pc \in Stopping \cup Taking, d # c
      PROVE  op'[c].pc \notin Stopping \cup Taking
  BY <1>2, <1>4 DEF Moves, Suspending
<1>5. ASSUME sleep'.pc \in Sleeping
      PROVE  /\ row'.state = "suspending"
             /\ \A d \in Callers : op'[d].pc \notin Stopping \cup Taking
  BY <1>5, <1>2, <1>3 DEF TeardownInv, OneTeardown, Moves, Tearing, Suspending
<1>6. ASSUME NEW d \in Callers, NEW e \in Callers, op'[d].pc \in Stopping \cup Taking,
             op'[e].pc \in Stopping \cup Taking
      PROVE  d = e
  <2>1. CASE d = c \/ e = c
    BY <2>1, <1>4, <1>6
  <2>2. CASE d # c /\ e # c
    BY <2>2, <1>2, <1>6 DEF TeardownInv, OneTeardown
  <2>3. QED
    BY <2>1, <2>2
<1>7. ASSUME NEW d \in Callers, op'[d].pc \in Stopping \cup Taking
      PROVE  row'.state = "suspending" /\ sleep'.pc \notin Sleeping
  BY <1>2, <1>3, <1>5, <1>7
<1>8. OneTeardown'
  BY <1>5, <1>6, <1>7 DEF OneTeardown, Tearing
<1>9. QED
  BY <1>1, <1>8 DEF TeardownInv

\* What the idle job does keeps it: it claims a state that nobody has claimed, and
\* gives it back.
LEMMA SleepKeeps == ASSUME TeardownInv, TypeOK', SleepStep PROVE TeardownInv'
<1>1. UNCHANGED op
  BY DEF SleepStep, SleepLook, SleepExport, SleepSave, SleepClaim, SleepCheck, SleepPower,
         SleepBreaks, SleepEnd, SleepCrash, machinery
<1>2. ClaimsFresh'
  BY <1>1 DEF TeardownInv, ClaimsFresh, At
<1>3. row.state \in State /\ row \in Row /\ sleep \in Sleep
  BY DEF TeardownInv, TypeOK, Row
<1>4. OneTeardown'
  <2>0. /\ \A s \in State : SetState(s) => row'.state = s
        /\ \A s \in State : \A t : SetStateIf(t, s) =>
             row'.state = IF row.state = t THEN s ELSE row.state
        /\ KeepRow => row' = row
        /\ {"running", "suspended"} \subseteq State
    BY <1>3 DEF SetState, SetStateIf, Set, KeepRow, Row, State
  <2>h. Sleeping = {"sleep checking", "sleep powering", "sleep ending"} /\ Awake.pc = "idle"
    BY DEF Sleeping, Awake
  <2>p. \A p : [sleep EXCEPT !.pc = p].pc = p /\ [Awake EXCEPT !.pc = p, !.ref = row.ref].pc = p
               /\ \A s : [sleep EXCEPT !.pc = p, !.snap = s].pc = p
    BY <1>3 DEF Sleep, Awake
  <2>t. \/ sleep.pc \notin Sleeping /\ sleep'.pc \notin Sleeping /\ row' = row
        \/ sleep.pc \notin Sleeping /\ sleep'.pc \in Sleeping
             /\ row.state = "running" /\ row'.state = "suspending"
        \/ sleep.pc \in Sleeping /\ sleep'.pc \in Sleeping /\ row' = row
        \/ sleep.pc \in Sleeping /\ sleep'.pc \notin Sleeping
    <3>1. CASE SleepLook
      <4>1. row' = row /\ sleep.pc = "idle"
        BY <3>1 DEF SleepLook, machinery
      <4>2. sleep'.pc = "sleep exporting"
        BY <3>1, <1>3 DEF SleepLook, Sleep, Awake
      <4>3. QED
        BY <4>1, <4>2, <2>h
    <3>2. CASE SleepExport
      <4>1. row' = row /\ sleep.pc = "sleep exporting"
        BY <3>2 DEF SleepExport
      <4>2. \A s : [sleep EXCEPT !.pc = "sleep saving", !.snap = s].pc = "sleep saving"
        BY <1>3 DEF Sleep
      <4>3. sleep'.pc = "sleep saving" \/ sleep'.pc = "idle"
        <5>1. CASE Exists(sleep.ref)
          BY <3>2, <5>1, <4>2 DEF SleepExport
        <5>2. CASE ~Exists(sleep.ref)
          BY <3>2, <5>2, <2>h DEF SleepExport
        <5>3. QED
          BY <5>1, <5>2
      <4>4. QED
        BY <4>1, <4>3, <2>h
    <3>3. CASE SleepSave
      <4>1. row' = row /\ sleep.pc = "sleep saving"
        BY <3>3 DEF SleepSave, machinery
      <4>2. sleep'.pc = "sleep claiming"
        BY <3>3, <1>3 DEF SleepSave, Sleep, Awake
      <4>3. QED
        BY <4>1, <4>2, <2>h
    <3>4. CASE SleepClaim
      BY <3>4, <2>h, <2>p, <1>3 DEF SleepClaim, machinery, Row, Running
    <3>5. CASE SleepCheck
      BY <3>5, <2>h, <2>p, <2>0 DEF SleepCheck, machinery
    <3>6. CASE SleepPower
      BY <3>6, <2>h, <2>p DEF SleepPower, machinery
    <3>7. CASE SleepBreaks
      BY <3>7, <2>h DEF SleepBreaks, machinery
    <3>8. CASE SleepEnd
      BY <3>8, <2>h DEF SleepEnd, machinery
    <3>9. CASE SleepCrash
      BY <3>9, <2>h DEF SleepCrash, machinery
    <3>10. QED
      BY <3>1, <3>2, <3>3, <3>4, <3>5, <3>6, <3>7, <3>8, <3>9 DEF SleepStep
  <2>1. ASSUME sleep.pc \notin Sleeping, sleep'.pc \notin Sleeping
        PROVE  row'.state = row.state
    BY <2>1, <2>t
  <2>2. ASSUME sleep.pc \notin Sleeping, sleep'.pc \in Sleeping
        PROVE  row.state = "running" /\ row'.state = "suspending"
    BY <2>2, <2>t
  <2>3. ASSUME sleep.pc \in Sleeping, sleep'.pc \in Sleeping
        PROVE  row'.state = row.state
    BY <2>3, <2>t
  <2>4. CASE sleep.pc \notin Sleeping /\ sleep'.pc \notin Sleeping
    BY <2>4, <2>1, <1>1 DEF TeardownInv, OneTeardown, Tearing
  <2>5. CASE sleep.pc \notin Sleeping /\ sleep'.pc \in Sleeping
    BY <2>5, <2>2, <1>1 DEF TeardownInv, OneTeardown, Tearing
  <2>6. CASE sleep.pc \in Sleeping /\ sleep'.pc \in Sleeping
    BY <2>6, <2>3, <1>1 DEF TeardownInv, OneTeardown, Tearing
  <2>7. CASE sleep.pc \in Sleeping /\ sleep'.pc \notin Sleeping
    BY <2>7, <1>1 DEF TeardownInv, OneTeardown, Tearing
  <2>8. QED
    BY <2>4, <2>5, <2>6, <2>7
<1>5. QED
  BY <1>2, <1>4 DEF TeardownInv

\* Every step of Next keeps it.
LEMMA TeardownInductive == ASSUME TeardownInv, [Next]_vars, TypeOK' PROVE TeardownInv'
<1>a. op \in [Callers -> Op] /\ row.state \in State /\ ClaimsFresh
  BY DEF TeardownInv, TypeOK, Row
<1>b. \A c \in Callers : op[c] \in Op /\ op[c].pc \in PC
  BY <1>a DEF Op
<1>c. ASSUME UNCHANGED <<op, sleep>>, row'.state = row.state
      PROVE  TeardownInv'
  BY <1>c DEF TeardownInv, OneTeardown, ClaimsFresh, Tearing, At
<1>s. ASSUME NEW s \in State, SetState(s)
      PROVE  row'.state = s
  BY <1>s DEF SetState, Set, TeardownInv, TypeOK, Row
<1>i. ASSUME NEW s, NEW t \in State, SetStateIf(s, t)
      PROVE  row'.state = IF row.state = s THEN t ELSE row.state
  BY <1>i, <1>s DEF SetStateIf
<1>t. TypeOK
  BY DEF TeardownInv
<1>x. {"stopped", "booting", "running", "suspending", "suspended", "error"} \subseteq State
  BY DEF State
<1>1. ASSUME NEW c \in Callers, TakeLease(c)
      PROVE  TeardownInv'
  <2>1. Jump(c, {"leasing"}, {"idle", "checking"})
    BY <1>1, <1>t, Flow
  <2>2. UNCHANGED <<row, sleep>>
    BY <1>1 DEF TakeLease, machinery
  <2>3. Moves(c)
    BY <2>1, <2>2 DEF Moves, Jump, Tearing, Stopping, Taking, Suspending
  <2>4. QED
    BY <2>3, MovesKeep DEF TeardownInv
<1>2. ASSUME NEW c \in Callers, CheckLease(c)
      PROVE  TeardownInv'
  <2>1. Jump(c, {"checking"}, {"idle", "replacing", "looking"})
    BY <1>2, <1>t, Flow
  <2>2. UNCHANGED <<row, sleep>>
    BY <1>2 DEF CheckLease, machinery
  <2>3. Moves(c)
    BY <2>1, <2>2 DEF Moves, Jump, Tearing, Stopping, Taking, Suspending
  <2>4. QED
    BY <2>3, MovesKeep DEF TeardownInv
<1>3. ASSUME NEW c \in Callers, Leave(c)
      PROVE  TeardownInv'
  <2>1. Jump(c, {"leaving"}, {"idle"})
    BY <1>3, <1>t, Flow
  <2>2. UNCHANGED <<row, sleep>>
    BY <1>3 DEF Leave, machinery
  <2>3. Moves(c)
    BY <2>1, <2>2 DEF Moves, Jump, Tearing, Stopping, Taking, Suspending
  <2>4. QED
    BY <2>3, MovesKeep DEF TeardownInv
<1>4. ASSUME NEW c \in Callers, Look(c)
      PROVE  TeardownInv'
  <2>1. Jump(c, {"looking"}, {"waiting", "reconnecting", "claiming"})
    BY <1>4, <1>t, Flow
  <2>2. UNCHANGED <<row, sleep>>
    BY <1>4 DEF Look, machinery
  <2>3. Moves(c)
    BY <2>1, <2>2 DEF Moves, Jump, Tearing, Stopping, Taking, Suspending
  <2>4. QED
    BY <2>3, MovesKeep DEF TeardownInv
<1>5. ASSUME NEW c \in Callers, Wait(c)
      PROVE  TeardownInv'
  <2>1. Jump(c, {"waiting"}, {"reconnecting", "claiming"})
    BY <1>5, <1>t, Flow
  <2>2. UNCHANGED <<row, sleep>>
    BY <1>5 DEF Wait, machinery
  <2>3. Moves(c)
    BY <2>1, <2>2 DEF Moves, Jump, Tearing, Stopping, Taking, Suspending
  <2>4. QED
    BY <2>3, MovesKeep DEF TeardownInv
<1>6. ASSUME NEW c \in Callers, Claim(c)
      PROVE  TeardownInv'
  <2>1. Jump(c, {"claiming"}, {"starting", "leaving"})
    BY <1>6, <1>t, Flow
  <2>2. UNCHANGED sleep
    BY <1>6 DEF Claim, machinery
  <2>3. row'.state = row.state \/ ~Suspending
    BY <1>6, <1>s, <1>x DEF Claim, KeepRow, Suspending
  <2>4. Moves(c)
    BY <2>1, <2>2, <2>3 DEF Moves, Jump, Tearing, Stopping, Taking, Suspending
  <2>5. QED
    BY <2>4, MovesKeep DEF TeardownInv
<1>7. ASSUME NEW c \in Callers, Start(c)
      PROVE  TeardownInv'
  <2>1. Jump(c, {"starting"}, {"preparing"})
    BY <1>7, <1>t, Flow
  <2>2. UNCHANGED <<row, sleep>>
    BY <1>7 DEF Start, machinery
  <2>3. Moves(c)
    BY <2>1, <2>2 DEF Moves, Jump, Tearing, Stopping, Taking, Suspending
  <2>4. QED
    BY <2>3, MovesKeep DEF TeardownInv
<1>8. ASSUME NEW c \in Callers, Prepare(c)
      PROVE  TeardownInv'
  <2>1. Jump(c, {"preparing"}, {"activating"})
    BY <1>8, <1>t, Flow
  <2>2. UNCHANGED <<row, sleep>>
    BY <1>8 DEF Prepare, machinery
  <2>3. Moves(c)
    BY <2>1, <2>2 DEF Moves, Jump, Tearing, Stopping, Taking, Suspending
  <2>4. QED
    BY <2>3, MovesKeep DEF TeardownInv
<1>9. ASSUME NEW c \in Callers, Activate(c)
      PROVE  TeardownInv'
  <2>1. Jump(c, {"activating"}, {"working", "leaving", "undoing"})
    BY <1>9, <1>t, Flow
  <2>2. UNCHANGED sleep
    BY <1>9 DEF Activate, machinery
  <2>3. row'.state = row.state \/ ~Suspending
    BY <1>9 DEF Activate, Set, KeepRow, Suspending
  <2>4. Moves(c)
    BY <2>1, <2>2, <2>3 DEF Moves, Jump, Tearing, Stopping, Taking, Suspending
  <2>5. QED
    BY <2>4, MovesKeep DEF TeardownInv
<1>10. ASSUME NEW c \in Callers, BootFails(c)
      PROVE  TeardownInv'
  <2>1. Jump(c, {"starting", "preparing"}, {"failing", "undoing"})
    BY <1>10, <1>t, Flow
  <2>2. UNCHANGED <<row, sleep>>
    BY <1>10 DEF BootFails, machinery
  <2>3. Moves(c)
    BY <2>1, <2>2 DEF Moves, Jump, Tearing, Stopping, Taking, Suspending
  <2>4. QED
    BY <2>3, MovesKeep DEF TeardownInv
<1>11. ASSUME NEW c \in Callers, Undo(c)
      PROVE  TeardownInv'
  <2>1. Jump(c, {"undoing"}, {"failing", "keeping"})
    BY <1>11, <1>t, Flow
  <2>2. UNCHANGED <<row, sleep>>
    BY <1>11 DEF Undo, machinery
  <2>3. Moves(c)
    BY <2>1, <2>2 DEF Moves, Jump, Tearing, Stopping, Taking, Suspending
  <2>4. QED
    BY <2>3, MovesKeep DEF TeardownInv
<1>12. ASSUME NEW c \in Callers, Fail(c)
      PROVE  TeardownInv'
  <2>1. Jump(c, {"failing", "keeping"}, {"leaving"})
    BY <1>12, <1>t, Flow
  <2>2. UNCHANGED sleep
    BY <1>12 DEF Fail, machinery
  <2>3. row'.state = row.state \/ ~Suspending
    BY <1>12, <1>s, <1>x DEF Fail, Set, KeepRow, Suspending
  <2>4. Moves(c)
    BY <2>1, <2>2, <2>3 DEF Moves, Jump, Tearing, Stopping, Taking, Suspending
  <2>5. QED
    BY <2>4, MovesKeep DEF TeardownInv
<1>13. ASSUME NEW c \in Callers, Reconnect(c)
      PROVE  TeardownInv'
  <2>1. Jump(c, {"reconnecting"}, {"working", "leaving"})
    BY <1>13, <1>t, Flow
  <2>2. UNCHANGED <<row, sleep>>
    BY <1>13 DEF Reconnect, machinery
  <2>3. Moves(c)
    BY <2>1, <2>2 DEF Moves, Jump, Tearing, Stopping, Taking, Suspending
  <2>4. QED
    BY <2>3, MovesKeep DEF TeardownInv
<1>14. ASSUME NEW c \in Callers, Crash(c)
      PROVE  TeardownInv'
  <2>1. Jump(c, {op[c].pc}, {"idle"})
    BY <1>14, <1>a, Says DEF Crash
  <2>2. UNCHANGED <<row, sleep>>
    BY <1>14 DEF Crash, machinery
  <2>3. Moves(c)
    BY <2>1, <2>2 DEF Moves, Jump, Tearing, Stopping, Taking, Suspending
  <2>4. QED
    BY <2>3, MovesKeep DEF TeardownInv
<1>15. ASSUME NEW b \in Bots, Message(b)
      PROVE  TeardownInv'
  BY <1>15, <1>c DEF Message, machinery
<1>16. ASSUME NEW b \in Bots, Cancel(b)
      PROVE  TeardownInv'
  BY <1>16, <1>c DEF Cancel, machinery
<1>17. ASSUME NEW b \in Bots, Begin(b)
      PROVE  TeardownInv'
  <2>1. Jump(Worker(b), {"idle"}, {"leasing"})
    BY <1>17, <1>t, Flow
  <2>2. UNCHANGED <<row, sleep>>
    BY <1>17 DEF Begin, machinery
  <2>3. Moves(Worker(b))
    BY <2>1, <2>2 DEF Moves, Jump, Tearing, Stopping, Taking, Suspending
  <2>4. QED
    BY <2>3, MovesKeep, BotsCall DEF TeardownInv
<1>18. ASSUME NEW b \in Bots, Expire(b)
      PROVE  TeardownInv'
  BY <1>18, <1>c DEF Expire, machinery
<1>19. ASSUME NEW b \in Bots, Work(b)
      PROVE  TeardownInv'
  BY <1>19, <1>c DEF Work, machinery
<1>20. ASSUME NEW b \in Bots, Export(b)
      PROVE  TeardownInv'
  <2>1. Jump(Worker(b), {"working"}, {"saving"})
    BY <1>20, <1>t, Flow
  <2>2. UNCHANGED <<row, sleep>>
    BY <1>20 DEF Export, machinery
  <2>3. Moves(Worker(b))
    BY <2>1, <2>2 DEF Moves, Jump, Tearing, Stopping, Taking, Suspending
  <2>4. QED
    BY <2>3, MovesKeep, BotsCall DEF TeardownInv
<1>21. ASSUME NEW b \in Bots, Save(b)
      PROVE  TeardownInv'
  <2>1. Jump(Worker(b), {"saving"}, {"saved"})
    BY <1>21, <1>t, Flow
  <2>2. UNCHANGED <<row, sleep>>
    BY <1>21 DEF Save, machinery
  <2>3. Moves(Worker(b))
    BY <2>1, <2>2 DEF Moves, Jump, Tearing, Stopping, Taking, Suspending
  <2>4. QED
    BY <2>3, MovesKeep, BotsCall DEF TeardownInv
<1>22. ASSUME NEW b \in Bots, Falter(b)
      PROVE  TeardownInv'
  <2>1. Jump(Worker(b), {"working"}, {"saved"})
    BY <1>22, <1>t, Flow
  <2>2. UNCHANGED <<row, sleep>>
    BY <1>22 DEF Falter, machinery
  <2>3. Moves(Worker(b))
    BY <2>1, <2>2 DEF Moves, Jump, Tearing, Stopping, Taking, Suspending
  <2>4. QED
    BY <2>3, MovesKeep, BotsCall DEF TeardownInv
<1>23. ASSUME NEW b \in Bots, Finish(b)
      PROVE  TeardownInv'
  <2>1. Jump(Worker(b), {"saved"}, {"leaving"})
    BY <1>23, <1>t, Flow
  <2>2. UNCHANGED <<row, sleep>>
    BY <1>23 DEF Finish, machinery
  <2>3. Moves(Worker(b))
    BY <2>1, <2>2 DEF Moves, Jump, Tearing, Stopping, Taking, Suspending
  <2>4. QED
    BY <2>3, MovesKeep, BotsCall DEF TeardownInv
<1>24. ASSUME NEW b \in Bots, StopClaim(b)
      PROVE  TeardownInv'
  <2>1. Jump(Api(b), {"stop claiming"}, {"stop checking", "idle"})
    BY <1>24, <1>t, Flow
  <2>2. UNCHANGED sleep
    BY <1>24 DEF StopClaim, machinery
  <2>3. (op'[Api(b)].pc = "idle" /\ row' = row) \/ (~Suspending /\ row'.state = "suspending")
    <3>1. CASE ~Suspending /\ NoOtherLease(b)
      <4>1. ~Suspending
        BY <1>24, <3>1 DEF StopClaim, Suspending
      <4>2. SetState("suspending")
        BY <1>24, <3>1 DEF StopClaim
      <4>3. QED
        BY <4>1, <4>2, <1>s, <1>x
    <3>2. CASE ~(~Suspending /\ NoOtherLease(b))
      <4>1. Done(Api(b)) /\ row' = row
        BY <1>24, <3>2 DEF StopClaim, KeepRow
      <4>2. Jump(Api(b), {op[Api(b)].pc}, {"idle"})
        BY <4>1, <1>a, Says, BotsCall
      <4>3. op'[Api(b)].pc = "idle"
        BY <4>2 DEF Jump
      <4>4. QED
        BY <4>1, <4>3
    <3>3. QED
      BY <3>1, <3>2
  <2>4. Moves(Api(b))
    BY <2>1, <2>2, <2>3 DEF Moves, Jump, Tearing, Stopping, Taking, Suspending
  <2>5. QED
    BY <2>4, MovesKeep, BotsCall DEF TeardownInv
<1>25. ASSUME NEW b \in Bots, StopCheck(b)
      PROVE  TeardownInv'
  <2>1. Jump(Api(b), {"stop checking"}, {"idle", "stop ending", "stop exporting"})
    BY <1>25, <1>t, Flow
  <2>2. UNCHANGED sleep
    BY <1>25 DEF StopCheck, machinery
  <2>3. op'[Api(b)].pc = "idle" \/ row' = row
    BY <1>25, <1>a, Says, BotsCall DEF StopCheck, KeepRow, Jump
  <2>4. Moves(Api(b))
    BY <2>1, <2>2, <2>3 DEF Moves, Jump, Tearing, Stopping, Taking, Suspending
  <2>5. QED
    BY <2>4, MovesKeep, BotsCall DEF TeardownInv
<1>26. ASSUME NEW b \in Bots, StopExport(b)
      PROVE  TeardownInv'
  <2>1. Jump(Api(b), {"stop exporting"}, {"stop saving"})
    BY <1>26, <1>t, Flow
  <2>2. UNCHANGED <<row, sleep>>
    BY <1>26 DEF StopExport, machinery
  <2>3. Moves(Api(b))
    BY <2>1, <2>2 DEF Moves, Jump, Tearing, Stopping, Taking, Suspending
  <2>4. QED
    BY <2>3, MovesKeep, BotsCall DEF TeardownInv
<1>27. ASSUME NEW b \in Bots, StopSave(b)
      PROVE  TeardownInv'
  <2>1. Jump(Api(b), {"stop saving"}, {"stop powering"})
    BY <1>27, <1>t, Flow
  <2>2. UNCHANGED <<row, sleep>>
    BY <1>27 DEF StopSave, machinery
  <2>3. Moves(Api(b))
    BY <2>1, <2>2 DEF Moves, Jump, Tearing, Stopping, Taking, Suspending
  <2>4. QED
    BY <2>3, MovesKeep, BotsCall DEF TeardownInv
<1>28. ASSUME NEW b \in Bots, StopPower(b)
      PROVE  TeardownInv'
  <2>1. Jump(Api(b), {"stop powering"}, {"stop ending"})
    BY <1>28, <1>t, Flow
  <2>2. UNCHANGED <<row, sleep>>
    BY <1>28 DEF StopPower, machinery
  <2>3. Moves(Api(b))
    BY <2>1, <2>2 DEF Moves, Jump, Tearing, Stopping, Taking, Suspending
  <2>4. QED
    BY <2>3, MovesKeep, BotsCall DEF TeardownInv
<1>29. ASSUME NEW b \in Bots, StopBreaks(b)
      PROVE  TeardownInv'
  <2>1. Jump(Api(b), {"stop exporting", "stop powering"}, {"stop failing"})
    BY <1>29, <1>t, Flow
  <2>2. UNCHANGED <<row, sleep>>
    BY <1>29 DEF StopBreaks, machinery
  <2>3. Moves(Api(b))
    BY <2>1, <2>2 DEF Moves, Jump, Tearing, Stopping, Taking, Suspending
  <2>4. QED
    BY <2>3, MovesKeep, BotsCall DEF TeardownInv
<1>30. ASSUME NEW b \in Bots, StopEnd(b)
      PROVE  TeardownInv'
  <2>1. Jump(Api(b), {"stop ending", "stop failing"}, {"idle"})
    BY <1>30, <1>t, Flow
  <2>2. UNCHANGED sleep
    BY <1>30 DEF StopEnd, machinery
  <2>3. Moves(Api(b))
    BY <2>1, <2>2 DEF Moves, Jump, Tearing, Stopping, Taking, Suspending
  <2>4. QED
    BY <2>3, MovesKeep, BotsCall DEF TeardownInv
<1>31. ASSUME NEW b \in Bots, TakeLook(b)
      PROVE  TeardownInv'
  <2>1. Jump(Api(b), {"replacing"}, {"take claiming", "leaving"})
    BY <1>31, <1>t, Flow
  <2>2. UNCHANGED <<row, sleep>>
    BY <1>31 DEF TakeLook, machinery
  <2>3. op'[Api(b)].pc = "take claiming" => op'[Api(b)].was \notin {"booting", "suspending"}
    <3>1. ASSUME ~Through(Api(b))
          PROVE  op'[Api(b)].was = row.state
      <4>1. op' = [op EXCEPT ![Api(b)] = [op[Api(b)] EXCEPT !.pc = "take claiming",
                                            !.was = row.state, !.old = row.ref]]
        BY <1>31, <3>1 DEF TakeLook
      <4>2. op[Api(b)] \in Op /\ Api(b) \in Callers
        BY <1>a, BotsCall
      <4>3. QED
        BY <4>1, <4>2, <1>a DEF Op
    <3>2. Through(Api(b)) => op'[Api(b)].pc = "leaving"
      BY <1>a, Says, BotsCall DEF Jump
    <3>3. QED
      BY <1>31, <3>1, <3>2 DEF TakeLook
  <2>4. Moves(Api(b))
    BY <2>1, <2>2, <2>3 DEF Moves, Jump, Tearing, Stopping, Taking, Suspending
  <2>5. QED
    BY <2>4, MovesKeep, BotsCall DEF TeardownInv
<1>32. ASSUME NEW b \in Bots, TakeClaim(b)
      PROVE  TeardownInv'
  <2>1. Jump(Api(b), {"take claiming"}, {"take checking", "leaving"})
    BY <1>32, <1>t, Flow
  <2>2. UNCHANGED sleep
    BY <1>32 DEF TakeClaim, machinery
  <2>3. (op'[Api(b)].pc = "leaving" /\ row' = row) \/ (~Suspending /\ row'.state = "suspending")
    <3>1. CASE row.state = op[Api(b)].was /\ NoOtherLease(b)
      <4>0. op[Api(b)].was # "suspending"
        BY <1>32, <1>a, BotsCall DEF TakeClaim, ClaimsFresh, At
      <4>1. ~Suspending
        BY <1>32, <3>1, <4>0 DEF TakeClaim, Suspending
      <4>2. SetState("suspending")
        BY <1>32, <3>1 DEF TakeClaim
      <4>3. QED
        BY <4>1, <4>2, <1>s, <1>x
    <3>2. CASE ~(row.state = op[Api(b)].was /\ NoOtherLease(b))
      <4>1. Through(Api(b)) /\ row' = row
        BY <1>32, <3>2 DEF TakeClaim, KeepRow
      <4>2. Jump(Api(b), {op[Api(b)].pc}, {"leaving"})
        BY <4>1, <1>a, Says, BotsCall
      <4>3. op'[Api(b)].pc = "leaving"
        BY <4>2 DEF Jump
      <4>4. QED
        BY <4>1, <4>3
    <3>3. QED
      BY <3>1, <3>2
  <2>4. Moves(Api(b))
    BY <2>1, <2>2, <2>3 DEF Moves, Jump, Tearing, Stopping, Taking, Suspending
  <2>5. QED
    BY <2>4, MovesKeep, BotsCall DEF TeardownInv
<1>33. ASSUME NEW b \in Bots, TakeCheck(b)
      PROVE  TeardownInv'
  <2>1. Jump(Api(b), {"take checking"}, {"clearing", "take exporting", "destroying", "leaving"})
    BY <1>33, <1>t, Flow
  <2>2. UNCHANGED sleep
    BY <1>33 DEF TakeCheck, machinery
  <2>3. op'[Api(b)].pc = "leaving" \/ row' = row
    BY <1>33, <1>a, Says, BotsCall DEF TakeCheck, KeepRow, Jump
  <2>4. Moves(Api(b))
    BY <2>1, <2>2, <2>3 DEF Moves, Jump, Tearing, Stopping, Taking, Suspending
  <2>5. QED
    BY <2>4, MovesKeep, BotsCall DEF TeardownInv
<1>34. ASSUME NEW b \in Bots, TakeExport(b)
      PROVE  TeardownInv'
  <2>1. Jump(Api(b), {"take exporting"}, {"take saving"})
    BY <1>34, <1>t, Flow
  <2>2. UNCHANGED <<row, sleep>>
    BY <1>34 DEF TakeExport, machinery
  <2>3. Moves(Api(b))
    BY <2>1, <2>2 DEF Moves, Jump, Tearing, Stopping, Taking, Suspending
  <2>4. QED
    BY <2>3, MovesKeep, BotsCall DEF TeardownInv
<1>35. ASSUME NEW b \in Bots, TakeSave(b)
      PROVE  TeardownInv'
  <2>1. Jump(Api(b), {"take saving"}, {"destroying"})
    BY <1>35, <1>t, Flow
  <2>2. UNCHANGED <<row, sleep>>
    BY <1>35 DEF TakeSave, machinery
  <2>3. Moves(Api(b))
    BY <2>1, <2>2 DEF Moves, Jump, Tearing, Stopping, Taking, Suspending
  <2>4. QED
    BY <2>3, MovesKeep, BotsCall DEF TeardownInv
<1>36. ASSUME NEW b \in Bots, Destroy(b)
      PROVE  TeardownInv'
  <2>1. Jump(Api(b), {"destroying"}, {"clearing"})
    BY <1>36, <1>t, Flow
  <2>2. UNCHANGED <<row, sleep>>
    BY <1>36 DEF Destroy, machinery
  <2>3. Moves(Api(b))
    BY <2>1, <2>2 DEF Moves, Jump, Tearing, Stopping, Taking, Suspending
  <2>4. QED
    BY <2>3, MovesKeep, BotsCall DEF TeardownInv
<1>37. ASSUME NEW b \in Bots, TakeBreaks(b)
      PROVE  TeardownInv'
  <2>1. Jump(Api(b), {"take exporting", "destroying"}, {"clearing", "destroying", "take failing"})
    BY <1>37, <1>t, Flow
  <2>2. UNCHANGED <<row, sleep>>
    BY <1>37 DEF TakeBreaks, machinery
  <2>3. Moves(Api(b))
    BY <2>1, <2>2 DEF Moves, Jump, Tearing, Stopping, Taking, Suspending
  <2>4. QED
    BY <2>3, MovesKeep, BotsCall DEF TeardownInv
<1>38. ASSUME NEW b \in Bots, TakeEnd(b)
      PROVE  TeardownInv'
  <2>1. Jump(Api(b), {"clearing", "take failing"}, {"looking", "leaving"})
    BY <1>38, <1>t, Flow
  <2>2. UNCHANGED sleep
    BY <1>38 DEF TakeEnd, machinery
  <2>3. Moves(Api(b))
    BY <2>1, <2>2 DEF Moves, Jump, Tearing, Stopping, Taking, Suspending
  <2>4. QED
    BY <2>3, MovesKeep, BotsCall DEF TeardownInv
<1>39. ASSUME NEW b \in Bots, NEW mode \in Mode \ {"run"}, Request(b, mode)
      PROVE  TeardownInv'
  <2>1. Jump(Api(b), {"idle"}, {"leasing", "stop claiming"})
    BY <1>39, <1>t, RequestFlow
  <2>2. UNCHANGED <<row, sleep>>
    BY <1>39 DEF Request, machinery
  <2>3. Moves(Api(b))
    BY <2>1, <2>2 DEF Moves, Jump, Tearing, Stopping, Taking, Suspending
  <2>4. QED
    BY <2>3, MovesKeep, BotsCall DEF TeardownInv
<1>40. ASSUME SleepLook
      PROVE  TeardownInv'
  BY <1>40, SleepKeeps DEF SleepStep
<1>41. ASSUME SleepExport
      PROVE  TeardownInv'
  BY <1>41, SleepKeeps DEF SleepStep
<1>42. ASSUME SleepSave
      PROVE  TeardownInv'
  BY <1>42, SleepKeeps DEF SleepStep
<1>43. ASSUME SleepClaim
      PROVE  TeardownInv'
  BY <1>43, SleepKeeps DEF SleepStep
<1>44. ASSUME SleepCheck
      PROVE  TeardownInv'
  BY <1>44, SleepKeeps DEF SleepStep
<1>45. ASSUME SleepPower
      PROVE  TeardownInv'
  BY <1>45, SleepKeeps DEF SleepStep
<1>46. ASSUME SleepBreaks
      PROVE  TeardownInv'
  BY <1>46, SleepKeeps DEF SleepStep
<1>47. ASSUME SleepEnd
      PROVE  TeardownInv'
  BY <1>47, SleepKeeps DEF SleepStep
<1>48. ASSUME SleepCrash
      PROVE  TeardownInv'
  BY <1>48, SleepKeeps DEF SleepStep
<1>49. ASSUME NEW m \in Machines, Lose(m)
      PROVE  TeardownInv'
  BY <1>49, <1>c DEF Lose
<1>50. CASE UNCHANGED vars
  BY <1>50, <1>c DEF vars
<1>51. QED
  BY <1>1, <1>2, <1>3, <1>4, <1>5, <1>6, <1>7, <1>8, <1>9, <1>10, <1>11, <1>12, <1>13,
     <1>14, <1>15, <1>16, <1>17, <1>18, <1>19, <1>20, <1>21, <1>22, <1>23, <1>24, <1>25,
     <1>26, <1>27, <1>28, <1>29, <1>30, <1>31, <1>32, <1>33, <1>34, <1>35, <1>36, <1>37,
     <1>38, <1>39, <1>40, <1>41, <1>42, <1>43, <1>44, <1>45, <1>46, <1>47, <1>48, <1>49,
     <1>50
     DEF Next, LeaseStep, BootStep, WorkStep, StopStep, TakeStep, SleepStep

\* At the start nothing is claimed.
LEMMA TeardownStarts == ASSUME Init PROVE TeardownInv
<1>1. sleep.pc = "idle" /\ \A c \in Callers : op[c].pc = "idle"
  BY DEF Init, Quiet, Awake
<1>2. OneTeardown /\ ClaimsFresh
  BY <1>1 DEF OneTeardown, ClaimsFresh, Tearing, At, Sleeping, Stopping, Taking
<1>3. QED
  BY <1>2, InitTyped DEF TeardownInv

\* Teardowns serialize, however boots, requests and the idle job interleave and fail.
THEOREM TeardownsSerialize == Spec => []OneTeardown
<1>1. TeardownInv /\ [Next]_vars => TeardownInv'
  BY TeardownInductive, StepTyped DEF TeardownInv
<1>2. TeardownInv => OneTeardown
  BY DEF TeardownInv
<1>3. QED
  BY <1>1, <1>2, TeardownStarts, PTL DEF Spec

-----------------------------------------------------------------------------
(* Leases are returned *)

\* The steps at which an operation holds no lease.
Bare == {"idle", "leasing", "stop claiming"} \cup Stopping

ReturnInv ==
  /\ \A c \in Callers :
       op[c].pc \in Bare /\ lease[c[2]].live /\ lease[c[2]].by = c[1] => faults.died
  /\ \A b \in Bots : lease[b].live => lease[b].by \in {"worker", "api"}

\* What a step of a caller may do to leases: drop some, take its own, keep its own
\* only while it is not bare.
Returns(c) ==
  /\ \A d \in Callers \ {c} : op'[d] = op[d]
  /\ \A b \in Bots : \/ lease'[b] = lease[b] \/ ~lease'[b].live
                     \/ b = c[2] /\ lease'[b].by = c[1]
  /\ op'[c].pc \in Bare => \/ op[c].pc \in Bare /\ lease'[c[2]] = lease[c[2]]
                           \/ ~lease'[c[2]].live \/ lease'[c[2]].by # c[1]
                           \/ faults'.died
  /\ faults.died => faults'.died

\* Such a step keeps the invariant.
LEMMA ReturnsKeep ==
  ASSUME ReturnInv, NEW c \in Callers, Returns(c)
  PROVE  ReturnInv'
<1>1. ASSUME NEW d \in Callers, op'[d].pc \in Bare, lease'[d[2]].live, lease'[d[2]].by = d[1]
      PROVE  faults'.died
  <2>1. d[2] \in Bots /\ d = <<d[1], d[2]>> /\ c = <<c[1], c[2]>>
    BY DEF Callers
  <2>2. CASE d = c
    BY <1>1, <2>2 DEF ReturnInv, Returns
  <2>3. CASE d # c
    <3>1. lease'[d[2]] = lease[d[2]]
      BY <1>1, <2>1, <2>3 DEF Returns
    <3>2. QED
      BY <1>1, <2>3, <3>1 DEF ReturnInv, Returns
  <2>4. QED
    BY <2>2, <2>3
<1>2. ASSUME NEW b \in Bots, lease'[b].live
      PROVE  lease'[b].by \in {"worker", "api"}
  BY <1>2 DEF ReturnInv, Returns, Callers
<1>3. QED
  BY <1>1, <1>2 DEF ReturnInv

\* Every step of Next keeps it.
LEMMA ReturnInductive == ASSUME TypeOK, ReturnInv, [Next]_vars PROVE ReturnInv'
<1>a. op \in [Callers -> Op] /\ lease \in [Bots -> Lease] /\ faults \in [count : 0..MaxFaults, died : BOOLEAN]
  BY DEF TypeOK
<1>b. ASSUME UNCHANGED op, faults.died => faults'.died,
             \A b \in Bots : lease'[b] = lease[b] \/ ~lease'[b].live
      PROVE  ReturnInv'
  BY <1>b DEF ReturnInv, Callers
<1>f. (Fault => faults'.died = faults.died) /\ (Death => faults'.died)
  BY <1>a DEF Fault, Death
<1>l. \A c \in Callers :
        /\ c[2] \in Bots
        /\ \A b \in Bots : Dropped(c)[b] = lease[b] \/ ~Dropped(c)[b].live
        /\ ~Dropped(c)[c[2]].live \/ Dropped(c)[c[2]].by # c[1]
  BY <1>a DEF Dropped, Mine, NoLease, Callers
<1>1. ASSUME NEW c \in Callers, TakeLease(c)
      PROVE  ReturnInv'
  <2>1. Jump(c, {"leasing"}, {"idle", "checking"})
    BY <1>1, Flow
  <2>2. CASE lease[c[2]].live
    <3>1. UNCHANGED <<lease, faults>>
      BY <1>1, <2>2 DEF TakeLease
    <3>2. Returns(c)
      BY <2>1, <3>1 DEF Returns, Jump, Bare
    <3>3. QED
      BY <3>2, ReturnsKeep
  <2>3. CASE ~lease[c[2]].live
    <3>1. /\ lease' = [lease EXCEPT ![c[2]] = [by |-> c[1], live |-> TRUE]]
          /\ Go(c, "checking")
          /\ UNCHANGED faults
      BY <1>1, <2>3 DEF TakeLease
    <3>2. op'[c].pc = "checking"
      BY <3>1, <1>a, Says DEF Jump
    <3>3. Returns(c)
      BY <2>1, <3>1, <3>2, <1>a, <1>l DEF Returns, Jump, Bare, Stopping
    <3>4. QED
      BY <3>3, ReturnsKeep
  <2>4. QED
    BY <2>2, <2>3
<1>2. ASSUME NEW c \in Callers, CheckLease(c)
      PROVE  ReturnInv'
  <2>1. Jump(c, {"checking"}, {"idle", "replacing", "looking"})
    BY <1>2, Flow
  <2>2. CASE Suspending
    <3>1. lease' = Dropped(c) /\ UNCHANGED faults
      BY <1>2, <2>2 DEF CheckLease
    <3>2. Returns(c)
      BY <2>1, <3>1, <1>l DEF Returns, Jump
    <3>3. QED
      BY <3>2, ReturnsKeep
  <2>3. CASE ~Suspending
    <3>1. UNCHANGED <<lease, faults>> /\ (Go(c, "replacing") \/ Turn(c, "looking"))
      BY <1>2, <2>3 DEF CheckLease
    <3>2. op'[c].pc \in {"replacing", "looking"}
      BY <3>1, <1>a, Says DEF Jump
    <3>3. Returns(c)
      BY <2>1, <3>1, <3>2 DEF Returns, Jump, Bare, Stopping
    <3>4. QED
      BY <3>3, ReturnsKeep
  <2>4. QED
    BY <2>2, <2>3
<1>3. ASSUME NEW c \in Callers, Leave(c)
      PROVE  ReturnInv'
  <2>1. Jump(c, {"leaving"}, {"idle"})
    BY <1>3, Flow
  <2>2. lease' = Dropped(c) /\ UNCHANGED faults
    BY <1>3 DEF Leave
  <2>3. Returns(c)
    BY <2>1, <2>2, <1>l DEF Returns, Jump
  <2>4. QED
    BY <2>3, ReturnsKeep
<1>4. ASSUME NEW c \in Callers, Look(c)
      PROVE  ReturnInv'
  <2>1. Jump(c, {"looking"}, {"waiting", "reconnecting", "claiming"})
    BY <1>4, Flow
  <2>2. UNCHANGED lease /\ (faults.died => faults'.died)
    BY <1>4 DEF Look, machinery
  <2>3. Returns(c)
    BY <2>1, <2>2 DEF Returns, Jump, Bare, Stopping
  <2>4. QED
    BY <2>3, ReturnsKeep
<1>5. ASSUME NEW c \in Callers, Wait(c)
      PROVE  ReturnInv'
  <2>1. Jump(c, {"waiting"}, {"reconnecting", "claiming"})
    BY <1>5, Flow
  <2>2. UNCHANGED lease /\ (faults.died => faults'.died)
    BY <1>5 DEF Wait, machinery
  <2>3. Returns(c)
    BY <2>1, <2>2 DEF Returns, Jump, Bare, Stopping
  <2>4. QED
    BY <2>3, ReturnsKeep
<1>6. ASSUME NEW c \in Callers, Claim(c)
      PROVE  ReturnInv'
  <2>1. Jump(c, {"claiming"}, {"starting", "leaving"})
    BY <1>6, Flow
  <2>2. UNCHANGED lease /\ (faults.died => faults'.died)
    BY <1>6 DEF Claim, machinery
  <2>3. Returns(c)
    BY <2>1, <2>2 DEF Returns, Jump, Bare, Stopping
  <2>4. QED
    BY <2>3, ReturnsKeep
<1>7. ASSUME NEW c \in Callers, Start(c)
      PROVE  ReturnInv'
  <2>1. Jump(c, {"starting"}, {"preparing"})
    BY <1>7, Flow
  <2>2. UNCHANGED lease /\ (faults.died => faults'.died)
    BY <1>7 DEF Start, machinery
  <2>3. Returns(c)
    BY <2>1, <2>2 DEF Returns, Jump, Bare, Stopping
  <2>4. QED
    BY <2>3, ReturnsKeep
<1>8. ASSUME NEW c \in Callers, Prepare(c)
      PROVE  ReturnInv'
  <2>1. Jump(c, {"preparing"}, {"activating"})
    BY <1>8, Flow
  <2>2. UNCHANGED lease /\ (faults.died => faults'.died)
    BY <1>8 DEF Prepare, machinery
  <2>3. Returns(c)
    BY <2>1, <2>2 DEF Returns, Jump, Bare, Stopping
  <2>4. QED
    BY <2>3, ReturnsKeep
<1>9. ASSUME NEW c \in Callers, Activate(c)
      PROVE  ReturnInv'
  <2>1. Jump(c, {"activating"}, {"working", "leaving", "undoing"})
    BY <1>9, Flow
  <2>2. UNCHANGED lease /\ (faults.died => faults'.died)
    BY <1>9 DEF Activate, machinery
  <2>3. Returns(c)
    BY <2>1, <2>2 DEF Returns, Jump, Bare, Stopping
  <2>4. QED
    BY <2>3, ReturnsKeep
<1>10. ASSUME NEW c \in Callers, BootFails(c)
      PROVE  ReturnInv'
  <2>1. Jump(c, {"starting", "preparing"}, {"failing", "undoing"})
    BY <1>10, Flow
  <2>2. UNCHANGED lease /\ (faults.died => faults'.died)
    BY <1>10, <1>f DEF BootFails, machinery
  <2>3. Returns(c)
    BY <2>1, <2>2 DEF Returns, Jump, Bare, Stopping
  <2>4. QED
    BY <2>3, ReturnsKeep
<1>11. ASSUME NEW c \in Callers, Undo(c)
      PROVE  ReturnInv'
  <2>1. Jump(c, {"undoing"}, {"failing", "keeping"})
    BY <1>11, Flow
  <2>2. UNCHANGED lease /\ (faults.died => faults'.died)
    BY <1>11, <1>f DEF Undo, machinery
  <2>3. Returns(c)
    BY <2>1, <2>2 DEF Returns, Jump, Bare, Stopping
  <2>4. QED
    BY <2>3, ReturnsKeep
<1>12. ASSUME NEW c \in Callers, Fail(c)
      PROVE  ReturnInv'
  <2>1. Jump(c, {"failing", "keeping"}, {"leaving"})
    BY <1>12, Flow
  <2>2. UNCHANGED lease /\ (faults.died => faults'.died)
    BY <1>12 DEF Fail, machinery
  <2>3. Returns(c)
    BY <2>1, <2>2 DEF Returns, Jump, Bare, Stopping
  <2>4. QED
    BY <2>3, ReturnsKeep
<1>13. ASSUME NEW c \in Callers, Reconnect(c)
      PROVE  ReturnInv'
  <2>1. Jump(c, {"reconnecting"}, {"working", "leaving"})
    BY <1>13, Flow
  <2>2. UNCHANGED lease /\ (faults.died => faults'.died)
    BY <1>13 DEF Reconnect, machinery
  <2>3. Returns(c)
    BY <2>1, <2>2 DEF Returns, Jump, Bare, Stopping
  <2>4. QED
    BY <2>3, ReturnsKeep
<1>14. ASSUME NEW c \in Callers, Crash(c)
      PROVE  ReturnInv'
  <2>1. Jump(c, {op[c].pc}, {"idle"})
    BY <1>14, <1>a, Says DEF Crash
  <2>2. UNCHANGED lease /\ faults'.died
    BY <1>14, <1>f DEF Crash, machinery
  <2>3. Returns(c)
    BY <2>1, <2>2 DEF Returns, Jump, Bare, Stopping
  <2>4. QED
    BY <2>3, ReturnsKeep
<1>15. ASSUME NEW b \in Bots, Message(b)
      PROVE  ReturnInv'
  BY <1>15, <1>b DEF Message, machinery
<1>16. ASSUME NEW b \in Bots, Cancel(b)
      PROVE  ReturnInv'
  BY <1>16, <1>b DEF Cancel, machinery
<1>17. ASSUME NEW b \in Bots, Begin(b)
      PROVE  ReturnInv'
  <2>1. Jump(Worker(b), {"idle"}, {"leasing"})
    BY <1>17, Flow
  <2>2. UNCHANGED lease /\ (faults.died => faults'.died)
    BY <1>17 DEF Begin, machinery
  <2>3. Returns(Worker(b))
    BY <2>1, <2>2 DEF Returns, Jump, Bare, Stopping
  <2>4. QED
    BY <2>3, ReturnsKeep, BotsCall
<1>18. ASSUME NEW b \in Bots, Expire(b)
      PROVE  ReturnInv'
  <2>1. \A o \in Bots : lease'[o] = lease[o] \/ ~lease'[o].live
    BY <1>18, <1>a DEF Expire, Lease
  <2>2. QED
    BY <1>18, <2>1, <1>b DEF Expire, machinery
<1>19. ASSUME NEW b \in Bots, Work(b)
      PROVE  ReturnInv'
  BY <1>19, <1>b DEF Work, machinery
<1>20. ASSUME NEW b \in Bots, Export(b)
      PROVE  ReturnInv'
  <2>1. Jump(Worker(b), {"working"}, {"saving"})
    BY <1>20, Flow
  <2>2. UNCHANGED lease /\ (faults.died => faults'.died)
    BY <1>20 DEF Export, machinery
  <2>3. Returns(Worker(b))
    BY <2>1, <2>2 DEF Returns, Jump, Bare, Stopping
  <2>4. QED
    BY <2>3, ReturnsKeep, BotsCall
<1>21. ASSUME NEW b \in Bots, Save(b)
      PROVE  ReturnInv'
  <2>1. Jump(Worker(b), {"saving"}, {"saved"})
    BY <1>21, Flow
  <2>2. UNCHANGED lease /\ (faults.died => faults'.died)
    BY <1>21 DEF Save, machinery
  <2>3. Returns(Worker(b))
    BY <2>1, <2>2 DEF Returns, Jump, Bare, Stopping
  <2>4. QED
    BY <2>3, ReturnsKeep, BotsCall
<1>22. ASSUME NEW b \in Bots, Falter(b)
      PROVE  ReturnInv'
  <2>1. Jump(Worker(b), {"working"}, {"saved"})
    BY <1>22, Flow
  <2>2. UNCHANGED lease /\ (faults.died => faults'.died)
    BY <1>22, <1>f DEF Falter, machinery
  <2>3. Returns(Worker(b))
    BY <2>1, <2>2 DEF Returns, Jump, Bare, Stopping
  <2>4. QED
    BY <2>3, ReturnsKeep, BotsCall
<1>23. ASSUME NEW b \in Bots, Finish(b)
      PROVE  ReturnInv'
  <2>1. Jump(Worker(b), {"saved"}, {"leaving"})
    BY <1>23, Flow
  <2>2. UNCHANGED lease /\ (faults.died => faults'.died)
    BY <1>23 DEF Finish, machinery
  <2>3. Returns(Worker(b))
    BY <2>1, <2>2 DEF Returns, Jump, Bare, Stopping
  <2>4. QED
    BY <2>3, ReturnsKeep, BotsCall
<1>24. ASSUME NEW b \in Bots, StopClaim(b)
      PROVE  ReturnInv'
  <2>1. Jump(Api(b), {"stop claiming"}, {"stop checking", "idle"})
    BY <1>24, Flow
  <2>2. UNCHANGED lease /\ (faults.died => faults'.died)
    BY <1>24 DEF StopClaim, machinery
  <2>3. Returns(Api(b))
    BY <2>1, <2>2 DEF Returns, Jump, Bare, Stopping
  <2>4. QED
    BY <2>3, ReturnsKeep, BotsCall
<1>25. ASSUME NEW b \in Bots, StopCheck(b)
      PROVE  ReturnInv'
  <2>1. Jump(Api(b), {"stop checking"}, {"idle", "stop ending", "stop exporting"})
    BY <1>25, Flow
  <2>2. UNCHANGED faults /\ (UNCHANGED lease \/ lease' = [lease EXCEPT ![b] = NoLease])
    BY <1>25 DEF StopCheck
  <2>b. op[Api(b)].pc \in Bare /\ Api(b)[2] = b /\ Api(b) \in Callers
    BY <2>1, BotsCall DEF Jump, Bare, Stopping
  <2>c. ~NoLease.live
    BY DEF NoLease
  <2>3. Returns(Api(b))
    <3>1. CASE UNCHANGED lease
      BY <2>1, <2>2, <2>b, <3>1 DEF Returns, Jump
    <3>2. CASE lease' = [lease EXCEPT ![b] = NoLease]
      BY <2>1, <2>2, <2>b, <2>c, <3>2, <1>a DEF Returns, Jump
    <3>3. QED
      BY <2>2, <3>1, <3>2
  <2>4. QED
    BY <2>3, ReturnsKeep, BotsCall
<1>26. ASSUME NEW b \in Bots, StopExport(b)
      PROVE  ReturnInv'
  <2>1. Jump(Api(b), {"stop exporting"}, {"stop saving"})
    BY <1>26, Flow
  <2>2. UNCHANGED lease /\ (faults.died => faults'.died)
    BY <1>26 DEF StopExport, machinery
  <2>3. Returns(Api(b))
    BY <2>1, <2>2 DEF Returns, Jump, Bare, Stopping
  <2>4. QED
    BY <2>3, ReturnsKeep, BotsCall
<1>27. ASSUME NEW b \in Bots, StopSave(b)
      PROVE  ReturnInv'
  <2>1. Jump(Api(b), {"stop saving"}, {"stop powering"})
    BY <1>27, Flow
  <2>2. UNCHANGED lease /\ (faults.died => faults'.died)
    BY <1>27 DEF StopSave, machinery
  <2>3. Returns(Api(b))
    BY <2>1, <2>2 DEF Returns, Jump, Bare, Stopping
  <2>4. QED
    BY <2>3, ReturnsKeep, BotsCall
<1>28. ASSUME NEW b \in Bots, StopPower(b)
      PROVE  ReturnInv'
  <2>1. Jump(Api(b), {"stop powering"}, {"stop ending"})
    BY <1>28, Flow
  <2>2. UNCHANGED lease /\ (faults.died => faults'.died)
    BY <1>28 DEF StopPower, machinery
  <2>3. Returns(Api(b))
    BY <2>1, <2>2 DEF Returns, Jump, Bare, Stopping
  <2>4. QED
    BY <2>3, ReturnsKeep, BotsCall
<1>29. ASSUME NEW b \in Bots, StopBreaks(b)
      PROVE  ReturnInv'
  <2>1. Jump(Api(b), {"stop exporting", "stop powering"}, {"stop failing"})
    BY <1>29, Flow
  <2>2. UNCHANGED lease /\ (faults.died => faults'.died)
    BY <1>29, <1>f DEF StopBreaks, machinery
  <2>3. Returns(Api(b))
    BY <2>1, <2>2 DEF Returns, Jump, Bare, Stopping
  <2>4. QED
    BY <2>3, ReturnsKeep, BotsCall
<1>30. ASSUME NEW b \in Bots, StopEnd(b)
      PROVE  ReturnInv'
  <2>1. Jump(Api(b), {"stop ending", "stop failing"}, {"idle"})
    BY <1>30, Flow
  <2>2. UNCHANGED lease /\ (faults.died => faults'.died)
    BY <1>30 DEF StopEnd, machinery
  <2>3. Returns(Api(b))
    BY <2>1, <2>2 DEF Returns, Jump, Bare, Stopping
  <2>4. QED
    BY <2>3, ReturnsKeep, BotsCall
<1>31. ASSUME NEW b \in Bots, TakeLook(b)
      PROVE  ReturnInv'
  <2>1. Jump(Api(b), {"replacing"}, {"take claiming", "leaving"})
    BY <1>31, Flow
  <2>2. UNCHANGED lease /\ (faults.died => faults'.died)
    BY <1>31 DEF TakeLook, machinery
  <2>3. Returns(Api(b))
    BY <2>1, <2>2 DEF Returns, Jump, Bare, Stopping
  <2>4. QED
    BY <2>3, ReturnsKeep, BotsCall
<1>32. ASSUME NEW b \in Bots, TakeClaim(b)
      PROVE  ReturnInv'
  <2>1. Jump(Api(b), {"take claiming"}, {"take checking", "leaving"})
    BY <1>32, Flow
  <2>2. UNCHANGED lease /\ (faults.died => faults'.died)
    BY <1>32 DEF TakeClaim, machinery
  <2>3. Returns(Api(b))
    BY <2>1, <2>2 DEF Returns, Jump, Bare, Stopping
  <2>4. QED
    BY <2>3, ReturnsKeep, BotsCall
<1>33. ASSUME NEW b \in Bots, TakeCheck(b)
      PROVE  ReturnInv'
  <2>1. Jump(Api(b), {"take checking"}, {"clearing", "take exporting", "destroying", "leaving"})
    BY <1>33, Flow
  <2>2. UNCHANGED lease /\ (faults.died => faults'.died)
    BY <1>33 DEF TakeCheck, machinery
  <2>3. Returns(Api(b))
    BY <2>1, <2>2 DEF Returns, Jump, Bare, Stopping
  <2>4. QED
    BY <2>3, ReturnsKeep, BotsCall
<1>34. ASSUME NEW b \in Bots, TakeExport(b)
      PROVE  ReturnInv'
  <2>1. Jump(Api(b), {"take exporting"}, {"take saving"})
    BY <1>34, Flow
  <2>2. UNCHANGED lease /\ (faults.died => faults'.died)
    BY <1>34 DEF TakeExport, machinery
  <2>3. Returns(Api(b))
    BY <2>1, <2>2 DEF Returns, Jump, Bare, Stopping
  <2>4. QED
    BY <2>3, ReturnsKeep, BotsCall
<1>35. ASSUME NEW b \in Bots, TakeSave(b)
      PROVE  ReturnInv'
  <2>1. Jump(Api(b), {"take saving"}, {"destroying"})
    BY <1>35, Flow
  <2>2. UNCHANGED lease /\ (faults.died => faults'.died)
    BY <1>35 DEF TakeSave, machinery
  <2>3. Returns(Api(b))
    BY <2>1, <2>2 DEF Returns, Jump, Bare, Stopping
  <2>4. QED
    BY <2>3, ReturnsKeep, BotsCall
<1>36. ASSUME NEW b \in Bots, Destroy(b)
      PROVE  ReturnInv'
  <2>1. Jump(Api(b), {"destroying"}, {"clearing"})
    BY <1>36, Flow
  <2>2. UNCHANGED lease /\ (faults.died => faults'.died)
    BY <1>36 DEF Destroy, machinery
  <2>3. Returns(Api(b))
    BY <2>1, <2>2 DEF Returns, Jump, Bare, Stopping
  <2>4. QED
    BY <2>3, ReturnsKeep, BotsCall
<1>37. ASSUME NEW b \in Bots, TakeBreaks(b)
      PROVE  ReturnInv'
  <2>1. Jump(Api(b), {"take exporting", "destroying"}, {"clearing", "destroying", "take failing"})
    BY <1>37, Flow
  <2>2. UNCHANGED lease /\ (faults.died => faults'.died)
    BY <1>37, <1>f DEF TakeBreaks, machinery
  <2>3. Returns(Api(b))
    BY <2>1, <2>2 DEF Returns, Jump, Bare, Stopping
  <2>4. QED
    BY <2>3, ReturnsKeep, BotsCall
<1>38. ASSUME NEW b \in Bots, TakeEnd(b)
      PROVE  ReturnInv'
  <2>1. Jump(Api(b), {"clearing", "take failing"}, {"looking", "leaving"})
    BY <1>38, Flow
  <2>2. UNCHANGED lease /\ (faults.died => faults'.died)
    BY <1>38 DEF TakeEnd, machinery
  <2>3. Returns(Api(b))
    BY <2>1, <2>2 DEF Returns, Jump, Bare, Stopping
  <2>4. QED
    BY <2>3, ReturnsKeep, BotsCall
<1>39. ASSUME NEW b \in Bots, NEW mode \in Mode \ {"run"}, Request(b, mode)
      PROVE  ReturnInv'
  <2>1. Jump(Api(b), {"idle"}, {"leasing", "stop claiming"})
    BY <1>39, RequestFlow
  <2>2. UNCHANGED lease /\ (faults.died => faults'.died)
    BY <1>39 DEF Request, machinery
  <2>3. Returns(Api(b))
    BY <2>1, <2>2 DEF Returns, Jump, Bare, Stopping
  <2>4. QED
    BY <2>3, ReturnsKeep, BotsCall
<1>40. ASSUME SleepLook
      PROVE  ReturnInv'
  BY <1>40, <1>b DEF SleepLook, machinery
<1>41. ASSUME SleepExport
      PROVE  ReturnInv'
  BY <1>41, <1>b DEF SleepExport, machinery
<1>42. ASSUME SleepSave
      PROVE  ReturnInv'
  BY <1>42, <1>b DEF SleepSave, machinery
<1>43. ASSUME SleepClaim
      PROVE  ReturnInv'
  BY <1>43, <1>b DEF SleepClaim, machinery
<1>44. ASSUME SleepCheck
      PROVE  ReturnInv'
  BY <1>44, <1>b DEF SleepCheck, machinery
<1>45. ASSUME SleepPower
      PROVE  ReturnInv'
  BY <1>45, <1>b DEF SleepPower, machinery
<1>46. ASSUME SleepBreaks
      PROVE  ReturnInv'
  BY <1>46, <1>b, <1>f DEF SleepBreaks, machinery
<1>47. ASSUME SleepEnd
      PROVE  ReturnInv'
  BY <1>47, <1>b DEF SleepEnd, machinery
<1>48. ASSUME SleepCrash
      PROVE  ReturnInv'
  BY <1>48, <1>b, <1>f DEF SleepCrash, machinery
<1>49. ASSUME NEW m \in Machines, Lose(m)
      PROVE  ReturnInv'
  BY <1>49, <1>b, <1>f DEF Lose, machinery
<1>50. CASE UNCHANGED vars
  BY <1>50, <1>b DEF vars
<1>51. QED
  BY <1>1, <1>2, <1>3, <1>4, <1>5, <1>6, <1>7, <1>8, <1>9, <1>10, <1>11, <1>12, <1>13,
     <1>14, <1>15, <1>16, <1>17, <1>18, <1>19, <1>20, <1>21, <1>22, <1>23, <1>24, <1>25,
     <1>26, <1>27, <1>28, <1>29, <1>30, <1>31, <1>32, <1>33, <1>34, <1>35, <1>36, <1>37,
     <1>38, <1>39, <1>40, <1>41, <1>42, <1>43, <1>44, <1>45, <1>46, <1>47, <1>48, <1>49,
     <1>50
     DEF Next, LeaseStep, BootStep, WorkStep, StopStep, TakeStep, SleepStep

\* Every lease that is live has a holder that lives, unless something has crashed.
THEOREM LeasesComeBack == Spec => []LeasesAreReturned
<1>1. Init => ReturnInv
  BY DEF Init, ReturnInv, NoLease, Callers
<1>2. TypeOK /\ ReturnInv /\ [Next]_vars => ReturnInv'
  BY ReturnInductive
<1>3. ReturnInv => LeasesAreReturned
  <2> SUFFICES ASSUME ReturnInv, NEW b \in Bots, lease[b].live,
                      At(<<lease[b].by, b>>, "idle")
               PROVE  faults.died
    BY DEF LeasesAreReturned
  <2>1. <<lease[b].by, b>> \in Callers
    BY DEF ReturnInv, Callers
  <2>2. QED
    BY <2>1 DEF ReturnInv, At, Bare
<1>4. QED
  BY <1>1, <1>2, <1>3, TypesHold, PTL DEF Spec

-----------------------------------------------------------------------------
(* No teardown turns off a machine in use *)

Early == {"checking", "replacing", "take claiming"}

\* The worker has found the computer open under the lease that it still holds.
Under(b) ==
  /\ op[Worker(b)].pc \in Provisioning \cup Using
  /\ lease[b] = [by |-> "worker", live |-> TRUE]

\* Until its claim a replacement holds the lease of its bot, so that the bot's worker
\* does not; a teardown that is past its last look at leases and runs shares the
\* computer with no worker that holds one, but for the stop that is yet to drop it.
ShieldInv ==
  /\ \A b \in Bots : op[Api(b)].pc \in Early => lease[b] = [by |-> "api", live |-> TRUE]
  /\ \A b \in Bots, c \in Callers :
       Under(b) /\ Tearing(c) => c = Api(b) /\ op[c].pc = "stop checking"
  /\ \A b \in Bots : Under(b) => sleep.pc \notin Sleeping

\* Workers and requests are different callers, and each has one bot.
LEMMA CallersDiffer ==
  \A b \in Bots, o \in Bots : Worker(b) # Api(o) /\ (Worker(b) = Worker(o) => b = o)
                              /\ (Api(b) = Api(o) => b = o)
  BY DEF Worker, Api

\* A step that touches no lease keeps the shield when it enters no new stage.
LEMMA Undisturbed ==
  ASSUME ShieldInv, NEW c \in Callers, UNCHANGED <<lease, sleep>>,
         \A d \in Callers \ {c} : op'[d] = op[d],
         c[1] = "worker" /\ op'[c].pc \in Provisioning \cup Using =>
           op[c].pc \in Provisioning \cup Using,
         op'[c].pc \in Stopping \cup Taking => Tearing(c) /\ op[c].pc # "stop checking",
         c[1] = "api" /\ op'[c].pc \in Early => op[c].pc \in Early
  PROVE  ShieldInv'
<1>1. ASSUME NEW b \in Bots, op'[Api(b)].pc \in Early
      PROVE  lease'[b] = [by |-> "api", live |-> TRUE]
  <2>1. op[Api(b)].pc \in Early
    <3>1. CASE Api(b) = c
      <4>1. c[1] = "api" /\ op'[c].pc \in Early
        BY <1>1, <3>1, BotsCall
      <4>2. QED
        BY <3>1, <4>1
    <3>2. CASE Api(b) # c
      BY <1>1, <3>2, BotsCall
    <3>3. QED
      BY <3>1, <3>2
  <2>2. QED
    BY <2>1 DEF ShieldInv
<1>2. ASSUME NEW b \in Bots, Under(b)'
      PROVE  Under(b)
  BY <1>2, BotsCall DEF Under
<1>3. ASSUME NEW d \in Callers, Tearing(d)'
      PROVE  Tearing(d) /\ (d = c => op[c].pc # "stop checking") /\ (d # c => op'[d] = op[d])
  BY <1>3 DEF Tearing
<1>4. ASSUME NEW b \in Bots, NEW d \in Callers, Under(b)', Tearing(d)'
      PROVE  d = Api(b) /\ op'[d].pc = "stop checking"
  BY <1>2, <1>3, <1>4 DEF ShieldInv
<1>5. ASSUME NEW b \in Bots, Under(b)'
      PROVE  sleep'.pc \notin Sleeping
  BY <1>2, <1>5 DEF ShieldInv
<1>6. QED
  BY <1>1, <1>4, <1>5 DEF ShieldInv

\* Steps that drop leases and enter no new stage.
LEMMA Dropping ==
  ASSUME ShieldInv, NEW c \in Callers, UNCHANGED sleep,
         \A d \in Callers \ {c} : op'[d] = op[d],
         op'[c].pc = "idle",
         \A b \in Bots : lease'[b] = lease[b] \/ (c[2] = b /\ lease[b].by = c[1]
                                                    /\ ~lease'[b].live)
  PROVE  ShieldInv'
<1>1. ASSUME NEW b \in Bots, op'[Api(b)].pc \in Early
      PROVE  lease'[b] = [by |-> "api", live |-> TRUE]
  <2>1. Api(b) # c /\ op[Api(b)].pc \in Early
    BY <1>1, BotsCall DEF Early
  <2>2. lease[b] = [by |-> "api", live |-> TRUE]
    BY <2>1 DEF ShieldInv
  <2>3. ~(c[2] = b /\ c[1] = "api")
    BY <2>1 DEF Callers, Api
  <2>4. QED
    BY <2>2, <2>3
<1>2. ASSUME NEW b \in Bots, Under(b)'
      PROVE  Under(b)
  <2>1. Worker(b) # c
    BY <1>2 DEF Under, Provisioning, Using
  <2>2. QED
    BY <1>2, <2>1, BotsCall DEF Under
<1>3. ASSUME NEW d \in Callers, Tearing(d)'
      PROVE  Tearing(d) /\ op'[d] = op[d]
  BY <1>3 DEF Tearing, Stopping, Taking
<1>4. ASSUME NEW b \in Bots, NEW d \in Callers, Under(b)', Tearing(d)'
      PROVE  d = Api(b) /\ op'[d].pc = "stop checking"
  <2>1. Under(b) /\ Tearing(d) /\ op'[d] = op[d]
    BY <1>2, <1>3, <1>4
  <2>2. d = Api(b) /\ op[d].pc = "stop checking"
    BY <2>1 DEF ShieldInv
  <2>3. QED
    BY <2>1, <2>2
<1>5. ASSUME NEW b \in Bots, Under(b)'
      PROVE  sleep'.pc \notin Sleeping
  BY <1>2, <1>5 DEF ShieldInv
<1>6. QED
  BY <1>1, <1>4, <1>5 DEF ShieldInv

\* Every step of Next keeps it.
LEMMA ShieldInductive ==
  ASSUME TypeOK, TeardownInv, ShieldInv, [Next]_vars
  PROVE  ShieldInv'
<1>a. op \in [Callers -> Op] /\ lease \in [Bots -> Lease]
  BY DEF TypeOK
<1>b. ASSUME UNCHANGED <<op, lease>>, sleep'.pc \in Sleeping => sleep.pc \in Sleeping
      PROVE  ShieldInv'
  BY <1>b DEF ShieldInv, Under, Tearing
<1>l. \A c \in Callers, b \in Bots :
        Dropped(c)[b] = lease[b] \/ (c[2] = b /\ lease[b].by = c[1] /\ ~Dropped(c)[b].live)
  BY <1>a DEF Dropped, Mine, NoLease
<1>o. ~Suspending => sleep.pc \notin Sleeping /\ \A c \in Callers : ~Tearing(c)
  BY DEF TeardownInv, OneTeardown, Suspending
<1>k. \A c \in Callers : c[1] = "worker" \/ c[1] = "api"
  BY DEF Callers
<1>u. \A b \in Bots : Under(b) => lease[b].live
  BY DEF Under
<1>w. sleep \in Sleep
  BY DEF TypeOK
<1>1. ASSUME NEW c \in Callers, TakeLease(c)
      PROVE  ShieldInv'
  <2>1. Jump(c, {"leasing"}, {"idle", "checking"})
    BY <1>1, Flow
  <2>2. CASE lease[c[2]].live
    <3>1. UNCHANGED <<lease, sleep>> /\ Done(c)
      BY <1>1, <2>2 DEF TakeLease
    <3>2. op'[c].pc = "idle"
      BY <3>1, <1>a, Says DEF Jump
    <3>3. QED
      BY <2>1, <3>1, <3>2, Dropping DEF Jump
  <2>3. CASE ~lease[c[2]].live
    <3>1. /\ lease' = [lease EXCEPT ![c[2]] = [by |-> c[1], live |-> TRUE]]
          /\ Go(c, "checking")
          /\ UNCHANGED sleep
      BY <1>1, <2>3 DEF TakeLease
    <3>2. op'[c].pc = "checking" /\ \A d \in Callers \ {c} : op'[d] = op[d]
      BY <3>1, <1>a, Says DEF Jump
    <3>3. c[2] \in Bots /\ c = <<c[1], c[2]>>
      BY DEF Callers
    <3>4. /\ lease'[c[2]] = [by |-> c[1], live |-> TRUE]
          /\ \A o \in Bots \ {c[2]} : lease'[o] = lease[o]
      BY <3>1, <3>3, <1>a
    <3>5. ASSUME NEW o \in Bots, Under(o)'
          PROVE  Under(o)
      <4>1. o # c[2]
        <5>1. CASE c = Worker(o)
          BY <3>2, <3>5, <5>1 DEF Under, Provisioning, Using
        <5>2. CASE c # Worker(o)
          BY <3>3, <3>4, <3>5, <5>2, <1>k DEF Under, Worker
        <5>3. CASE o # c[2]
          BY <5>3
        <5>4. QED
          BY <5>1, <5>2
      <4>2. Worker(o) # c
        BY <4>1, BotsCall
      <4>3. QED
        BY <3>2, <3>4, <3>5, <4>1, <4>2, BotsCall DEF Under
    <3>6. ASSUME NEW o \in Bots, op'[Api(o)].pc \in Early
          PROVE  lease'[o] = [by |-> "api", live |-> TRUE]
      <4>1. CASE Api(o) = c
        BY <3>4, <4>1, BotsCall
      <4>2. CASE Api(o) # c
        <5>0. op[Api(o)].pc \in Early
          BY <3>2, <3>6, <4>2, BotsCall
        <5>1. lease[o] = [by |-> "api", live |-> TRUE]
          BY <5>0 DEF ShieldInv
        <5>2. o # c[2]
          BY <5>1, <2>3
        <5>3. QED
          BY <3>4, <5>1, <5>2
      <4>3. QED
        BY <4>1, <4>2
    <3>7. ASSUME NEW d \in Callers, Tearing(d)'
          PROVE  Tearing(d) /\ op'[d] = op[d]
      BY <3>2, <3>7 DEF Tearing, Stopping, Taking
    <3>8. QED
      BY <3>1, <3>5, <3>6, <3>7 DEF ShieldInv
  <2>4. QED
    BY <2>2, <2>3
<1>2. ASSUME NEW c \in Callers, CheckLease(c)
      PROVE  ShieldInv'
  <2>1. Jump(c, {"checking"}, {"idle", "replacing", "looking"})
    BY <1>2, Flow
  <2>2. CASE Suspending
    <3>1. lease' = Dropped(c) /\ UNCHANGED sleep /\ Done(c)
      BY <1>2, <2>2 DEF CheckLease
    <3>2. op'[c].pc = "idle"
      BY <3>1, <1>a, Says DEF Jump
    <3>3. QED
      BY <2>1, <3>1, <3>2, <1>l, Dropping DEF Jump
  <2>3. CASE ~Suspending
    <3>1. UNCHANGED <<lease, sleep>> /\ (Go(c, "replacing") \/ Turn(c, "looking"))
      BY <1>2, <2>3 DEF CheckLease
    <3>2. op'[c].pc \in {"replacing", "looking"}
      BY <3>1, <1>a, Says DEF Jump
    <3>3. \A d \in Callers : ~Tearing(d)'
      BY <2>1, <3>2, <2>3, <1>o DEF Jump, Tearing, Stopping, Taking
    <3>4. sleep'.pc \notin Sleeping
      BY <3>1, <2>3, <1>o
    <3>5. ASSUME NEW o \in Bots, op'[Api(o)].pc \in Early
          PROVE  lease'[o] = [by |-> "api", live |-> TRUE]
      <4>1. op[Api(o)].pc \in Early
        BY <2>1, <3>5, BotsCall DEF Jump, Early
      <4>2. QED
        BY <4>1, <3>1 DEF ShieldInv
    <3>6. QED
      BY <3>3, <3>4, <3>5 DEF ShieldInv
  <2>4. QED
    BY <2>2, <2>3
<1>3. ASSUME NEW c \in Callers, Leave(c)
      PROVE  ShieldInv'
  <2>1. Jump(c, {"leaving"}, {"idle"})
    BY <1>3, Flow
  <2>2. lease' = Dropped(c) /\ UNCHANGED sleep
    BY <1>3 DEF Leave
  <2>3. QED
    BY <2>1, <2>2, <1>l, Dropping DEF Jump
<1>4. ASSUME NEW c \in Callers, Look(c)
      PROVE  ShieldInv'
  <2>1. Jump(c, {"looking"}, {"waiting", "reconnecting", "claiming"})
    BY <1>4, Flow
  <2>2. UNCHANGED <<lease, sleep>>
    BY <1>4 DEF Look, machinery
  <2>3. QED
    BY <2>1, <2>2, Undisturbed DEF Jump, Early, Provisioning, Using, Stopping, Taking, Tearing
<1>5. ASSUME NEW c \in Callers, Wait(c)
      PROVE  ShieldInv'
  <2>1. Jump(c, {"waiting"}, {"reconnecting", "claiming"})
    BY <1>5, Flow
  <2>2. UNCHANGED <<lease, sleep>>
    BY <1>5 DEF Wait, machinery
  <2>3. QED
    BY <2>1, <2>2, Undisturbed DEF Jump, Early, Provisioning, Using, Stopping, Taking, Tearing
<1>6. ASSUME NEW c \in Callers, Claim(c)
      PROVE  ShieldInv'
  <2>1. Jump(c, {"claiming"}, {"starting", "leaving"})
    BY <1>6, Flow
  <2>2. UNCHANGED <<lease, sleep>>
    BY <1>6 DEF Claim, machinery
  <2>3. QED
    BY <2>1, <2>2, Undisturbed DEF Jump, Early, Provisioning, Using, Stopping, Taking, Tearing
<1>7. ASSUME NEW c \in Callers, Start(c)
      PROVE  ShieldInv'
  <2>1. Jump(c, {"starting"}, {"preparing"})
    BY <1>7, Flow
  <2>2. UNCHANGED <<lease, sleep>>
    BY <1>7 DEF Start, machinery
  <2>3. QED
    BY <2>1, <2>2, Undisturbed DEF Jump, Early, Provisioning, Using, Stopping, Taking, Tearing
<1>8. ASSUME NEW c \in Callers, Prepare(c)
      PROVE  ShieldInv'
  <2>1. Jump(c, {"preparing"}, {"activating"})
    BY <1>8, Flow
  <2>2. UNCHANGED <<lease, sleep>>
    BY <1>8 DEF Prepare, machinery
  <2>3. QED
    BY <2>1, <2>2, Undisturbed DEF Jump, Early, Provisioning, Using, Stopping, Taking, Tearing
<1>9. ASSUME NEW c \in Callers, Activate(c)
      PROVE  ShieldInv'
  <2>1. Jump(c, {"activating"}, {"working", "leaving", "undoing"})
    BY <1>9, Flow
  <2>2. UNCHANGED <<lease, sleep>>
    BY <1>9 DEF Activate, machinery
  <2>3. QED
    BY <2>1, <2>2, Undisturbed DEF Jump, Early, Provisioning, Using, Stopping, Taking, Tearing
<1>10. ASSUME NEW c \in Callers, BootFails(c)
      PROVE  ShieldInv'
  <2>1. Jump(c, {"starting", "preparing"}, {"failing", "undoing"})
    BY <1>10, Flow
  <2>2. UNCHANGED <<lease, sleep>>
    BY <1>10 DEF BootFails, machinery
  <2>3. QED
    BY <2>1, <2>2, Undisturbed DEF Jump, Early, Provisioning, Using, Stopping, Taking, Tearing
<1>11. ASSUME NEW c \in Callers, Undo(c)
      PROVE  ShieldInv'
  <2>1. Jump(c, {"undoing"}, {"failing", "keeping"})
    BY <1>11, Flow
  <2>2. UNCHANGED <<lease, sleep>>
    BY <1>11 DEF Undo, machinery
  <2>3. QED
    BY <2>1, <2>2, Undisturbed DEF Jump, Early, Provisioning, Using, Stopping, Taking, Tearing
<1>12. ASSUME NEW c \in Callers, Fail(c)
      PROVE  ShieldInv'
  <2>1. Jump(c, {"failing", "keeping"}, {"leaving"})
    BY <1>12, Flow
  <2>2. UNCHANGED <<lease, sleep>>
    BY <1>12 DEF Fail, machinery
  <2>3. QED
    BY <2>1, <2>2, Undisturbed DEF Jump, Early, Provisioning, Using, Stopping, Taking, Tearing
<1>13. ASSUME NEW c \in Callers, Reconnect(c)
      PROVE  ShieldInv'
  <2>1. Jump(c, {"reconnecting"}, {"working", "leaving"})
    BY <1>13, Flow
  <2>2. UNCHANGED <<lease, sleep>>
    BY <1>13 DEF Reconnect, machinery
  <2>3. QED
    BY <2>1, <2>2, Undisturbed DEF Jump, Early, Provisioning, Using, Stopping, Taking, Tearing
<1>14. ASSUME NEW c \in Callers, Crash(c)
      PROVE  ShieldInv'
  <2>1. Jump(c, {op[c].pc}, {"idle"})
    BY <1>14, <1>a, Says DEF Crash
  <2>2. UNCHANGED <<lease, sleep>>
    BY <1>14 DEF Crash, machinery
  <2>3. QED
    BY <2>1, <2>2, Undisturbed DEF Jump, Early, Provisioning, Using, Stopping, Taking, Tearing
<1>15. ASSUME NEW b \in Bots, Message(b)
      PROVE  ShieldInv'
  BY <1>15, <1>b DEF Message, machinery
<1>16. ASSUME NEW b \in Bots, Cancel(b)
      PROVE  ShieldInv'
  BY <1>16, <1>b DEF Cancel, machinery
<1>17. ASSUME NEW b \in Bots, Begin(b)
      PROVE  ShieldInv'
  <2>1. Jump(Worker(b), {"idle"}, {"leasing"})
    BY <1>17, Flow
  <2>2. UNCHANGED <<lease, sleep>>
    BY <1>17 DEF Begin, machinery
  <2>3. QED
    BY <2>1, <2>2, Undisturbed, BotsCall DEF Jump, Early, Provisioning, Using, Stopping,
       Taking, Tearing
<1>18. ASSUME NEW b \in Bots, Expire(b)
      PROVE  ShieldInv'
  <2>1. UNCHANGED <<op, sleep>> /\ lease' = [lease EXCEPT ![b].live = FALSE] /\ lease[b].live
    BY <1>18 DEF Expire, machinery
  <2>2. op[Api(b)].pc \notin Early
    <3>1. CASE At(<<lease[b].by, b>>, "idle")
      <4>1. ASSUME op[Api(b)].pc \in Early
            PROVE  FALSE
        <5>0. lease[b] = [by |-> "api", live |-> TRUE]
          BY <4>1 DEF ShieldInv
        <5>1. lease[b].by = "api"
          BY <5>0
        <5>2. op[Api(b)].pc = "idle"
          BY <3>1, <5>1 DEF At, Api
        <5>3. QED
          BY <4>1, <5>2 DEF Early
      <4>2. QED
        BY <4>1
    <3>2. CASE lease[b].by = "api" /\ op[Api(b)].pc \in Slow
      BY <3>2 DEF Slow, Early
    <3>3. QED
      BY <1>18, <3>1, <3>2 DEF Expire
  <2>3. ~lease'[b].live /\ \A o \in Bots \ {b} : lease'[o] = lease[o]
    BY <2>1, <1>a DEF Lease
  <2>4. \A o \in Bots : Under(o)' => Under(o)
    BY <2>1, <2>3 DEF Under
  <2>5. \A o \in Bots : op[Api(o)].pc \in Early => lease'[o] = [by |-> "api", live |-> TRUE]
    BY <2>2, <2>3 DEF ShieldInv
  <2>6. QED
    BY <2>1, <2>4, <2>5 DEF ShieldInv, Tearing
<1>19. ASSUME NEW b \in Bots, Work(b)
      PROVE  ShieldInv'
  BY <1>19, <1>b DEF Work, machinery
<1>20. ASSUME NEW b \in Bots, Export(b)
      PROVE  ShieldInv'
  <2>1. Jump(Worker(b), {"working"}, {"saving"})
    BY <1>20, Flow
  <2>2. UNCHANGED <<lease, sleep>>
    BY <1>20 DEF Export, machinery
  <2>3. QED
    BY <2>1, <2>2, Undisturbed, BotsCall DEF Jump, Early, Provisioning, Using, Stopping,
       Taking, Tearing
<1>21. ASSUME NEW b \in Bots, Save(b)
      PROVE  ShieldInv'
  <2>1. Jump(Worker(b), {"saving"}, {"saved"})
    BY <1>21, Flow
  <2>2. UNCHANGED <<lease, sleep>>
    BY <1>21 DEF Save, machinery
  <2>3. QED
    BY <2>1, <2>2, Undisturbed, BotsCall DEF Jump, Early, Provisioning, Using, Stopping,
       Taking, Tearing
<1>22. ASSUME NEW b \in Bots, Falter(b)
      PROVE  ShieldInv'
  <2>1. Jump(Worker(b), {"working"}, {"saved"})
    BY <1>22, Flow
  <2>2. UNCHANGED <<lease, sleep>>
    BY <1>22 DEF Falter, machinery
  <2>3. QED
    BY <2>1, <2>2, Undisturbed, BotsCall DEF Jump, Early, Provisioning, Using, Stopping,
       Taking, Tearing
<1>23. ASSUME NEW b \in Bots, Finish(b)
      PROVE  ShieldInv'
  <2>1. Jump(Worker(b), {"saved"}, {"leaving"})
    BY <1>23, Flow
  <2>2. UNCHANGED <<lease, sleep>>
    BY <1>23 DEF Finish, machinery
  <2>3. QED
    BY <2>1, <2>2, Undisturbed, BotsCall DEF Jump, Early, Provisioning, Using, Stopping,
       Taking, Tearing
<1>24. ASSUME NEW b \in Bots, StopClaim(b)
      PROVE  ShieldInv'
  <2>1. Jump(Api(b), {"stop claiming"}, {"stop checking", "idle"})
    BY <1>24, Flow
  <2>2. UNCHANGED <<lease, sleep>>
    BY <1>24 DEF StopClaim, machinery
  <2>3. CASE ~Suspending /\ NoOtherLease(b)
    <3>1. op'[Api(b)].pc = "stop checking"
      <4>1. Go(Api(b), "stop checking")
        BY <1>24, <2>3 DEF StopClaim
      <4>2. Jump(Api(b), {op[Api(b)].pc}, {"stop checking"})
        BY <4>1, <1>a, Says, BotsCall
      <4>3. QED
        BY <4>2 DEF Jump
    <3>2. \A d \in Callers : ~Tearing(d)
      <4>1. ~Suspending
        BY <1>24, <2>3, BotsCall DEF StopClaim, TeardownInv, ClaimsFresh, At, Suspending
      <4>2. QED
        BY <4>1, <1>o
    <3>3. sleep.pc \notin Sleeping
      <4>1. ~Suspending
        BY <1>24, <2>3, BotsCall DEF StopClaim, TeardownInv, ClaimsFresh, At, Suspending
      <4>2. QED
        BY <4>1, <1>o
    <3>4. ASSUME NEW o \in Bots, Under(o)'
          PROVE  o = b
      BY <2>2, <2>3, <3>4 DEF NoOtherLease, Under
    <3>5. ASSUME NEW d \in Callers, Tearing(d)'
          PROVE  d = Api(b)
      BY <2>1, <3>2, <3>5 DEF Tearing, Jump
    <3>6. ASSUME NEW o \in Bots, op'[Api(o)].pc \in Early
          PROVE  lease'[o] = [by |-> "api", live |-> TRUE]
      <4>1. op[Api(o)].pc \in Early
        BY <2>1, <3>1, <3>6, BotsCall DEF Jump, Early
      <4>2. QED
        BY <4>1, <2>2 DEF ShieldInv
    <3>7. QED
      BY <2>2, <3>1, <3>3, <3>4, <3>5, <3>6 DEF ShieldInv
  <2>4. CASE ~(~Suspending /\ NoOtherLease(b))
    <3>1. op'[Api(b)].pc = "idle"
      <4>1. Done(Api(b))
        BY <1>24, <2>4 DEF StopClaim
      <4>2. Jump(Api(b), {op[Api(b)].pc}, {"idle"})
        BY <4>1, <1>a, Says, BotsCall
      <4>3. QED
        BY <4>2 DEF Jump
    <3>2. QED
      BY <2>1, <2>2, <3>1, Undisturbed, BotsCall
         DEF Jump, Early, Provisioning, Using, Stopping, Taking
  <2>5. QED
    BY <2>3, <2>4
<1>25. ASSUME NEW b \in Bots, StopCheck(b)
      PROVE  ShieldInv'
  <2>1. Jump(Api(b), {"stop checking"}, {"idle", "stop ending", "stop exporting"})
    BY <1>25, Flow
  <2>2. UNCHANGED sleep
    BY <1>25 DEF StopCheck, machinery
  <2>3. CASE \E o \in Bots \ {b} : HasRun(o)
    <3>1. UNCHANGED lease /\ Done(Api(b))
      BY <1>25, <2>3 DEF StopCheck
    <3>2. op'[Api(b)].pc = "idle"
      BY <3>1, <1>a, Says, BotsCall DEF Jump
    <3>3. QED
      BY <2>1, <2>2, <3>1, <3>2, Undisturbed, BotsCall
         DEF Jump, Early, Provisioning, Using, Stopping, Taking
  <2>4. CASE ~\E o \in Bots \ {b} : HasRun(o)
    <3>1. lease' = [lease EXCEPT ![b] = NoLease]
      BY <1>25, <2>4 DEF StopCheck
    <3>2. ~lease'[b].live /\ \A o \in Bots \ {b} : lease'[o] = lease[o]
      BY <3>1, <1>a DEF NoLease
    <3>3. Tearing(Api(b)) /\ op[Api(b)].pc = "stop checking"
      BY <2>1 DEF Jump, Tearing, Stopping
    <3>4. ASSUME NEW o \in Bots, Under(o)'
          PROVE  FALSE
      <4>1. Worker(o) # Api(b) /\ Worker(o) \in Callers
        BY CallersDiffer, BotsCall
      <4>2. o # b
        BY <3>2, <3>4 DEF Under
      <4>3. Under(o)
        BY <2>1, <3>2, <3>4, <4>1, <4>2 DEF Jump, Under
      <4>4. Api(b) = Api(o)
        BY <3>3, <4>3, BotsCall DEF ShieldInv
      <4>5. QED
        BY <4>2, <4>4, CallersDiffer
    <3>5. ASSUME NEW o \in Bots, op'[Api(o)].pc \in Early
          PROVE  lease'[o] = [by |-> "api", live |-> TRUE]
      <4>1. Api(o) # Api(b) /\ o # b
        BY <2>1, <3>5 DEF Jump, Early
      <4>2. op[Api(o)].pc \in Early
        BY <2>1, <3>5, <4>1, BotsCall DEF Jump
      <4>3. lease[o] = [by |-> "api", live |-> TRUE]
        BY <4>2 DEF ShieldInv
      <4>4. QED
        BY <3>2, <4>1, <4>3
    <3>6. QED
      BY <3>4, <3>5 DEF ShieldInv
  <2>5. QED
    BY <2>3, <2>4
<1>26. ASSUME NEW b \in Bots, StopExport(b)
      PROVE  ShieldInv'
  <2>1. Jump(Api(b), {"stop exporting"}, {"stop saving"})
    BY <1>26, Flow
  <2>2. UNCHANGED <<lease, sleep>>
    BY <1>26 DEF StopExport, machinery
  <2>3. QED
    BY <2>1, <2>2, Undisturbed, BotsCall DEF Jump, Early, Provisioning, Using, Stopping,
       Taking, Tearing
<1>27. ASSUME NEW b \in Bots, StopSave(b)
      PROVE  ShieldInv'
  <2>1. Jump(Api(b), {"stop saving"}, {"stop powering"})
    BY <1>27, Flow
  <2>2. UNCHANGED <<lease, sleep>>
    BY <1>27 DEF StopSave, machinery
  <2>3. QED
    BY <2>1, <2>2, Undisturbed, BotsCall DEF Jump, Early, Provisioning, Using, Stopping,
       Taking, Tearing
<1>28. ASSUME NEW b \in Bots, StopPower(b)
      PROVE  ShieldInv'
  <2>1. Jump(Api(b), {"stop powering"}, {"stop ending"})
    BY <1>28, Flow
  <2>2. UNCHANGED <<lease, sleep>>
    BY <1>28 DEF StopPower, machinery
  <2>3. QED
    BY <2>1, <2>2, Undisturbed, BotsCall DEF Jump, Early, Provisioning, Using, Stopping,
       Taking, Tearing
<1>29. ASSUME NEW b \in Bots, StopBreaks(b)
      PROVE  ShieldInv'
  <2>1. Jump(Api(b), {"stop exporting", "stop powering"}, {"stop failing"})
    BY <1>29, Flow
  <2>2. UNCHANGED <<lease, sleep>>
    BY <1>29 DEF StopBreaks, machinery
  <2>3. QED
    BY <2>1, <2>2, Undisturbed, BotsCall DEF Jump, Early, Provisioning, Using, Stopping,
       Taking, Tearing
<1>30. ASSUME NEW b \in Bots, StopEnd(b)
      PROVE  ShieldInv'
  <2>1. Jump(Api(b), {"stop ending", "stop failing"}, {"idle"})
    BY <1>30, Flow
  <2>2. UNCHANGED <<lease, sleep>>
    BY <1>30 DEF StopEnd, machinery
  <2>3. QED
    BY <2>1, <2>2, Undisturbed, BotsCall DEF Jump, Early, Provisioning, Using, Stopping,
       Taking, Tearing
<1>31. ASSUME NEW b \in Bots, TakeLook(b)
      PROVE  ShieldInv'
  <2>1. Jump(Api(b), {"replacing"}, {"take claiming", "leaving"})
    BY <1>31, Flow
  <2>2. UNCHANGED <<lease, sleep>>
    BY <1>31 DEF TakeLook, machinery
  <2>3. QED
    BY <2>1, <2>2, Undisturbed, BotsCall DEF Jump, Early, Provisioning, Using, Stopping,
       Taking, Tearing
<1>32. ASSUME NEW b \in Bots, TakeClaim(b)
      PROVE  ShieldInv'
  <2>1. Jump(Api(b), {"take claiming"}, {"take checking", "leaving"})
    BY <1>32, Flow
  <2>2. UNCHANGED <<lease, sleep>>
    BY <1>32 DEF TakeClaim, machinery
  <2>3. CASE row.state = op[Api(b)].was /\ NoOtherLease(b)
    <3>1. op'[Api(b)].pc = "take checking"
      <4>1. Go(Api(b), "take checking")
        BY <1>32, <2>3 DEF TakeClaim
      <4>2. Jump(Api(b), {op[Api(b)].pc}, {"take checking"})
        BY <4>1, <1>a, Says, BotsCall
      <4>3. QED
        BY <4>2 DEF Jump
    <3>2. \A d \in Callers : ~Tearing(d)
      <4>1. ~Suspending
        BY <1>32, <2>3, BotsCall DEF TakeClaim, TeardownInv, ClaimsFresh, At, Suspending
      <4>2. QED
        BY <4>1, <1>o
    <3>3. sleep.pc \notin Sleeping
      <4>1. ~Suspending
        BY <1>32, <2>3, BotsCall DEF TakeClaim, TeardownInv, ClaimsFresh, At, Suspending
      <4>2. QED
        BY <4>1, <1>o
    <3>4. ASSUME NEW o \in Bots, Under(o)'
          PROVE  FALSE
      <4>1. lease[b] = [by |-> "api", live |-> TRUE]
        BY <2>1 DEF Jump, ShieldInv, Early
      <4>2. QED
        BY <4>1, <2>2, <2>3, <3>4 DEF NoOtherLease, Under
    <3>5. ASSUME NEW d \in Callers, Tearing(d)'
          PROVE  d = Api(b)
      BY <2>1, <3>2, <3>5 DEF Tearing, Jump
    <3>6. ASSUME NEW o \in Bots, op'[Api(o)].pc \in Early
          PROVE  lease'[o] = [by |-> "api", live |-> TRUE]
      <4>1. op[Api(o)].pc \in Early
        BY <2>1, <3>1, <3>6, BotsCall DEF Jump, Early
      <4>2. QED
        BY <4>1, <2>2 DEF ShieldInv
    <3>7. QED
      BY <2>2, <3>1, <3>3, <3>4, <3>5, <3>6 DEF ShieldInv
  <2>4. CASE ~(row.state = op[Api(b)].was /\ NoOtherLease(b))
    <3>1. op'[Api(b)].pc = "leaving"
      <4>1. Through(Api(b))
        BY <1>32, <2>4 DEF TakeClaim
      <4>2. Jump(Api(b), {op[Api(b)].pc}, {"leaving"})
        BY <4>1, <1>a, Says, BotsCall
      <4>3. QED
        BY <4>2 DEF Jump
    <3>2. QED
      BY <2>1, <2>2, <3>1, Undisturbed, BotsCall
         DEF Jump, Early, Provisioning, Using, Stopping, Taking
  <2>5. QED
    BY <2>3, <2>4
<1>33. ASSUME NEW b \in Bots, TakeCheck(b)
      PROVE  ShieldInv'
  <2>1. Jump(Api(b), {"take checking"}, {"clearing", "take exporting", "destroying", "leaving"})
    BY <1>33, Flow
  <2>2. UNCHANGED <<lease, sleep>>
    BY <1>33 DEF TakeCheck, machinery
  <2>3. QED
    BY <2>1, <2>2, Undisturbed, BotsCall DEF Jump, Early, Provisioning, Using, Stopping,
       Taking, Tearing
<1>34. ASSUME NEW b \in Bots, TakeExport(b)
      PROVE  ShieldInv'
  <2>1. Jump(Api(b), {"take exporting"}, {"take saving"})
    BY <1>34, Flow
  <2>2. UNCHANGED <<lease, sleep>>
    BY <1>34 DEF TakeExport, machinery
  <2>3. QED
    BY <2>1, <2>2, Undisturbed, BotsCall DEF Jump, Early, Provisioning, Using, Stopping,
       Taking, Tearing
<1>35. ASSUME NEW b \in Bots, TakeSave(b)
      PROVE  ShieldInv'
  <2>1. Jump(Api(b), {"take saving"}, {"destroying"})
    BY <1>35, Flow
  <2>2. UNCHANGED <<lease, sleep>>
    BY <1>35 DEF TakeSave, machinery
  <2>3. QED
    BY <2>1, <2>2, Undisturbed, BotsCall DEF Jump, Early, Provisioning, Using, Stopping,
       Taking, Tearing
<1>36. ASSUME NEW b \in Bots, Destroy(b)
      PROVE  ShieldInv'
  <2>1. Jump(Api(b), {"destroying"}, {"clearing"})
    BY <1>36, Flow
  <2>2. UNCHANGED <<lease, sleep>>
    BY <1>36 DEF Destroy, machinery
  <2>3. QED
    BY <2>1, <2>2, Undisturbed, BotsCall DEF Jump, Early, Provisioning, Using, Stopping,
       Taking, Tearing
<1>37. ASSUME NEW b \in Bots, TakeBreaks(b)
      PROVE  ShieldInv'
  <2>1. Jump(Api(b), {"take exporting", "destroying"}, {"clearing", "destroying", "take failing"})
    BY <1>37, Flow
  <2>2. UNCHANGED <<lease, sleep>>
    BY <1>37 DEF TakeBreaks, machinery
  <2>3. QED
    BY <2>1, <2>2, Undisturbed, BotsCall DEF Jump, Early, Provisioning, Using, Stopping,
       Taking, Tearing
<1>38. ASSUME NEW b \in Bots, TakeEnd(b)
      PROVE  ShieldInv'
  <2>1. Jump(Api(b), {"clearing", "take failing"}, {"looking", "leaving"})
    BY <1>38, Flow
  <2>2. UNCHANGED <<lease, sleep>>
    BY <1>38 DEF TakeEnd, machinery
  <2>3. QED
    BY <2>1, <2>2, Undisturbed, BotsCall DEF Jump, Early, Provisioning, Using, Stopping,
       Taking, Tearing
<1>39. ASSUME NEW b \in Bots, NEW mode \in Mode \ {"run"}, Request(b, mode)
      PROVE  ShieldInv'
  <2>1. Jump(Api(b), {"idle"}, {"leasing", "stop claiming"})
    BY <1>39, RequestFlow
  <2>2. UNCHANGED <<lease, sleep>>
    BY <1>39 DEF Request, machinery
  <2>3. QED
    BY <2>1, <2>2, Undisturbed, BotsCall DEF Jump, Early, Provisioning, Using, Stopping,
       Taking, Tearing
<1>40. ASSUME SleepLook
      PROVE  ShieldInv'
  <2>1. UNCHANGED <<op, lease>>
    BY <1>40 DEF SleepLook, machinery
  <2>2. sleep' = [Awake EXCEPT !.pc = "sleep exporting", !.ref = row.ref]
    BY <1>40 DEF SleepLook
  <2>3. [Awake EXCEPT !.pc = "sleep exporting", !.ref = row.ref].pc = "sleep exporting"
    BY <1>w DEF Sleep, Awake
  <2>4. Awake.pc \notin Sleeping /\ "sleep exporting" \notin Sleeping
    BY DEF Awake, Sleeping
  <2>5. sleep'.pc \notin Sleeping
    BY <2>2, <2>3, <2>4
  <2>6. QED
    BY <2>1, <2>5, <1>b
<1>41. ASSUME SleepExport
      PROVE  ShieldInv'
  <2>1. UNCHANGED <<op, lease>>
    BY <1>41 DEF SleepExport, machinery
  <2>2. sleep' = [sleep EXCEPT !.pc = "sleep saving", !.snap = disk[sleep.ref]] \/ sleep' = Awake
    BY <1>41 DEF SleepExport
  <2>3. [sleep EXCEPT !.pc = "sleep saving", !.snap = disk[sleep.ref]].pc = "sleep saving"
    BY <1>w DEF Sleep, Awake
  <2>4. Awake.pc \notin Sleeping /\ "sleep saving" \notin Sleeping
    BY DEF Awake, Sleeping
  <2>5. sleep'.pc \notin Sleeping
    BY <2>2, <2>3, <2>4
  <2>6. QED
    BY <2>1, <2>5, <1>b
<1>42. ASSUME SleepSave
      PROVE  ShieldInv'
  <2>1. UNCHANGED <<op, lease>>
    BY <1>42 DEF SleepSave, machinery
  <2>2. sleep' = [sleep EXCEPT !.pc = "sleep claiming", !.snap = {}]
    BY <1>42 DEF SleepSave
  <2>3. [sleep EXCEPT !.pc = "sleep claiming", !.snap = {}].pc = "sleep claiming"
    BY <1>w DEF Sleep, Awake
  <2>4. Awake.pc \notin Sleeping /\ "sleep claiming" \notin Sleeping
    BY DEF Awake, Sleeping
  <2>5. sleep'.pc \notin Sleeping
    BY <2>2, <2>3, <2>4
  <2>6. QED
    BY <2>1, <2>5, <1>b
<1>43. ASSUME SleepClaim
      PROVE  ShieldInv'
  <2>1. CASE NoLeases
    <3>1. \A b \in Bots : ~Under(b)' /\ Under(b) = Under(b)'
      BY <1>43, <2>1, <1>u DEF SleepClaim, NoLeases, Under
    <3>2. UNCHANGED <<op, lease>>
      BY <1>43 DEF SleepClaim
    <3>3. QED
      BY <3>1, <3>2 DEF ShieldInv
  <2>2. CASE ~NoLeases
    <3>1. UNCHANGED <<op, lease>> /\ sleep' = Awake
      BY <1>43, <2>2 DEF SleepClaim
    <3>2. QED
      BY <3>1, <1>b DEF Awake, Sleeping
  <2>3. QED
    BY <2>1, <2>2
<1>44. ASSUME SleepCheck
      PROVE  ShieldInv'
  <2>1. UNCHANGED <<op, lease>> /\ sleep.pc \in Sleeping
    BY <1>44 DEF SleepCheck, machinery, Sleeping
  <2>2. QED
    BY <2>1, <1>b
<1>45. ASSUME SleepPower
      PROVE  ShieldInv'
  <2>1. UNCHANGED <<op, lease>> /\ sleep.pc \in Sleeping
    BY <1>45 DEF SleepPower, machinery, Sleeping
  <2>2. QED
    BY <2>1, <1>b
<1>46. ASSUME SleepBreaks
      PROVE  ShieldInv'
  <2>1. UNCHANGED <<op, lease>> /\ sleep' = Awake
    BY <1>46 DEF SleepBreaks, machinery
  <2>2. QED
    BY <2>1, <1>b DEF Awake, Sleeping
<1>47. ASSUME SleepEnd
      PROVE  ShieldInv'
  <2>1. UNCHANGED <<op, lease>> /\ sleep' = Awake
    BY <1>47 DEF SleepEnd, machinery
  <2>2. QED
    BY <2>1, <1>b DEF Awake, Sleeping
<1>48. ASSUME SleepCrash
      PROVE  ShieldInv'
  <2>1. UNCHANGED <<op, lease>> /\ sleep' = Awake
    BY <1>48 DEF SleepCrash, machinery
  <2>2. QED
    BY <2>1, <1>b DEF Awake, Sleeping
<1>49. ASSUME NEW m \in Machines, Lose(m)
      PROVE  ShieldInv'
  BY <1>49, <1>b DEF Lose
<1>50. CASE UNCHANGED vars
  BY <1>50, <1>b DEF vars
<1>51. QED
  BY <1>1, <1>2, <1>3, <1>4, <1>5, <1>6, <1>7, <1>8, <1>9, <1>10, <1>11, <1>12, <1>13,
     <1>14, <1>15, <1>16, <1>17, <1>18, <1>19, <1>20, <1>21, <1>22, <1>23, <1>24, <1>25,
     <1>26, <1>27, <1>28, <1>29, <1>30, <1>31, <1>32, <1>33, <1>34, <1>35, <1>36, <1>37,
     <1>38, <1>39, <1>40, <1>41, <1>42, <1>43, <1>44, <1>45, <1>46, <1>47, <1>48, <1>49,
     <1>50
     DEF Next, LeaseStep, BootStep, WorkStep, StopStep, TakeStep, SleepStep

\* What turns a machine off: a roll-back, a stop, a replacement, the idle job, or the
\* provider, and each of the first four is at the step that does it.
LEMMA WhoTurnsOff ==
  ASSUME TypeOK, NEW off \in Machines, Next, TurnedOff(off)
  PROVE  \/ \E c \in Callers : At(c, "undoing") /\ op'[c] # op[c]
         \/ \E b \in Bots : op[Api(b)].pc \in {"stop powering", "destroying"}
         \/ sleep.pc = "sleep powering"
<1>a. power \in [Machines -> {"on", "off", "gone"}]
  BY DEF TypeOK
<1>b. UNCHANGED power => FALSE
  BY DEF TurnedOff
<1>w. ASSUME NEW n, Wake(n)
      PROVE  FALSE
  BY <1>w, <1>a DEF Wake, TurnedOff
<1>u. ASSUME NEW c \in Callers, Undo(c)
      PROVE  At(c, "undoing") /\ op'[c] # op[c]
  <2>1. Jump(c, {"undoing"}, {"failing", "keeping"})
    BY <1>u, Flow
  <2>2. QED
    BY <2>1 DEF Jump, At
<1>f. ~Fault /\ ~Death
  BY DEF Fault, Death, TurnedOff, TypeOK
<1>1. ASSUME NEW c \in Callers, TakeLease(c)
      PROVE  \/ \E d \in Callers : At(d, "undoing") /\ op'[d] # op[d]
             \/ \E o \in Bots : op[Api(o)].pc \in {"stop powering", "destroying"}
             \/ sleep.pc = "sleep powering"
  BY <1>1, <1>b DEF TakeLease, machinery
<1>2. ASSUME NEW c \in Callers, CheckLease(c)
      PROVE  \/ \E d \in Callers : At(d, "undoing") /\ op'[d] # op[d]
             \/ \E o \in Bots : op[Api(o)].pc \in {"stop powering", "destroying"}
             \/ sleep.pc = "sleep powering"
  BY <1>2, <1>b DEF CheckLease, machinery
<1>3. ASSUME NEW c \in Callers, Leave(c)
      PROVE  \/ \E d \in Callers : At(d, "undoing") /\ op'[d] # op[d]
             \/ \E o \in Bots : op[Api(o)].pc \in {"stop powering", "destroying"}
             \/ sleep.pc = "sleep powering"
  BY <1>3, <1>b DEF Leave, machinery
<1>4. ASSUME NEW c \in Callers, Look(c)
      PROVE  \/ \E d \in Callers : At(d, "undoing") /\ op'[d] # op[d]
             \/ \E o \in Bots : op[Api(o)].pc \in {"stop powering", "destroying"}
             \/ sleep.pc = "sleep powering"
  BY <1>4, <1>b DEF Look, machinery
<1>5. ASSUME NEW c \in Callers, Wait(c)
      PROVE  \/ \E d \in Callers : At(d, "undoing") /\ op'[d] # op[d]
             \/ \E o \in Bots : op[Api(o)].pc \in {"stop powering", "destroying"}
             \/ sleep.pc = "sleep powering"
  BY <1>5, <1>b DEF Wait, machinery
<1>6. ASSUME NEW c \in Callers, Claim(c)
      PROVE  \/ \E d \in Callers : At(d, "undoing") /\ op'[d] # op[d]
             \/ \E o \in Bots : op[Api(o)].pc \in {"stop powering", "destroying"}
             \/ sleep.pc = "sleep powering"
  BY <1>6, <1>b DEF Claim, machinery
<1>7. ASSUME NEW c \in Callers, Start(c)
      PROVE  \/ \E d \in Callers : At(d, "undoing") /\ op'[d] # op[d]
             \/ \E o \in Bots : op[Api(o)].pc \in {"stop powering", "destroying"}
             \/ sleep.pc = "sleep powering"
  BY <1>7, <1>w DEF Start, Provisioned
<1>8. ASSUME NEW c \in Callers, Prepare(c)
      PROVE  \/ \E d \in Callers : At(d, "undoing") /\ op'[d] # op[d]
             \/ \E o \in Bots : op[Api(o)].pc \in {"stop powering", "destroying"}
             \/ sleep.pc = "sleep powering"
  BY <1>8, <1>b DEF Prepare, machinery
<1>9. ASSUME NEW c \in Callers, Activate(c)
      PROVE  \/ \E d \in Callers : At(d, "undoing") /\ op'[d] # op[d]
             \/ \E o \in Bots : op[Api(o)].pc \in {"stop powering", "destroying"}
             \/ sleep.pc = "sleep powering"
  BY <1>9, <1>b DEF Activate, machinery
<1>10. ASSUME NEW c \in Callers, BootFails(c)
      PROVE  \/ \E d \in Callers : At(d, "undoing") /\ op'[d] # op[d]
             \/ \E o \in Bots : op[Api(o)].pc \in {"stop powering", "destroying"}
             \/ sleep.pc = "sleep powering"
  BY <1>10, <1>b DEF BootFails, machinery
<1>11. ASSUME NEW c \in Callers, Undo(c)
      PROVE  \/ \E d \in Callers : At(d, "undoing") /\ op'[d] # op[d]
             \/ \E o \in Bots : op[Api(o)].pc \in {"stop powering", "destroying"}
             \/ sleep.pc = "sleep powering"
  BY <1>11, <1>u
<1>12. ASSUME NEW c \in Callers, Fail(c)
      PROVE  \/ \E d \in Callers : At(d, "undoing") /\ op'[d] # op[d]
             \/ \E o \in Bots : op[Api(o)].pc \in {"stop powering", "destroying"}
             \/ sleep.pc = "sleep powering"
  BY <1>12, <1>b DEF Fail, machinery
<1>13. ASSUME NEW c \in Callers, Reconnect(c)
      PROVE  \/ \E d \in Callers : At(d, "undoing") /\ op'[d] # op[d]
             \/ \E o \in Bots : op[Api(o)].pc \in {"stop powering", "destroying"}
             \/ sleep.pc = "sleep powering"
  BY <1>13, <1>w DEF Reconnect, Provisioned
<1>14. ASSUME NEW c \in Callers, Crash(c)
      PROVE  \/ \E d \in Callers : At(d, "undoing") /\ op'[d] # op[d]
             \/ \E o \in Bots : op[Api(o)].pc \in {"stop powering", "destroying"}
             \/ sleep.pc = "sleep powering"
  BY <1>14, <1>f DEF Crash
<1>15. ASSUME NEW b \in Bots, Message(b)
      PROVE  \/ \E d \in Callers : At(d, "undoing") /\ op'[d] # op[d]
             \/ \E o \in Bots : op[Api(o)].pc \in {"stop powering", "destroying"}
             \/ sleep.pc = "sleep powering"
  BY <1>15, <1>b DEF Message, machinery
<1>16. ASSUME NEW b \in Bots, Cancel(b)
      PROVE  \/ \E d \in Callers : At(d, "undoing") /\ op'[d] # op[d]
             \/ \E o \in Bots : op[Api(o)].pc \in {"stop powering", "destroying"}
             \/ sleep.pc = "sleep powering"
  BY <1>16, <1>b DEF Cancel, machinery
<1>17. ASSUME NEW b \in Bots, Begin(b)
      PROVE  \/ \E d \in Callers : At(d, "undoing") /\ op'[d] # op[d]
             \/ \E o \in Bots : op[Api(o)].pc \in {"stop powering", "destroying"}
             \/ sleep.pc = "sleep powering"
  BY <1>17, <1>b DEF Begin, machinery
<1>18. ASSUME NEW b \in Bots, Expire(b)
      PROVE  \/ \E d \in Callers : At(d, "undoing") /\ op'[d] # op[d]
             \/ \E o \in Bots : op[Api(o)].pc \in {"stop powering", "destroying"}
             \/ sleep.pc = "sleep powering"
  BY <1>18, <1>b DEF Expire, machinery
<1>19. ASSUME NEW b \in Bots, Work(b)
      PROVE  \/ \E d \in Callers : At(d, "undoing") /\ op'[d] # op[d]
             \/ \E o \in Bots : op[Api(o)].pc \in {"stop powering", "destroying"}
             \/ sleep.pc = "sleep powering"
  BY <1>19, <1>w DEF Work
<1>20. ASSUME NEW b \in Bots, Export(b)
      PROVE  \/ \E d \in Callers : At(d, "undoing") /\ op'[d] # op[d]
             \/ \E o \in Bots : op[Api(o)].pc \in {"stop powering", "destroying"}
             \/ sleep.pc = "sleep powering"
  BY <1>20, <1>w DEF Export
<1>21. ASSUME NEW b \in Bots, Save(b)
      PROVE  \/ \E d \in Callers : At(d, "undoing") /\ op'[d] # op[d]
             \/ \E o \in Bots : op[Api(o)].pc \in {"stop powering", "destroying"}
             \/ sleep.pc = "sleep powering"
  BY <1>21, <1>b DEF Save, machinery
<1>22. ASSUME NEW b \in Bots, Falter(b)
      PROVE  \/ \E d \in Callers : At(d, "undoing") /\ op'[d] # op[d]
             \/ \E o \in Bots : op[Api(o)].pc \in {"stop powering", "destroying"}
             \/ sleep.pc = "sleep powering"
  BY <1>22, <1>b DEF Falter, machinery
<1>23. ASSUME NEW b \in Bots, Finish(b)
      PROVE  \/ \E d \in Callers : At(d, "undoing") /\ op'[d] # op[d]
             \/ \E o \in Bots : op[Api(o)].pc \in {"stop powering", "destroying"}
             \/ sleep.pc = "sleep powering"
  BY <1>23, <1>b DEF Finish, machinery
<1>24. ASSUME NEW b \in Bots, StopClaim(b)
      PROVE  \/ \E d \in Callers : At(d, "undoing") /\ op'[d] # op[d]
             \/ \E o \in Bots : op[Api(o)].pc \in {"stop powering", "destroying"}
             \/ sleep.pc = "sleep powering"
  BY <1>24, <1>b DEF StopClaim, machinery
<1>25. ASSUME NEW b \in Bots, StopCheck(b)
      PROVE  \/ \E d \in Callers : At(d, "undoing") /\ op'[d] # op[d]
             \/ \E o \in Bots : op[Api(o)].pc \in {"stop powering", "destroying"}
             \/ sleep.pc = "sleep powering"
  BY <1>25, <1>b DEF StopCheck, machinery
<1>26. ASSUME NEW b \in Bots, StopExport(b)
      PROVE  \/ \E d \in Callers : At(d, "undoing") /\ op'[d] # op[d]
             \/ \E o \in Bots : op[Api(o)].pc \in {"stop powering", "destroying"}
             \/ sleep.pc = "sleep powering"
  BY <1>26, <1>w DEF StopExport
<1>27. ASSUME NEW b \in Bots, StopSave(b)
      PROVE  \/ \E d \in Callers : At(d, "undoing") /\ op'[d] # op[d]
             \/ \E o \in Bots : op[Api(o)].pc \in {"stop powering", "destroying"}
             \/ sleep.pc = "sleep powering"
  BY <1>27, <1>b DEF StopSave, machinery
<1>28. ASSUME NEW b \in Bots, StopPower(b)
      PROVE  \/ \E d \in Callers : At(d, "undoing") /\ op'[d] # op[d]
             \/ \E o \in Bots : op[Api(o)].pc \in {"stop powering", "destroying"}
             \/ sleep.pc = "sleep powering"
  BY <1>28 DEF StopPower, At
<1>29. ASSUME NEW b \in Bots, StopBreaks(b)
      PROVE  \/ \E d \in Callers : At(d, "undoing") /\ op'[d] # op[d]
             \/ \E o \in Bots : op[Api(o)].pc \in {"stop powering", "destroying"}
             \/ sleep.pc = "sleep powering"
  BY <1>29, <1>b DEF StopBreaks, machinery
<1>30. ASSUME NEW b \in Bots, StopEnd(b)
      PROVE  \/ \E d \in Callers : At(d, "undoing") /\ op'[d] # op[d]
             \/ \E o \in Bots : op[Api(o)].pc \in {"stop powering", "destroying"}
             \/ sleep.pc = "sleep powering"
  BY <1>30, <1>b DEF StopEnd, machinery
<1>31. ASSUME NEW b \in Bots, TakeLook(b)
      PROVE  \/ \E d \in Callers : At(d, "undoing") /\ op'[d] # op[d]
             \/ \E o \in Bots : op[Api(o)].pc \in {"stop powering", "destroying"}
             \/ sleep.pc = "sleep powering"
  BY <1>31, <1>b DEF TakeLook, machinery
<1>32. ASSUME NEW b \in Bots, TakeClaim(b)
      PROVE  \/ \E d \in Callers : At(d, "undoing") /\ op'[d] # op[d]
             \/ \E o \in Bots : op[Api(o)].pc \in {"stop powering", "destroying"}
             \/ sleep.pc = "sleep powering"
  BY <1>32, <1>b DEF TakeClaim, machinery
<1>33. ASSUME NEW b \in Bots, TakeCheck(b)
      PROVE  \/ \E d \in Callers : At(d, "undoing") /\ op'[d] # op[d]
             \/ \E o \in Bots : op[Api(o)].pc \in {"stop powering", "destroying"}
             \/ sleep.pc = "sleep powering"
  BY <1>33, <1>b DEF TakeCheck, machinery
<1>34. ASSUME NEW b \in Bots, TakeExport(b)
      PROVE  \/ \E d \in Callers : At(d, "undoing") /\ op'[d] # op[d]
             \/ \E o \in Bots : op[Api(o)].pc \in {"stop powering", "destroying"}
             \/ sleep.pc = "sleep powering"
  BY <1>34, <1>w DEF TakeExport
<1>35. ASSUME NEW b \in Bots, TakeSave(b)
      PROVE  \/ \E d \in Callers : At(d, "undoing") /\ op'[d] # op[d]
             \/ \E o \in Bots : op[Api(o)].pc \in {"stop powering", "destroying"}
             \/ sleep.pc = "sleep powering"
  BY <1>35, <1>b DEF TakeSave, machinery
<1>36. ASSUME NEW b \in Bots, Destroy(b)
      PROVE  \/ \E d \in Callers : At(d, "undoing") /\ op'[d] # op[d]
             \/ \E o \in Bots : op[Api(o)].pc \in {"stop powering", "destroying"}
             \/ sleep.pc = "sleep powering"
  BY <1>36 DEF Destroy, At
<1>37. ASSUME NEW b \in Bots, TakeBreaks(b)
      PROVE  \/ \E d \in Callers : At(d, "undoing") /\ op'[d] # op[d]
             \/ \E o \in Bots : op[Api(o)].pc \in {"stop powering", "destroying"}
             \/ sleep.pc = "sleep powering"
  BY <1>37, <1>b DEF TakeBreaks, machinery
<1>38. ASSUME NEW b \in Bots, TakeEnd(b)
      PROVE  \/ \E d \in Callers : At(d, "undoing") /\ op'[d] # op[d]
             \/ \E o \in Bots : op[Api(o)].pc \in {"stop powering", "destroying"}
             \/ sleep.pc = "sleep powering"
  BY <1>38, <1>b DEF TakeEnd, machinery
<1>39. ASSUME NEW b \in Bots, NEW mode \in Mode \ {"run"}, Request(b, mode)
      PROVE  \/ \E d \in Callers : At(d, "undoing") /\ op'[d] # op[d]
             \/ \E o \in Bots : op[Api(o)].pc \in {"stop powering", "destroying"}
             \/ sleep.pc = "sleep powering"
  BY <1>39, <1>b DEF Request, machinery
<1>40. ASSUME SleepLook
      PROVE  \/ \E d \in Callers : At(d, "undoing") /\ op'[d] # op[d]
             \/ \E o \in Bots : op[Api(o)].pc \in {"stop powering", "destroying"}
             \/ sleep.pc = "sleep powering"
  BY <1>40, <1>b DEF SleepLook, machinery
<1>41. ASSUME SleepExport
      PROVE  \/ \E d \in Callers : At(d, "undoing") /\ op'[d] # op[d]
             \/ \E o \in Bots : op[Api(o)].pc \in {"stop powering", "destroying"}
             \/ sleep.pc = "sleep powering"
  BY <1>41, <1>w, <1>b DEF SleepExport
<1>42. ASSUME SleepSave
      PROVE  \/ \E d \in Callers : At(d, "undoing") /\ op'[d] # op[d]
             \/ \E o \in Bots : op[Api(o)].pc \in {"stop powering", "destroying"}
             \/ sleep.pc = "sleep powering"
  BY <1>42, <1>b DEF SleepSave, machinery
<1>43. ASSUME SleepClaim
      PROVE  \/ \E d \in Callers : At(d, "undoing") /\ op'[d] # op[d]
             \/ \E o \in Bots : op[Api(o)].pc \in {"stop powering", "destroying"}
             \/ sleep.pc = "sleep powering"
  BY <1>43, <1>b DEF SleepClaim, machinery
<1>44. ASSUME SleepCheck
      PROVE  \/ \E d \in Callers : At(d, "undoing") /\ op'[d] # op[d]
             \/ \E o \in Bots : op[Api(o)].pc \in {"stop powering", "destroying"}
             \/ sleep.pc = "sleep powering"
  BY <1>44, <1>b DEF SleepCheck, machinery
<1>45. ASSUME SleepPower
      PROVE  \/ \E d \in Callers : At(d, "undoing") /\ op'[d] # op[d]
             \/ \E o \in Bots : op[Api(o)].pc \in {"stop powering", "destroying"}
             \/ sleep.pc = "sleep powering"
  BY <1>45 DEF SleepPower
<1>46. ASSUME SleepBreaks
      PROVE  \/ \E d \in Callers : At(d, "undoing") /\ op'[d] # op[d]
             \/ \E o \in Bots : op[Api(o)].pc \in {"stop powering", "destroying"}
             \/ sleep.pc = "sleep powering"
  BY <1>46, <1>b DEF SleepBreaks, machinery
<1>47. ASSUME SleepEnd
      PROVE  \/ \E d \in Callers : At(d, "undoing") /\ op'[d] # op[d]
             \/ \E o \in Bots : op[Api(o)].pc \in {"stop powering", "destroying"}
             \/ sleep.pc = "sleep powering"
  BY <1>47, <1>b DEF SleepEnd, machinery
<1>48. ASSUME SleepCrash
      PROVE  \/ \E d \in Callers : At(d, "undoing") /\ op'[d] # op[d]
             \/ \E o \in Bots : op[Api(o)].pc \in {"stop powering", "destroying"}
             \/ sleep.pc = "sleep powering"
  BY <1>48, <1>f DEF SleepCrash
<1>49. ASSUME NEW m \in Machines, Lose(m)
      PROVE  \/ \E d \in Callers : At(d, "undoing") /\ op'[d] # op[d]
             \/ \E o \in Bots : op[Api(o)].pc \in {"stop powering", "destroying"}
             \/ sleep.pc = "sleep powering"
  BY <1>49, <1>f DEF Lose
<1>50. QED
  BY <1>1, <1>2, <1>3, <1>4, <1>5, <1>6, <1>7, <1>8, <1>9, <1>10, <1>11, <1>12, <1>13,
     <1>14, <1>15, <1>16, <1>17, <1>18, <1>19, <1>20, <1>21, <1>22, <1>23, <1>24, <1>25,
     <1>26, <1>27, <1>28, <1>29, <1>30, <1>31, <1>32, <1>33, <1>34, <1>35, <1>36, <1>37,
     <1>38, <1>39, <1>40, <1>41, <1>42, <1>43, <1>44, <1>45, <1>46, <1>47, <1>48, <1>49
     DEF Next, LeaseStep, BootStep, WorkStep, StopStep, TakeStep, SleepStep

\* No stop, no replacement and no sleep ever turns off the machine that a bot works on
\* under its lease.
THEOREM WorkersAreSpared == Spec => SparesWorkers
<1>1. Init => TypeOK /\ TeardownInv /\ ShieldInv
  <2>1. ASSUME Init
        PROVE  \A c \in Callers : op[c].pc = "idle"
    BY <2>1 DEF Init, Quiet
  <2>2. Init => ShieldInv
    BY <2>1, BotsCall DEF ShieldInv, Under, Tearing, Early, Provisioning, Using, Stopping,
       Taking
  <2>3. QED
    BY <2>2, InitTyped, TeardownStarts
<1>2. TypeOK /\ TeardownInv /\ ShieldInv /\ [Next]_vars => (TypeOK /\ TeardownInv /\ ShieldInv)'
  BY StepTyped, TeardownInductive, ShieldInductive
<1>3. TypeOK /\ TeardownInv /\ ShieldInv /\ [Next]_vars =>
        [\A b \in Bots :
           Holds(b) /\ TurnedOff(op[Worker(b)].ref) =>
             \E c \in Callers : At(c, "undoing") /\ op'[c] # op[c]]_vars
  <2> SUFFICES ASSUME TypeOK, ShieldInv, Next, NEW b \in Bots, Holds(b),
                      TurnedOff(op[Worker(b)].ref)
               PROVE  \E c \in Callers : At(c, "undoing") /\ op'[c] # op[c]
    OBVIOUS
  <2>1. op[Worker(b)].ref \in Machines
    BY BotsCall DEF Holds, TypeOK, Given
  <2>2. Under(b)
    BY DEF Holds, Under
  <2>3. \A o \in Bots : op[Api(o)].pc \notin {"stop powering", "destroying"}
    BY <2>2, BotsCall DEF ShieldInv, Tearing, Stopping, Taking
  <2>4. sleep.pc # "sleep powering"
    BY <2>2 DEF ShieldInv, Sleeping
  <2>5. QED
    BY <2>1, <2>3, <2>4, WhoTurnsOff
<1>4. QED
  BY <1>1, <1>2, <1>3, PTL DEF Spec, SparesWorkers

=============================================================================
