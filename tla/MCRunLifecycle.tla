--------------------------- MODULE MCRunLifecycle ---------------------------
(* Instances of RunLifecycle for TLC. *)
EXTENDS RunLifecycle, TLC

CONSTANTS r1, r2, dm, group, e1, e2, e3, w1

TwoRuns == {r1, r2}
OneRun == {r1}
ThreeSlots == {e1, e2, e3}
TwoSlots == {e1, e2}
OneSlot == {e1}

\* Every run in the bot's own thread.
OneThread == {dm}
InOneThread == [r \in Runs |-> dm]

\* The second run in a group the bot is a member of.
TwoThreads == {dm, group}
InTwoThreads == [r \in Runs |-> IF r = r2 THEN group ELSE dm]

\* All slots in one process, as one worker serves its jobs.
OneWorker == {w1}
InOneWorker == [e \in Execs |-> w1]

\* The slots of one process differ in nothing.  (For runs that check safety only.)
LikeSlots == Permutations(Execs)
=============================================================================
