------------------------------- MODULE HeldRun -------------------------------
(***************************************************************************)
(* What the lease on a run promises.  Many invocations may believe that    *)
(* they hold the run, but one at most does, and it is the one that puts    *)
(* the run back, fails it or completes it.  Anybody else can only cancel   *)
(* the run, or take it once the lease has run out.                         *)
(***************************************************************************)

VARIABLES
  phase,      \* "none", "open" (it may be taken), "out", or how it ended
  believers,  \* the invocations that took it and have not left it since
  holders,    \* those among them that hold it
  lapsed,     \* it is out, and the lease has run out
  by          \* the attempts that completed it

vars == <<phase, believers, holders, lapsed, by>>

One(s) == \E x \in s : s = {x}

Init == phase = "none" /\ believers = {} /\ holders = {} /\ ~lapsed /\ by = {}

Moves(from, to) == phase \in from /\ phase' = to
Unheld == holders' = {} /\ ~lapsed'

\* The user sends the run, or an operator puts a failed one back.
Open == Moves({"none", "failed"}, "open") /\ Unheld /\ UNCHANGED <<believers, by>>

\* A new invocation takes it, also from a holder whose lease has run out.
Take ==
  /\ phase = "open" \/ lapsed
  /\ phase' = "out"
  /\ \E e \in believers' : /\ e \notin believers
                           /\ believers' = believers \cup {e}
                           /\ holders' = {e}
  /\ ~lapsed'
  /\ UNCHANGED by

Lapse ==
  phase = "out" /\ ~lapsed /\ lapsed' /\ UNCHANGED <<phase, believers, holders, by>>
Renew ==
  lapsed /\ ~lapsed' /\ One(holders) /\ UNCHANGED <<phase, believers, holders, by>>

HolderLeaves == \E e \in believers : holders = {e} /\ believers' = believers \ {e}

\* The holder is done with it for now, gives it up, ...
PutBack == Moves({"out"}, "open") /\ HolderLeaves /\ Unheld /\ UNCHANGED by
Fail == Moves({"out"}, "failed") /\ HolderLeaves /\ Unheld /\ UNCHANGED by

\* ... or completes it, which no attempt has done before.
Complete ==
  Moves({"out"}, "completed") /\ HolderLeaves /\ Unheld /\ by = {} /\ One(by')

\* Whoever leaves or dies without a word changes nothing else, holder or not.
Vanish ==
  /\ \E e \in believers : believers' = believers \ {e} /\ holders' = holders \ {e}
  /\ UNCHANGED <<phase, lapsed, by>>

Cancel == Moves({"open", "out"}, "cancelled") /\ Unheld /\ UNCHANGED <<believers, by>>

Next ==
  \/ Open \/ Take \/ Lapse \/ Renew \/ PutBack \/ Fail \/ Complete \/ Vanish \/ Cancel

Spec == Init /\ [][Next]_vars
=============================================================================
