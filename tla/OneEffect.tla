------------------------------ MODULE OneEffect ------------------------------
(***************************************************************************)
(* What the record of external effects promises of each effect: it is      *)
(* carried out once at most.  One that is claimed first is claimed for     *)
(* good: whoever has claimed it carries it out, or nobody does, and what   *)
(* the user has refused is never claimed.                                  *)
(***************************************************************************)
EXTENDS Naturals

CONSTANT IsClaimed   \* it is claimed before it is carried out

VARIABLES
  fate,    \* what has become of it
  times    \* how often it was carried out

vars == <<fate, times>>

Init == fate = "open" /\ times = 0

Turns(from, to) == fate \in from /\ fate' = to

\* The user says yes or no while the effect is open.
Allow == IsClaimed /\ Turns({"open"}, "allowed") /\ UNCHANGED times
Refuse == IsClaimed /\ Turns({"open"}, "refused") /\ UNCHANGED times

\* Nothing leads back to a fate in which the effect can be claimed.
Claim == IsClaimed /\ Turns({"open", "allowed"}, "claimed") /\ UNCHANGED times

CarryOut ==
  /\ Turns(IF IsClaimed THEN {"claimed"} ELSE {"open"}, "done")
  /\ times' = times + 1

\* An answer that comes too late is written over what has become of the effect.
\* From then on there is no promise.
Dispute ==
  /\ IsClaimed
  /\ Turns({"allowed", "refused", "claimed", "done"}, "disputed")
  /\ UNCHANGED times

CarryOutDisputed == Turns({"disputed"}, "disputed") /\ times' = times + 1

Next == Allow \/ Refuse \/ Claim \/ CarryOut \/ Dispute \/ CarryOutDisputed

Spec == Init /\ [][Next]_vars
=============================================================================
