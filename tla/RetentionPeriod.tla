--------------------------- MODULE RetentionPeriod ---------------------------
(***************************************************************************)
(* What the cancellation of a workspace promises: a deadline is set once   *)
(* the workspace is closed, nothing is destroyed before one has passed, a  *)
(* record goes after what is found through it, and the clean-up is         *)
(* reported over only when everything has been destroyed.                  *)
(***************************************************************************)
EXTENDS Naturals

CONSTANTS
  Period,       \* the days of retention
  Closing,      \* the effects that close a workspace,
  Destroying,   \* and those that destroy it
  FoundBy       \* pairs: an effect on what is found through a record, and the
                \* effect that deletes the record

VARIABLES
  today,
  inPlace,      \* the effects so far
  deadlines,    \* all that were ever set
  over          \* the clean-up is reported to be complete

vars == <<today, inPlace, deadlines, over>>

Init == today = 0 /\ inPlace = {} /\ deadlines = {} /\ over = FALSE

PassDay == today' = today + 1 /\ UNCHANGED <<inPlace, deadlines, over>>

Close(x) ==
  /\ x \in Closing
  /\ inPlace' = inPlace \cup {x}
  /\ UNCHANGED <<today, deadlines, over>>

\* The retention counts from the day of the operator's request, which is today at
\* the latest.
SetDeadline(d) ==
  /\ Closing \subseteq inPlace
  /\ deadlines' = deadlines \cup {d} /\ over' = FALSE
  /\ UNCHANGED <<today, inPlace>>

Destroy(x) ==
  /\ x \in Destroying
  /\ \E d \in deadlines : d <= today
  /\ \A found \in Destroying : <<found, x>> \in FoundBy => found \in inPlace
  /\ inPlace' = inPlace \cup {x}
  /\ UNCHANGED <<today, deadlines, over>>

Report ==
  /\ Destroying \subseteq inPlace
  /\ over' = TRUE
  /\ UNCHANGED <<today, inPlace, deadlines>>

\* A failure that comes late is written over the report.
Retract == over' = FALSE /\ UNCHANGED <<today, inPlace, deadlines>>

Next ==
  \/ PassDay \/ Report \/ Retract
  \/ \E x \in Closing : Close(x)
  \/ \E x \in Destroying : Destroy(x)
  \/ \E d \in Period .. today + Period : SetDeadline(d)

Spec == Init /\ [][Next]_vars
=============================================================================
