----------------------------- MODULE ThreadFeed -----------------------------
(***************************************************************************)
(* What the event log of a thread promises to the clients that follow it:  *)
(* events reach a client in the order of their sequence numbers, none      *)
(* twice, and none is passed over unless it has been deleted.              *)
(***************************************************************************)
EXTENDS Naturals

CONSTANT Clients

VARIABLES
  last,   \* the sequence number of the last event committed, the first being 1
  gone,   \* the events deleted since
  open,   \* the clients that have loaded the thread
  seen    \* the last event each client has received, or its snapshot included

vars == <<last, gone, open, seen>>

Events == 1..last

Init ==
  /\ last = 0
  /\ gone = {}
  /\ open = {}
  /\ seen = [c \in Clients |-> 0]

\* A transaction deletes some events and appends some, or does one of the two.
Commit ==
  /\ last' \in Nat /\ last' >= last
  /\ gone \subseteq gone' /\ gone' \subseteq Events
  /\ UNCHANGED <<open, seen>>

\* A client starts from nothing, or from a snapshot that stands for the events up to
\* some point, with at most deleted ones after it.
Open(c) ==
  /\ c \notin open
  /\ open' = open \cup {c}
  /\ \E n \in 0..last : /\ n = 0 \/ \A m \in n+1..last : m \in gone
                        /\ seen' = [seen EXCEPT ![c] = n]
  /\ UNCHANGED <<last, gone>>

\* The next event, or a later one if those between are deleted.  It may have been
\* deleted itself since it was read.
Receive(c) ==
  /\ c \in open
  /\ \E n \in seen[c]+1..last : /\ \A m \in seen[c]+1..n-1 : m \in gone
                                /\ seen' = [seen EXCEPT ![c] = n]
  /\ UNCHANGED <<last, gone, open>>

Next == Commit \/ \E c \in Clients : Open(c) \/ Receive(c)

Spec == Init /\ [][Next]_vars
=============================================================================
