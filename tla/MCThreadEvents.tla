--------------------------- MODULE MCThreadEvents ---------------------------
(* Instances of ThreadEvents for TLC. *)
EXTENDS ThreadEvents

CONSTANTS w1, w2, c1

TwoWriters == {w1, w2}
OneClient == {c1}
=============================================================================
