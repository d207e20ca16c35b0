---------------------------- MODULE MCTeamComputer ----------------------------
(***************************************************************************)
(* Instances of TeamComputer for TLC.                                      *)
(***************************************************************************)
EXTENDS TeamComputer, TLC

CONSTANTS b1, b2, m1, m2

TwoBots == {b1, b2}
TwoMachines == {m1, m2}

LikeBotsAndMachines == Permutations(TwoBots) \cup Permutations(TwoMachines)
=============================================================================
