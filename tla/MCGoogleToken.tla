---------------------------- MODULE MCGoogleToken ----------------------------
(* Instances of GoogleToken for TLC.                                       *)
EXTENDS GoogleToken, TLC

CONSTANTS c1, c2, p1, p2, p3

TwoCalls     == {c1, c2}
TwoProcesses == {p1, p2}
ThreeProcesses == {p1, p2, p3}
AllAlike     == Permutations(TwoCalls) \union Permutations(TwoProcesses)
=============================================================================
