---------------------------- MODULE MCToolCalls ----------------------------
(* Instances of ToolCalls for TLC.                                         *)
EXTENDS ToolCalls

CONSTANTS c1, c2

TwoCalls     == {c1, c2}
OneAnonymous == {c2}
=============================================================================
