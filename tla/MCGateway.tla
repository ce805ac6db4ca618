------------------------------ MODULE MCGateway ------------------------------
(***************************************************************************)
(* An instance of Gateway for TLC: one process, and a user whose roles are *)
(* changed between two tokens.                                             *)
(***************************************************************************)
EXTENDS Gateway

CONSTANTS p1, r1, r2, s1

OneProc     == {p1}
TwoSlots    == {r1, r2}
OneSession  == {s1}

\* A user with roles of seed_rbac.py, before and after they were changed.
TwoTokens == [t \in {"early", "late"} |->
    [sub |-> "rayray", scope |-> {},
     roles |-> IF t = "early" THEN {"drive-user", "admin-user"} ELSE {"slack-user"}]]

SomeNames == {"wait-for-job", "drive-find-document", "no-such-tool"}
=============================================================================
