----------------------------- MODULE JobService -----------------------------
(***************************************************************************)
(* What the two job tools promise to their callers, without Redis, workers *)
(* or processes: a job is asked for by one user, has at most one answer at *)
(* a time, keeps that answer until it expires, and gives it to nobody but  *)
(* the user who asked. ExportJobs implements it (ExportJobs!Service).      *)
(***************************************************************************)
CONSTANTS Jobs, Users, Records, NoUser, NoResult

VARIABLES
    asked,       \* the user who asked for a job
    answer,      \* what wait-for-job would answer now
    delivered    \* <<user, job>> whose answer was delivered

serviceVars == <<asked, answer, delivered>>

Init ==
    /\ asked = [j \in Jobs |-> NoUser]
    /\ answer = [j \in Jobs |-> NoResult]
    /\ delivered = {}

\* drive-export-large-file: a fresh job id for this caller.
Submit(u, j) ==
    /\ asked[j] = NoUser
    /\ asked' = [asked EXCEPT ![j] = u]
    /\ UNCHANGED <<answer, delivered>>

\* The export ends, one way or another; an answer is never replaced.
Complete(j, r) ==
    /\ asked[j] # NoUser
    /\ answer[j] = NoResult
    /\ answer' = [answer EXCEPT ![j] = r]
    /\ UNCHANGED <<asked, delivered>>

\* RESULT_TTL_SECONDS have passed for the answers of S.
Expire(S) ==
    /\ answer' = [j \in Jobs |-> IF j \in S THEN NoResult ELSE answer[j]]
    /\ UNCHANGED <<asked, delivered>>

\* wait-for-job: "Only the user who created the job may read it."
Deliver(u, j) ==
    /\ asked[j] = u
    /\ answer[j] # NoResult
    /\ delivered' = delivered \union {<<u, j>>}
    /\ UNCHANGED <<asked, answer>>

Next ==
    \/ \E u \in Users, j \in Jobs : Submit(u, j) \/ Deliver(u, j)
    \/ \E j \in Jobs, r \in Records : Complete(j, r)
    \/ \E S \in SUBSET Jobs : Expire(S)

Spec == Init /\ [][Next]_serviceVars
=============================================================================
