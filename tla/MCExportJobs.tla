---------------------------- MODULE MCExportJobs ----------------------------
(***************************************************************************)
(* Instances of ExportJobs for TLC. The first user has a Google token in   *)
(* the store (as the test fixtures of the worker have it), the second does *)
(* not. Budgets name how many faults of each kind a run explores.          *)
(***************************************************************************)
EXTENDS ExportJobs, TLC

CONSTANTS w1, w2, j1, j2, u1, u2

OneWorker  == {w1}
TwoWorkers == {w1, w2}
OneJob     == {j1}
TwoJobs    == {j1, j2}
BothUsers  == {u1, u2}
FirstUser  == {u1}
Nobody     == {}

Budget(crash, stop, redis, start) ==
    [k \in FaultKinds |-> CASE k = "crash" -> crash [] k = "stop" -> stop
                            [] k = "redis" -> redis [] OTHER -> start]

OneStop        == Budget(0, 1, 0, 0)
CrashAndStop   == Budget(1, 1, 0, 0)
CrashAndErrors == Budget(1, 0, 1, 1)

\* No operator tells two workers apart.
WorkersOnly == Permutations(TwoWorkers)
=============================================================================
