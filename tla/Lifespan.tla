------------------------------ MODULE Lifespan ------------------------------
(***************************************************************************)
(* The life of a gateway process: what lifespan opens and starts before it *)
(* yields, and what its finally clause stops and closes (main.py), around  *)
(* the session manager (mcp/app.py) and the clients (shared/redis.py,      *)
(* shared/http_client.py). One action stands for what happens up to the    *)
(* next await. Any of these may raise; what was opened before is then      *)
(* closed by the same finally clause.                                      *)
(***************************************************************************)
EXTENDS Naturals, Sequences

CONSTANTS
    Procs,      \* gateway processes (uvicorn --workers)
    MaxRaises   \* bound: exceptions raised by the steps of lifespan

ASSUME LifespanAssumption == MaxRaises \in Nat

VARIABLES
    step,       \* where the lifespan of a process is
    open,       \* the clients it holds
    worker,     \* the task of its JobWorker
    raises,     \* exceptions so far
    closeError  \* history: a close of this lifespan raised

lifeVars == <<step, open, worker, raises, closeError>>

\* The order of the finally clause.
CloseOrder == <<"jobs_redis", "drive_client", "slack_client", "http_client", "redis">>
Clients == {CloseOrder[i] : i \in 1..Len(CloseOrder)}

\* What a JobWorker uses: its own Redis, the token store and both HTTP clients.
WorkerNeeds == {"jobs_redis", "redis", "drive_client", "http_client"}

StartSteps == {"redis", "clients", "google", "slack", "jobs"}
StopSteps  == {"cancel", "await", "close"}
Steps == {"down", "serving", "ended"} \union StartSteps \union StopSteps

LifeInit ==
    /\ step = [p \in Procs |-> "down"]
    /\ open = [p \in Procs |-> {}]
    /\ worker = [p \in Procs |-> "none"]
    /\ raises = 0
    /\ closeError = [p \in Procs |-> FALSE]

Goto(p, s) == step' = [step EXCEPT ![p] = s]

\* An exception takes the lifespan to s.
Raise(p, s) ==
    /\ raises < MaxRaises
    /\ raises' = raises + 1
    /\ Goto(p, s)

Start(p) ==
    /\ step[p] = "down"
    /\ Goto(p, "redis")
    /\ UNCHANGED <<open, worker, raises, closeError>>

\* create_redis, before the try: when its PING fails, nothing is held.
Connect(p) ==
    /\ step[p] = "redis"
    /\ \/ /\ open' = [open EXCEPT ![p] = {"redis"}]
          /\ Goto(p, "clients") /\ UNCHANGED raises
       \/ Raise(p, "ended") /\ UNCHANGED open
    /\ UNCHANGED <<worker, closeError>>

\* The HTTP clients, then the Fernet keys, which raise when they are malformed.
Build(p) ==
    /\ step[p] = "clients"
    /\ open' = [open EXCEPT ![p] = @ \union {"http_client", "drive_client", "slack_client"}]
    /\ (Goto(p, "google") /\ UNCHANGED raises) \/ Raise(p, "cancel")
    /\ UNCHANGED <<worker, closeError>>

\* seed_shared_token_if_absent, then seed_shared_slack_tokens_if_absent. What
\* they leave in the store is the concern of GoogleToken; here they may fail.
Seed(p) ==
    /\ \/ step[p] = "google" /\ Goto(p, "slack") /\ UNCHANGED raises
       \/ step[p] = "slack" /\ Goto(p, "jobs") /\ UNCHANGED raises
       \/ step[p] \in {"google", "slack"} /\ Raise(p, "cancel")
    /\ UNCHANGED <<open, worker, closeError>>

\* The Redis of the jobs; then, without an await that waits, the worker task,
\* the session manager and the yield.
Launch(p) ==
    /\ step[p] = "jobs"
    /\ \/ /\ open' = [open EXCEPT ![p] = @ \union {"jobs_redis"}]
          /\ worker' = [worker EXCEPT ![p] = "running"]
          /\ Goto(p, "serving") /\ UNCHANGED raises
       \/ Raise(p, "cancel") /\ UNCHANGED <<open, worker>>
    /\ UNCHANGED closeError

\* JobWorker.run raises before its loop: nobody notices until the end.
WorkerFails(p) ==
    /\ worker[p] = "running" /\ step[p] = "serving"
    /\ Raise(p, "serving")
    /\ worker' = [worker EXCEPT ![p] = "failed"]
    /\ UNCHANGED <<open, closeError>>

\* The server asks the lifespan to end; manager.run() cancels the sessions.
Shutdown(p) ==
    /\ step[p] = "serving"
    /\ Goto(p, "cancel")
    /\ UNCHANGED <<open, worker, raises, closeError>>

\* Mutant: the task is cancelled but not awaited.
CancelWorkerMutant(p) ==
    /\ step[p] = "cancel"
    /\ Goto(p, "close")
    /\ worker' = [worker EXCEPT ![p] = IF @ = "running" THEN "cancelled" ELSE @]
    /\ UNCHANGED <<open, raises, closeError>>

\* worker_task.cancel(): without effect on a task that has failed.
CancelWorker(p) ==
    /\ step[p] = "cancel"
    /\ Goto(p, IF worker[p] = "none" THEN "close" ELSE "await")
    /\ worker' = [worker EXCEPT ![p] = IF @ = "running" THEN "cancelled" ELSE @]
    /\ UNCHANGED <<open, raises, closeError>>

\* The task ends some time later: its commands may have to wait for a Redis that
\* has no socket timeout.
WorkerEnds(p) ==
    /\ worker[p] = "cancelled"
    /\ worker' = [worker EXCEPT ![p] = "ended"]
    /\ UNCHANGED <<step, open, raises, closeError>>

\* Another exception replaces the CancelledError, as that of an XACK in the finally
\* clause of _process does: the loop swallows it and the worker goes on. Outside of
\* the loop it ends the task.
WorkerSwallows(p) ==
    /\ worker[p] = "cancelled"
    /\ Raise(p, step[p])
    /\ \E w \in {"running", "failed"} : worker' = [worker EXCEPT ![p] = w]
    /\ UNCHANGED <<open, closeError>>

\* Mutant: the lifespan waits for the cancellation only.
AwaitWorkerMutant(p) ==
    /\ step[p] = "await" /\ worker[p] = "ended"
    /\ Goto(p, "close")
    /\ UNCHANGED <<open, worker, raises, closeError>>

\* await worker_task: CancelledError is suppressed, the exception of a failed
\* task is not, and it leaves the finally clause.
AwaitWorker(p) ==
    /\ step[p] = "await"
    /\ worker[p] \in {"ended", "failed"}
    /\ Goto(p, IF worker[p] = "ended" THEN "close" ELSE "ended")
    /\ UNCHANGED <<open, worker, raises, closeError>>

\* The client to close next: the first of the order that is not None.
NextClose(p) == CHOOSE i \in 1..Len(CloseOrder) :
    /\ CloseOrder[i] \in open[p]
    /\ \A k \in 1..(i - 1) : CloseOrder[k] \notin open[p]

\* Mutant: the clients are closed only when the lifespan got as far as to serve.
CloseMutant(p) ==
    /\ step[p] = "close"
    /\ IF open[p] = {} \/ worker[p] = "none"
       THEN Goto(p, "ended") /\ UNCHANGED open
       ELSE open' = [open EXCEPT ![p] = @ \ {CloseOrder[NextClose(p)]}] /\ UNCHANGED step
    /\ UNCHANGED <<worker, raises, closeError>>

Close(p) ==
    /\ step[p] = "close"
    /\ IF open[p] = {}
       THEN Goto(p, "ended") /\ UNCHANGED open
       ELSE open' = [open EXCEPT ![p] = @ \ {CloseOrder[NextClose(p)]}] /\ UNCHANGED step
    /\ UNCHANGED <<worker, raises, closeError>>

\* A close that raises skips the ones after it.
CloseRaises(p) ==
    /\ step[p] = "close" /\ open[p] # {}
    /\ Raise(p, "ended")
    /\ closeError' = [closeError EXCEPT ![p] = TRUE]
    /\ UNCHANGED <<open, worker>>

\* The process exits after its lifespan, or dies.
Gone(p) ==
    /\ Goto(p, "down")
    /\ open' = [open EXCEPT ![p] = {}]
    /\ worker' = [worker EXCEPT ![p] = "none"]
    /\ closeError' = [closeError EXCEPT ![p] = FALSE]
    /\ UNCHANGED raises

Exit(p) == step[p] = "ended" /\ Gone(p)

\* The steps of a start, of the worker and of a stop.
StartStep(p) == Start(p) \/ Connect(p) \/ Build(p) \/ Seed(p) \/ Launch(p)
WorkerStep(p) == WorkerFails(p) \/ WorkerEnds(p) \/ WorkerSwallows(p)
StopStep(p) == CancelWorker(p) \/ AwaitWorker(p) \/ Close(p) \/ CloseRaises(p) \/ Exit(p)

-----------------------------------------------------------------------------
(* Properties.                                                             *)

LifeTypeOK ==
    /\ step \in [Procs -> Steps]
    /\ open \in [Procs -> SUBSET Clients]
    /\ worker \in [Procs -> {"none", "running", "cancelled", "ended", "failed"}]
    /\ raises \in 0..MaxRaises
    /\ closeError \in [Procs -> BOOLEAN]

\* A lifespan that ends leaves no client open, wherever its start failed; unless
\* a close raised, or the worker had failed, whose exception leaves the finally
\* clause before the first close.
ClosedAtEnd ==
    \A p \in Procs : step[p] = "ended" /\ ~closeError[p] /\ worker[p] # "failed" => open[p] = {}

\* A shutdown ends, or it waits for a worker that was cancelled and has not ended,
\* perhaps never will: there is nothing else in the finally clause that it could
\* wait for.
WaitsForWorker(p) == step[p] = "await" /\ worker[p] \in {"cancelled", "running"}
ShutdownEnds ==
    \A p \in Procs : step[p] \in StopSteps ~> step[p] = "down" \/ WaitsForWorker(p)
=============================================================================
