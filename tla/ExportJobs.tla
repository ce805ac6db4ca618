------------------------------ MODULE ExportJobs ------------------------------
(***************************************************************************)
(* The asynchronous Drive export: the two MCP tools that submit a job and  *)
(* wait for it (job_tools.py), the Redis keys they share (jobs.py) and the *)
(* worker loop that every gateway process runs (job_worker.py).            *)
(*                                                                         *)
(* Every await of the code is a point where another process may step in,   *)
(* so one action stands for what a process does between two awaits.        *)
(* Redis is modelled by the commands the code sends it: the jobs stream    *)
(* and its consumer group (XADD, XGROUP CREATE, XREADGROUP, XAUTOCLAIM,    *)
(* XACK), the owner keys and the result streams with their time to live.   *)
(* A time to live is a countdown that Tick decreases, as TTL reports it.   *)
(* Which process serves a call is not tracked: a call may go on as long as *)
(* some process is up, and one that never returns is a call that takes no  *)
(* more steps.                                                             *)
(***************************************************************************)
EXTENDS Integers, FiniteSets

CONSTANTS
    Jobs,          \* job identifiers; uuid4 yields each of them at most once
    Users,         \* downstream users, the "sub" of their JWT
    Pollers,       \* the users that call wait-for-job
    Authorized,    \* keys under which the token store holds a Google token
    Workers,       \* gateway processes, each with one JobWorker task
    ClaimCount,    \* count of XAUTOCLAIM
    ReclaimIdle,   \* _RECLAIM_IDLE_MS, in ticks
    OwnerTTL,      \* OWNER_TTL_SECONDS, in ticks
    ResultTTL,     \* RESULT_TTL_SECONDS, in ticks
    FreshRedis,    \* TRUE when no earlier deployment created the group
    MaxFaults,     \* bound on the faults of each kind
    NoUser, NoWorker, NoJob, NoResult

\* A crash kills a process, a stop is a graceful shutdown (the task is
\* cancelled), redis is an error raised by one command, and start an
\* exception raised by the worker before its loop.
FaultKinds == {"crash", "stop", "redis", "start"}

ASSUME ConstantsAssumption ==
    /\ NoUser \notin Users
    /\ Pollers \subseteq Users
    /\ NoWorker \notin Workers
    /\ NoJob \notin Jobs
    /\ NoResult \notin {"completed", "unauthorized", "failed"}
    /\ ClaimCount \in Nat \ {0}
    /\ ReclaimIdle \in Nat \ {0}
    /\ OwnerTTL \in Nat \ {0}
    /\ ResultTTL \in Nat \ {0}
    /\ FreshRedis \in BOOLEAN
    /\ MaxFaults \in [FaultKinds -> Nat]

VARIABLES
    req,            \* what became of the call that made the job id
    submitter,      \* the user whose call made it
    owner,          \* value of job:owner:{id}, NoUser when the key is absent
    ownerTTL,       \* ticks until that key expires, 0 when it is absent
    entryId,        \* id of the job's entry in jobs:drive_export, 0 for none
    lastId,         \* last id generated by that stream
    lastDelivered,  \* last id delivered to the group, NoGroup before it exists
    pel,            \* pending entries list: the consumer an entry belongs to
    idle,           \* ticks since a pending entry was last delivered
    result,         \* first record of results:{id}, the one read_result reads
    resultTTL,      \* ticks until the result expires, NoExpiry when it never does
    file,           \* the exported file on disk
    pc,             \* where each worker task is
    cur,            \* the job a worker processes
    todo,           \* the jobs it claimed and has not reached yet
    after,          \* where its loop goes on when the batch is done
    verdict,        \* the record it publishes
    stopping,       \* lifespan cancelled it and waits for it to end
    waiting,        \* the job a user is blocked on in wait-for-job
    faults,         \* faults so far, by kind
    published,      \* history: jobs for which some result was ever published
    seen            \* history: <<user, job>> whose result was returned

requestVars == <<req, submitter>>
ownerVars   == <<owner, ownerTTL>>
streamVars  == <<entryId, lastId>>
groupVars   == <<lastDelivered, pel, idle>>
resultVars  == <<result, resultTTL, published>>
workerVars  == <<pc, cur, todo, after, verdict, stopping>>
waitVars    == <<waiting, seen>>
vars == <<requestVars, ownerVars, streamVars, groupVars, resultVars, file,
          workerVars, waitVars, faults>>

NoGroup  == -1
NoExpiry == -1
Records  == {"completed", "unauthorized", "failed"}
PublishPhases == {"pubAdd", "pubTTL", "pubOwner"}
ExportPhases  == {"fetch", "open", "writing"}
LoopPhases    == {"ensure", "dead", "reclaim", "read"}
BusyPhases    == {"ack"} \union ExportPhases \union PublishPhases
Phases == {"down"} \union LoopPhases \union BusyPhases

Init ==
    /\ req = [j \in Jobs |-> "new"]
    /\ submitter = [j \in Jobs |-> NoUser]
    /\ owner = [j \in Jobs |-> NoUser]
    /\ ownerTTL = [j \in Jobs |-> 0]
    /\ entryId = [j \in Jobs |-> 0]
    /\ lastId = 0
    /\ lastDelivered = IF FreshRedis THEN NoGroup ELSE 0
    /\ pel = [j \in Jobs |-> NoWorker]
    /\ idle = [j \in Jobs |-> 0]
    /\ result = [j \in Jobs |-> NoResult]
    /\ resultTTL = [j \in Jobs |-> NoExpiry]
    /\ file = [j \in Jobs |-> "none"]
    /\ pc = [w \in Workers |-> "down"]
    /\ cur = [w \in Workers |-> NoJob]
    /\ todo = [w \in Workers |-> {}]
    /\ after = [w \in Workers |-> "reclaim"]
    /\ verdict = [w \in Workers |-> NoResult]
    /\ stopping = [w \in Workers |-> FALSE]
    /\ waiting = [u \in Users |-> NoJob]
    /\ faults = [k \in FaultKinds |-> 0]
    /\ published = {}
    /\ seen = {}

Fault(k) ==
    /\ faults[k] < MaxFaults[k]
    /\ faults' = [faults EXCEPT ![k] = @ + 1]

-----------------------------------------------------------------------------
(* Redis commands.                                                         *)

\* XADD jobs:drive_export
XAddJob(j) ==
    /\ lastId' = lastId + 1
    /\ entryId' = [entryId EXCEPT ![j] = lastId + 1]

\* XGROUP CREATE ... id="$": the group starts after the last entry of the
\* stream; BUSYGROUP leaves an existing group alone.
CreateGroup ==
    lastDelivered' = IF lastDelivered = NoGroup THEN lastId ELSE lastDelivered

\* XREADGROUP ... ">" with count=1
NextEntry == {j \in Jobs : entryId[j] # 0 /\ entryId[j] = lastDelivered + 1}

Deliver(w, j) ==
    /\ lastDelivered' = lastDelivered + 1
    /\ pel' = [pel EXCEPT ![j] = w]
    /\ idle' = [idle EXCEPT ![j] = 0]

\* XAUTOCLAIM from 0-0: the oldest ClaimCount entries that nobody touched for
\* the minimum idle time, whoever they belong to.
Claimable ==
    LET stale == {j \in Jobs : pel[j] # NoWorker /\ idle[j] >= ReclaimIdle}
    IN  {j \in stale :
            Cardinality({k \in stale : entryId[k] < entryId[j]}) < ClaimCount}

Claim(w) ==
    /\ pel' = [j \in Jobs |-> IF j \in Claimable THEN w ELSE pel[j]]
    /\ idle' = [j \in Jobs |-> IF j \in Claimable THEN 0 ELSE idle[j]]
    /\ UNCHANGED lastDelivered

\* XACK takes the entry out of the list whichever consumer holds it.
XAck(j) ==
    /\ pel' = [pel EXCEPT ![j] = NoWorker]
    /\ idle' = [idle EXCEPT ![j] = 0]
    /\ UNCHANGED lastDelivered

\* Mutant: the last record is the one that is read.
XAddResultMutant(j, v) ==
    /\ result' = [result EXCEPT ![j] = v]
    /\ published' = published \union {j}
    /\ UNCHANGED resultTTL

\* XADD results:{id}: the first record stays the first one, and a key that
\* already expires keeps its time to live.
XAddResult(j, v) ==
    /\ result' = [result EXCEPT ![j] = IF @ = NoResult THEN v ELSE @]
    /\ published' = published \union {j}
    /\ UNCHANGED resultTTL

\* EXPIRE does nothing when the key is absent.
ExpireResult(j) ==
    /\ resultTTL' = [resultTTL EXCEPT ![j] =
                        IF result[j] = NoResult THEN @ ELSE ResultTTL]
    /\ UNCHANGED <<result, published>>

\* Mutant: the owner key is written again instead of being given a new expiry.
ExpireOwnerMutant(j) ==
    /\ owner' = [owner EXCEPT ![j] = submitter[j]]
    /\ ownerTTL' = [ownerTTL EXCEPT ![j] = ResultTTL]

ExpireOwner(j) ==
    /\ ownerTTL' = [ownerTTL EXCEPT ![j] =
                       IF owner[j] = NoUser THEN @ ELSE ResultTTL]
    /\ UNCHANGED owner

-----------------------------------------------------------------------------
(* The tools: drive-export-large-file and wait-for-job.                    *)

Serving == \E w \in Workers : pc[w] # "down"

\* enqueue_export_job up to its first await: SET job:owner:{id} ex=...
SubmitOwner(u, j) ==
    /\ Serving
    /\ req[j] = "new"
    /\ req' = [req EXCEPT ![j] = "owned"]
    /\ submitter' = [submitter EXCEPT ![j] = u]
    /\ owner' = [owner EXCEPT ![j] = u]
    /\ ownerTTL' = [ownerTTL EXCEPT ![j] = OwnerTTL]
    /\ UNCHANGED <<streamVars, groupVars, resultVars, file, workerVars, waitVars, faults>>

\* SET fails, before or after Redis applied it, and nothing is enqueued.
SubmitOwnerError(u, j) ==
    /\ Serving
    /\ req[j] = "new"
    /\ Fault("redis")
    /\ req' = [req EXCEPT ![j] = "refused"]
    /\ submitter' = [submitter EXCEPT ![j] = u]
    /\ \/ /\ owner' = [owner EXCEPT ![j] = u]
          /\ ownerTTL' = [ownerTTL EXCEPT ![j] = OwnerTTL]
       \/ UNCHANGED ownerVars
    /\ UNCHANGED <<streamVars, groupVars, resultVars, file, workerVars, waitVars>>

\* ... and from there on: XADD, and "queued" goes to the caller.
SubmitEntry(j) ==
    /\ Serving
    /\ req[j] = "owned"
    /\ XAddJob(j)
    /\ req' = [req EXCEPT ![j] = "queued"]
    /\ UNCHANGED <<submitter, ownerVars, groupVars, resultVars, file, workerVars, waitVars, faults>>

\* XADD fails, before or after Redis applied it: either way the caller is told
\* that the job could not be enqueued.
SubmitError(j) ==
    /\ Serving
    /\ req[j] = "owned"
    /\ Fault("redis")
    /\ XAddJob(j) \/ UNCHANGED streamVars
    /\ req' = [req EXCEPT ![j] = "refused"]
    /\ UNCHANGED <<submitter, ownerVars, groupVars, resultVars, file, workerVars, waitVars>>

\* Mutant: only the existence of the owner key is checked.
WaitForJobMutant(u, j) ==
    /\ Serving
    /\ waiting[u] = NoJob
    /\ owner[j] # NoUser
    /\ waiting' = [waiting EXCEPT ![u] = j]
    /\ UNCHANGED <<requestVars, ownerVars, streamVars, groupVars, resultVars, file,
                   workerVars, seen, faults>>

\* handle_wait_for_job: the owner is checked before the read starts. The other
\* answer, "job not found", changes nothing.
WaitForJob(u, j) ==
    /\ Serving
    /\ waiting[u] = NoJob
    /\ owner[j] # NoUser /\ owner[j] = u
    /\ waiting' = [waiting EXCEPT ![u] = j]
    /\ UNCHANGED <<requestVars, ownerVars, streamVars, groupVars, resultVars, file,
                   workerVars, seen, faults>>

\* read_result: XREAD from 0 returns the first record as soon as there is one,
ReadResult(u) ==
    /\ Serving
    /\ waiting[u] # NoJob
    /\ result[waiting[u]] # NoResult
    /\ seen' = seen \union {<<u, waiting[u]>>}
    /\ waiting' = [waiting EXCEPT ![u] = NoJob]
    /\ UNCHANGED <<requestVars, ownerVars, streamVars, groupVars, resultVars, file,
                   workerVars, faults>>

\* and "pending" when the timeout passes without one.
WaitTimeout(u) ==
    /\ waiting[u] # NoJob
    /\ result[waiting[u]] = NoResult
    /\ waiting' = [waiting EXCEPT ![u] = NoJob]
    /\ UNCHANGED <<requestVars, ownerVars, streamVars, groupVars, resultVars, file,
                   workerVars, seen, faults>>

\* An error of XREAD leaves the handler: the caller gets no result.
WaitError(u) ==
    /\ waiting[u] # NoJob
    /\ Fault("redis")
    /\ waiting' = [waiting EXCEPT ![u] = NoJob]
    /\ UNCHANGED <<requestVars, ownerVars, streamVars, groupVars, resultVars, file,
                   workerVars, seen>>

-----------------------------------------------------------------------------
(* The worker task of one process.                                         *)

Goto(w, p) == pc' = [pc EXCEPT ![w] = p]

\* Back in the loop with nothing in hand.
Release(w, p) ==
    /\ Goto(w, p)
    /\ cur' = [cur EXCEPT ![w] = NoJob]
    /\ todo' = [todo EXCEPT ![w] = {}]
    /\ after' = [after EXCEPT ![w] = "reclaim"]
    /\ verdict' = [verdict EXCEPT ![w] = NoResult]

\* The task ends and its process is gone.
Leave(w) ==
    /\ Release(w, "down")
    /\ stopping' = [stopping EXCEPT ![w] = FALSE]

Oldest(S) == CHOOSE j \in S : \A k \in S : entryId[j] <= entryId[k]

\* Start on the entries S in stream order; p comes after the last one.
Process(w, S, p) ==
    /\ Goto(w, "fetch")
    /\ cur' = [cur EXCEPT ![w] = Oldest(S)]
    /\ todo' = [todo EXCEPT ![w] = S \ {Oldest(S)}]
    /\ after' = [after EXCEPT ![w] = p]
    /\ verdict' = [verdict EXCEPT ![w] = NoResult]

\* The process starts (lifespan): worker_task = create_task(worker.run()).
Boot(w) ==
    /\ pc[w] = "down"
    /\ Goto(w, "ensure")
    /\ UNCHANGED <<requestVars, ownerVars, streamVars, groupVars, resultVars, file,
                   cur, todo, after, verdict, stopping, waitVars, faults>>

\* run() before its loop.
EnsureGroup(w) ==
    /\ pc[w] = "ensure"
    /\ CreateGroup
    /\ Goto(w, "reclaim")
    /\ UNCHANGED <<requestVars, ownerVars, streamVars, pel, idle, resultVars, file,
                   cur, todo, after, verdict, stopping, waitVars, faults>>

\* An exception here ends the task; the process goes on serving requests.
EnsureError(w) ==
    /\ pc[w] = "ensure"
    /\ Fault("start")
    /\ CreateGroup \/ UNCHANGED lastDelivered
    /\ Goto(w, "dead")
    /\ UNCHANGED <<requestVars, ownerVars, streamVars, pel, idle, resultVars, file,
                   cur, todo, after, verdict, stopping, waitVars>>

\* Mutant: the entries are claimed but the loop over them is missing.
ReclaimMutant(w) ==
    /\ pc[w] = "reclaim"
    /\ Claim(w)
    /\ Release(w, "read")
    /\ UNCHANGED <<requestVars, ownerVars, streamVars, resultVars, file, stopping, waitVars, faults>>

\* Top of the loop: _reclaim(), then the entries it returned, then the read.
Reclaim(w) ==
    /\ pc[w] = "reclaim"
    /\ Claim(w)
    /\ IF Claimable = {} THEN Release(w, "read") ELSE Process(w, Claimable, "read")
    /\ UNCHANGED <<requestVars, ownerVars, streamVars, resultVars, file, stopping, waitVars, faults>>

\* _reclaim() swallows an error and returns no entries.
ReclaimError(w) ==
    /\ pc[w] = "reclaim"
    /\ Fault("redis")
    /\ Claim(w) \/ UNCHANGED groupVars
    /\ Release(w, "read")
    /\ UNCHANGED <<requestVars, ownerVars, streamVars, resultVars, file, stopping, waitVars>>

\* XREADGROUP hands out the next entry, or times out.
ReadNew(w) ==
    /\ pc[w] = "read"
    /\ \/ \E j \in NextEntry : Deliver(w, j) /\ Process(w, {j}, "reclaim")
       \/ NextEntry = {} /\ Release(w, "reclaim") /\ UNCHANGED groupVars
    /\ UNCHANGED <<requestVars, ownerVars, streamVars, resultVars, file, stopping, waitVars, faults>>

\* The loop logs the error, sleeps and starts over.
ReadError(w) ==
    /\ pc[w] = "read"
    /\ Fault("redis")
    /\ (\E j \in NextEntry : Deliver(w, j)) \/ UNCHANGED groupVars
    /\ Release(w, "reclaim")
    /\ UNCHANGED <<requestVars, ownerVars, streamVars, resultVars, file, stopping, waitVars>>

\* Mutant: a job without a token is dropped without a record.
FetchMutant(w) ==
    /\ pc[w] = "fetch"
    /\ Goto(w, IF submitter[cur[w]] \in Authorized THEN "open" ELSE "ack")
    /\ UNCHANGED <<requestVars, ownerVars, streamVars, groupVars, resultVars, file,
                   cur, todo, after, verdict, stopping, waitVars, faults>>

\* _process: the token stored under the job's user_id and the export itself.
\* Whatever raises is caught and becomes a "failed" record; without a token
\* the record carries "User has not authorized Google".
Fetch(w) ==
    /\ pc[w] = "fetch"
    /\ \/ /\ submitter[cur[w]] \in Authorized
          /\ Goto(w, "open")
          /\ UNCHANGED verdict
       \/ /\ verdict' = [verdict EXCEPT ![w] =
                IF submitter[cur[w]] \in Authorized THEN "failed" ELSE "unauthorized"]
          /\ Goto(w, "pubAdd")
    /\ UNCHANGED <<requestVars, ownerVars, streamVars, groupVars, resultVars, file,
                   cur, todo, after, stopping, waitVars, faults>>

\* Mutant: the thread that writes the file is not awaited.
OpenFileMutant(w) ==
    /\ pc[w] = "open"
    /\ verdict' = [verdict EXCEPT ![w] = "completed"]
    /\ Goto(w, "pubAdd")
    /\ UNCHANGED <<requestVars, ownerVars, streamVars, groupVars, resultVars, file,
                   cur, todo, after, stopping, waitVars, faults>>

\* Path(path).write_bytes in a thread: open() truncates the file, then
OpenFile(w) ==
    /\ pc[w] = "open"
    /\ file' = [file EXCEPT ![cur[w]] = "torn"]
    /\ Goto(w, "writing")
    /\ UNCHANGED <<requestVars, ownerVars, streamVars, groupVars, resultVars,
                   cur, todo, after, verdict, stopping, waitVars, faults>>

\* one write() fills it and chmod follows; either may raise.
WriteFile(w) ==
    /\ pc[w] = "writing"
    /\ LET written == [file EXCEPT ![cur[w]] = "whole"]
       IN  \/ file' = written /\ verdict' = [verdict EXCEPT ![w] = "completed"]
           \/ file' \in {file, written} /\ verdict' = [verdict EXCEPT ![w] = "failed"]
    /\ Goto(w, "pubAdd")
    /\ UNCHANGED <<requestVars, ownerVars, streamVars, groupVars, resultVars,
                   cur, todo, after, stopping, waitVars, faults>>

\* The three commands of _publish, in their order.
PublishEffect(w) ==
    \/ pc[w] = "pubAdd" /\ XAddResult(cur[w], verdict[w]) /\ UNCHANGED ownerVars
    \/ pc[w] = "pubTTL" /\ ExpireResult(cur[w]) /\ UNCHANGED ownerVars
    \/ pc[w] = "pubOwner" /\ ExpireOwner(cur[w]) /\ UNCHANGED resultVars

\* Mutants: the result, or the owner key, is not given its new expiry.
NoResultExpiryMutant == [p \in PublishPhases |->
    IF p = "pubAdd" THEN "pubOwner" ELSE "ack"]

NoOwnerExpiryMutant == [p \in PublishPhases |->
    IF p = "pubAdd" THEN "pubTTL" ELSE "ack"]

AfterPublish == [p \in PublishPhases |->
    CASE p = "pubAdd" -> "pubTTL" [] p = "pubTTL" -> "pubOwner" [] OTHER -> "ack"]

Publish(w) ==
    /\ pc[w] \in PublishPhases
    /\ PublishEffect(w)
    /\ Goto(w, AfterPublish[pc[w]])
    /\ UNCHANGED <<requestVars, streamVars, groupVars, file,
                   cur, todo, after, verdict, stopping, waitVars, faults>>

\* An error while publishing "completed" is caught and publishes "failed"; an
\* error in that second _publish leaves _process, after the finally clause,
\* and the rest of the batch is dropped.
PublishError(w) ==
    /\ pc[w] \in PublishPhases
    /\ Fault("redis")
    /\ PublishEffect(w) \/ UNCHANGED <<resultVars, ownerVars>>
    /\ IF verdict[w] = "completed"
       THEN /\ Goto(w, "pubAdd")
            /\ verdict' = [verdict EXCEPT ![w] = "failed"]
            /\ UNCHANGED <<todo, after>>
       ELSE /\ Goto(w, "ack")
            /\ todo' = [todo EXCEPT ![w] = {}]
            /\ after' = [after EXCEPT ![w] = "reclaim"]
            /\ UNCHANGED verdict
    /\ UNCHANGED <<requestVars, streamVars, groupVars, file, cur, stopping, waitVars>>

\* The finally clause: XACK, then the next entry of the batch; a cancelled task
\* ends here.
Ack(w) ==
    /\ pc[w] = "ack"
    /\ XAck(cur[w])
    /\ \/ after[w] = "down" /\ Leave(w)
       \/ /\ after[w] # "down"
          /\ IF todo[w] = {} THEN Release(w, after[w]) ELSE Process(w, todo[w], after[w])
          /\ UNCHANGED stopping
    /\ UNCHANGED <<requestVars, ownerVars, streamVars, resultVars, file, waitVars, faults>>

\* An error of XACK replaces the exception in flight. It is an Exception, so
\* the loop catches it and goes on, even when what it replaced is the
\* CancelledError of a shutdown.
AckError(w) ==
    /\ pc[w] = "ack"
    /\ Fault("redis")
    /\ XAck(cur[w]) \/ UNCHANGED groupVars
    /\ Release(w, "reclaim")
    /\ UNCHANGED <<requestVars, ownerVars, streamVars, resultVars, file, stopping, waitVars>>

-----------------------------------------------------------------------------
(* Shutdown, crashes and time.                                             *)

\* lifespan's finally cancels the task once. In its loop the task ends at once;
\* the command in flight may have been applied.
StopIdle(w) ==
    /\ pc[w] \in LoopPhases /\ ~stopping[w]
    /\ Fault("stop")
    /\ \/ UNCHANGED groupVars
       \/ pc[w] = "ensure" /\ CreateGroup /\ UNCHANGED <<pel, idle>>
       \/ pc[w] = "reclaim" /\ Claim(w)
       \/ pc[w] = "read" /\ \E j \in NextEntry : Deliver(w, j)
    /\ Leave(w)
    /\ UNCHANGED <<requestVars, ownerVars, streamVars, resultVars, file, waitVars>>

\* Mutant: the cancellation is swallowed and the loop goes on.
StopBusyMutant(w) ==
    /\ pc[w] \in ExportPhases \union PublishPhases /\ ~stopping[w]
    /\ Fault("stop")
    /\ Goto(w, "ack")
    /\ todo' = [todo EXCEPT ![w] = {}]
    /\ after' = [after EXCEPT ![w] = "reclaim"]
    /\ stopping' = [stopping EXCEPT ![w] = TRUE]
    /\ UNCHANGED <<requestVars, ownerVars, streamVars, groupVars, resultVars, file,
                   cur, verdict, waitVars>>

\* In _process, CancelledError is not an Exception: no record is published, and
\* the finally clause still acknowledges the entry. A thread that writes the
\* file is not interrupted.
StopBusy(w) ==
    /\ pc[w] \in ExportPhases \union PublishPhases /\ ~stopping[w]
    /\ Fault("stop")
    /\ Goto(w, "ack")
    /\ todo' = [todo EXCEPT ![w] = {}]
    /\ after' = [after EXCEPT ![w] = "down"]
    /\ stopping' = [stopping EXCEPT ![w] = TRUE]
    /\ PublishEffect(w) \/ UNCHANGED <<resultVars, ownerVars>>
    /\ \/ UNCHANGED file
       \/ pc[w] \in {"open", "writing"} /\ file' = [file EXCEPT ![cur[w]] = "whole"]
    /\ UNCHANGED <<requestVars, streamVars, groupVars, cur, verdict, waitVars>>

\* The cancellation hits the XACK of the finally clause.
StopAck(w) ==
    /\ pc[w] = "ack" /\ ~stopping[w]
    /\ Fault("stop")
    /\ XAck(cur[w]) \/ UNCHANGED groupVars
    /\ Leave(w)
    /\ UNCHANGED <<requestVars, ownerVars, streamVars, resultVars, file, waitVars>>

\* The process dies; only what is in Redis and on disk survives.
Crash(w) ==
    /\ pc[w] # "down"
    /\ Fault("crash")
    /\ Leave(w)
    /\ UNCHANGED <<requestVars, ownerVars, streamVars, groupVars, resultVars, file, waitVars>>

\* Mutant: an expired key is counted down below zero.
TickMutant ==
    /\ owner' = [j \in Jobs |-> IF ownerTTL[j] > 1 THEN owner[j] ELSE NoUser]
    /\ ownerTTL' = [j \in Jobs |-> ownerTTL[j] - 1]
    /\ UNCHANGED <<requestVars, streamVars, groupVars, resultVars, file,
                   workerVars, waitVars, faults>>

\* One tick: keys come closer to their expiry, pending entries grow idle.
Tick ==
    /\ owner' = [j \in Jobs |-> IF ownerTTL[j] > 1 THEN owner[j] ELSE NoUser]
    /\ ownerTTL' = [j \in Jobs |-> IF ownerTTL[j] > 1 THEN ownerTTL[j] - 1 ELSE 0]
    /\ result' = [j \in Jobs |-> IF resultTTL[j] = 1 THEN NoResult ELSE result[j]]
    /\ resultTTL' = [j \in Jobs |-> IF resultTTL[j] > 1 THEN resultTTL[j] - 1 ELSE NoExpiry]
    /\ idle' = [j \in Jobs |->
                  IF pel[j] # NoWorker /\ idle[j] < ReclaimIdle THEN idle[j] + 1 ELSE idle[j]]
    /\ UNCHANGED <<requestVars, streamVars, lastDelivered, pel, published, file,
                   workerVars, waitVars, faults>>

\* What a worker does by itself, without any fault.
WorkerStep(w) ==
    \/ EnsureGroup(w) \/ Reclaim(w) \/ ReadNew(w)
    \/ Fetch(w) \/ OpenFile(w) \/ WriteFile(w) \/ Publish(w) \/ Ack(w)

WorkerFault(w) ==
    \/ EnsureError(w) \/ ReclaimError(w) \/ ReadError(w) \/ PublishError(w) \/ AckError(w)
    \/ StopIdle(w) \/ StopBusy(w) \/ StopAck(w) \/ Crash(w)

Next ==
    \/ \E u \in Users, j \in Jobs : SubmitOwner(u, j) \/ SubmitOwnerError(u, j)
    \/ \E j \in Jobs : SubmitEntry(j) \/ SubmitError(j)
    \/ \E u \in Pollers :
          \/ \E j \in Jobs : WaitForJob(u, j)
          \/ ReadResult(u) \/ WaitTimeout(u) \/ WaitError(u)
    \/ \E w \in Workers : Boot(w) \/ WorkerStep(w) \/ WorkerFault(w)
    \/ Tick

Spec == Init /\ [][Next]_vars

\* The event loop runs every ready task, every Redis command returns, the
\* supervisor restarts a process that died, and time passes. Nobody has to
\* submit, to poll or to fail.
FairSpec ==
    /\ Spec
    /\ \A w \in Workers : WF_vars(WorkerStep(w)) /\ WF_vars(Boot(w))
    /\ WF_vars(Tick)

-----------------------------------------------------------------------------
(* Properties.                                                             *)

\* The values the variables take; time to live and idle time stay within what
\* EXPIRE and XAUTOCLAIM distinguish, and a worker inside _process has a job.
TypeOK ==
    /\ req \in [Jobs -> {"new", "owned", "queued", "refused"}]
    /\ submitter \in [Jobs -> Users \union {NoUser}]
    /\ owner \in [Jobs -> Users \union {NoUser}]
    /\ ownerTTL \in [Jobs -> Nat]
    /\ entryId \in [Jobs -> Nat]
    /\ lastId \in Nat
    /\ lastDelivered \in Nat \union {NoGroup}
    /\ pel \in [Jobs -> Workers \union {NoWorker}]
    /\ idle \in [Jobs -> 0..ReclaimIdle]
    /\ result \in [Jobs -> Records \union {NoResult}]
    /\ resultTTL \in [Jobs -> (1..ResultTTL) \union {NoExpiry}]
    /\ file \in [Jobs -> {"none", "torn", "whole"}]
    /\ pc \in [Workers -> Phases]
    /\ cur \in [Workers -> Jobs \union {NoJob}]
    /\ \A w \in Workers : pc[w] \in BusyPhases => cur[w] \in Jobs
    /\ todo \in [Workers -> SUBSET Jobs]
    /\ after \in [Workers -> {"read", "reclaim", "down"}]
    /\ verdict \in [Workers -> Records \union {NoResult}]
    /\ stopping \in [Workers -> BOOLEAN]
    /\ waiting \in [Users -> Jobs \union {NoJob}]
    /\ faults \in [FaultKinds -> Nat]
    /\ published \subseteq Jobs
    /\ seen \subseteq Users \X Jobs

\* No accepted job is lost: an entry of the stream that the consumer group has
\* passed is either still pending, so that XAUTOCLAIM finds it, or has had a
\* result. The order of _publish and XACK in _process is about this.
NoLostJob ==
    \A j \in Jobs : entryId[j] # 0 /\ entryId[j] <= lastDelivered
                        => pel[j] # NoWorker \/ j \in published

\* A result that says "completed" names a file that was created: the write is
\* awaited before the record is published.
CompletedHasFile == \A j \in Jobs : result[j] = "completed" => file[j] # "none"

\* handle_wait_for_job gives a result to nobody but the user who submitted the
\* job, whatever expired between its check of the owner and its read.
OwnerOnly ==
    \A u \in Users, j \in Jobs : <<u, j>> \in seen => submitter[j] = u

\* "job not found" is final: once the owner key of a job is gone, no late
\* worker brings it back.
NotFoundIsFinal ==
    [][\A j \in Jobs : req[j] # "new" /\ owner[j] = NoUser => owner'[j] = NoUser]_vars

\* No worker was interrupted between the commands of _publish.
Uninterrupted == \A k \in {"crash", "stop", "redis"} : faults[k] = 0

\* Every result stream gets an expiry, also when two workers publish results of
\* one job and the first one expires in between: a stream without it has a
\* worker that is about to set it.
NoImmortalResult ==
    \A j \in Jobs : Uninterrupted /\ result[j] # NoResult /\ resultTTL[j] = NoExpiry
        => \E w \in Workers : cur[w] = j /\ pc[w] = "pubTTL"

\* A live owner key outlives the result it guards, so that the owner can read
\* the result for as long as it exists; except between the two EXPIREs.
OwnerOutlivesResult ==
    \A j \in Jobs : Uninterrupted /\ owner[j] # NoUser /\ resultTTL[j] # NoExpiry
        => \/ ownerTTL[j] >= resultTTL[j]
           \/ \E w \in Workers : cur[w] = j /\ pc[w] = "pubOwner"

\* Acknowledged without a result: no XREADGROUP and no XAUTOCLAIM finds it.
Lost(j) == entryId[j] \in 1..lastDelivered /\ pel[j] = NoWorker /\ j \notin published

\* A shutdown or a Redis error costs at most the one job its worker has in
\* hand: the rest of a claimed batch stays pending and is claimed again. On a
\* deployment that has its group, nothing else loses a job.
LossIsBounded ==
    ~FreshRedis => Cardinality({j \in Jobs : Lost(j)}) <= faults["stop"] + faults["redis"]

\* Every job that reached the stream gets a result, whichever worker dies, or
\* is one of the few LossIsBounded counts: the group delivers it, XAUTOCLAIM
\* delivers it again, and the queue drains.
Outstanding(j) == entryId[j] # 0 /\ j \notin published /\ ~Lost(j)

QueueDrains == (\E j \in Jobs : Outstanding(j)) ~> (\A j \in Jobs : ~Outstanding(j))

\* The tasks of processes that shut down end: lifespan, which awaits them,
\* goes on to close its clients (as long as Redis answers: an error of XACK
\* takes the place of the CancelledError, and the loop goes on).
StopsEnd == (\E w \in Workers : stopping[w]) ~> (\A w \in Workers : ~stopping[w])

\* The tools do what JobService promises: a job's answer never changes until it
\* expires, even when two workers publish different records for it, and only
\* the user who asked for the job gets it.
Service == INSTANCE JobService WITH asked <- submitter, answer <- result, delivered <- seen

ImplementsService == Service!Spec
=============================================================================
