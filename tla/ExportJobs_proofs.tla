-------------------------- MODULE ExportJobs_proofs --------------------------
(***************************************************************************)
(* Proofs about ExportJobs, for every number of jobs, users and workers,   *)
(* every time to live and every number of faults.                          *)
(***************************************************************************)
EXTENDS ExportJobs, FiniteSetTheorems, WellFoundedInduction, TLAPS

-----------------------------------------------------------------------------
(* Lemmas about the operators of the model.                                *)

\* A non-empty set of natural numbers has a least element.
LEMMA LeastNat ==
    ASSUME NEW T, T \subseteq Nat, T # {}
    PROVE  \E x \in T : \A y \in T : x <= y
<1> DEFINE R == OpToRel(<, Nat)
<1>1. \E x \in T : \A y \in T : ~(<<y, x>> \in R)
    <2>1. IsWellFoundedOn(R, Nat)
        BY NatLessThanWellFounded
    <2> HIDE DEF R
    <2> QED  BY <2>1, WFMin
<1>2. \A x, y \in Nat : x < y => <<x, y>> \in R
    BY DEF OpToRel
<1>3. PICK x \in T : \A y \in T : ~(<<y, x>> \in R)
    BY <1>1
<1>4. ASSUME NEW y \in T PROVE x <= y
    <2>1. x \in Nat /\ y \in Nat
        OBVIOUS
    <2>2. ~(<<y, x>> \in R)
        BY <1>3
    <2>3. ~(y < x)
        BY <1>2, <2>1, <2>2
    <2> HIDE DEF R
    <2> QED  BY <2>1, <2>3
<1> QED  BY <1>4

\* Oldest picks a member of the batch, the one the stream delivered first.
LEMMA OldestInBatch ==
    ASSUME entryId \in [Jobs -> Nat], NEW S, S \subseteq Jobs, S # {}
    PROVE  Oldest(S) \in S /\ \A k \in S : entryId[Oldest(S)] <= entryId[k]
<1> DEFINE T == {entryId[j] : j \in S}
<1>1. PICK x \in T : \A y \in T : x <= y
    <2>1. T \subseteq Nat /\ T # {}
        OBVIOUS
    <2> HIDE DEF T
    <2> QED  BY <2>1, LeastNat
<1>2. PICK j \in S : x = entryId[j]
    BY <1>1
<1>3. \A k \in S : entryId[j] <= entryId[k]
    BY <1>1, <1>2
<1> QED  BY <1>3 DEF Oldest

-----------------------------------------------------------------------------
(* Type correctness.                                                       *)

USE ConstantsAssumption DEF requestVars, ownerVars, streamVars, groupVars,
    resultVars, workerVars, waitVars, Phases, LoopPhases, BusyPhases, ExportPhases,
    PublishPhases, Records, NoGroup, NoExpiry, FaultKinds

\* Back in the loop: the worker's variables keep their types.
LEMMA ReleaseType ==
    ASSUME TypeOK, NEW w \in Workers, NEW p \in Phases \ BusyPhases, Release(w, p)
    PROVE  /\ pc' \in [Workers -> Phases]
           /\ cur' \in [Workers -> Jobs \union {NoJob}]
           /\ \A v \in Workers : pc'[v] \in BusyPhases => cur'[v] \in Jobs
           /\ todo' \in [Workers -> SUBSET Jobs]
           /\ after' \in [Workers -> {"read", "reclaim", "down"}]
           /\ verdict' \in [Workers -> Records \union {NoResult}]
BY DEF TypeOK, Release, Goto

\* Likewise when it starts on a batch, which is never empty.
LEMMA ProcessType ==
    ASSUME TypeOK, NEW w \in Workers, NEW S, S \subseteq Jobs, S # {},
           NEW p \in {"read", "reclaim"}, Process(w, S, p)
    PROVE  /\ pc' \in [Workers -> Phases]
           /\ cur' \in [Workers -> Jobs \union {NoJob}]
           /\ \A v \in Workers : pc'[v] \in BusyPhases => cur'[v] \in Jobs
           /\ todo' \in [Workers -> SUBSET Jobs]
           /\ after' \in [Workers -> {"read", "reclaim", "down"}]
           /\ verdict' \in [Workers -> Records \union {NoResult}]
<1>1. Oldest(S) \in S
    BY OldestInBatch DEF TypeOK
<1> QED  BY <1>1 DEF TypeOK, Process, Goto

\* XGROUP CREATE, XREADGROUP, XAUTOCLAIM and XACK on the group.
LEMMA GroupType ==
    ASSUME TypeOK, NEW w \in Workers,
           \/ CreateGroup /\ UNCHANGED <<pel, idle>>
           \/ \E j \in NextEntry : Deliver(w, j)
           \/ Claim(w)
           \/ XAck(cur[w])
           \/ UNCHANGED groupVars
    PROVE  /\ lastDelivered' \in Nat \union {NoGroup}
           /\ pel' \in [Jobs -> Workers \union {NoWorker}]
           /\ idle' \in [Jobs -> 0..ReclaimIdle]
<1>1. CASE CreateGroup /\ UNCHANGED <<pel, idle>>
    BY <1>1 DEF TypeOK, CreateGroup
<1>2. CASE \E j \in NextEntry : Deliver(w, j)
    BY <1>2 DEF TypeOK, Deliver, NextEntry
<1>3. CASE Claim(w)
    BY <1>3 DEF TypeOK, Claim
<1>4. CASE XAck(cur[w])
    <2>1. CASE cur[w] \in Jobs
        BY <1>4, <2>1 DEF TypeOK, XAck
    <2>2. CASE cur[w] \notin Jobs
        <3>1. pel' = pel /\ idle' = idle
            BY <1>4, <2>2 DEF TypeOK, XAck
        <3> QED  BY <1>4, <3>1 DEF TypeOK, XAck
    <2> QED  BY <2>1, <2>2
<1>5. CASE UNCHANGED groupVars
    BY <1>5 DEF TypeOK
<1> QED  BY <1>1, <1>2, <1>3, <1>4, <1>5

\* The commands of _publish.
LEMMA PublishType ==
    ASSUME TypeOK, NEW w \in Workers,
           PublishEffect(w) \/ UNCHANGED <<resultVars, ownerVars>>
    PROVE  /\ result' \in [Jobs -> Records \union {NoResult}]
           /\ resultTTL' \in [Jobs -> (1..ResultTTL) \union {NoExpiry}]
           /\ owner' \in [Jobs -> Users \union {NoUser}]
           /\ ownerTTL' \in [Jobs -> Nat]
           /\ pc[w] \in BusyPhases => published' \subseteq Jobs
BY DEF TypeOK, PublishEffect, XAddResult, ExpireResult, ExpireOwner

\* A fault is counted.
LEMMA FaultType ==
    ASSUME TypeOK, NEW k \in FaultKinds, Fault(k)
    PROVE  faults' \in [FaultKinds -> Nat]
BY DEF TypeOK, Fault

\* Every step keeps the types.
LEMMA TypeStep == TypeOK /\ [Next]_vars => TypeOK'
<1> SUFFICES ASSUME TypeOK, [Next]_vars PROVE TypeOK'
    OBVIOUS
<1>1. ASSUME NEW u \in Users, NEW j \in Jobs, SubmitOwner(u, j) PROVE TypeOK'
    BY <1>1 DEF TypeOK, SubmitOwner
<1>2. ASSUME NEW u \in Users, NEW j \in Jobs, SubmitOwnerError(u, j) PROVE TypeOK'
    <2> USE <1>2 DEF SubmitOwnerError
    <2>1. faults' \in [FaultKinds -> Nat]
        BY FaultType DEF FaultKinds
    <2>2. /\ owner' \in [Jobs -> Users \union {NoUser}]
          /\ ownerTTL' \in [Jobs -> Nat]
        <3>1. CASE UNCHANGED ownerVars
            BY <3>1 DEF TypeOK, ownerVars
        <3>2. CASE /\ owner' = [owner EXCEPT ![j] = u]
                   /\ ownerTTL' = [ownerTTL EXCEPT ![j] = OwnerTTL]
            BY <3>2 DEF TypeOK
        <3> QED  BY <3>1, <3>2
    <2>3. /\ req' \in [Jobs -> {"new", "owned", "queued", "refused"}]
          /\ submitter' \in [Jobs -> Users \union {NoUser}]
        BY DEF TypeOK
    <2> QED  BY <2>1, <2>2, <2>3 DEF TypeOK
<1>3. ASSUME NEW j \in Jobs, SubmitEntry(j) PROVE TypeOK'
    BY <1>3 DEF TypeOK, SubmitEntry, XAddJob
<1>4. ASSUME NEW j \in Jobs, SubmitError(j) PROVE TypeOK'
    <2>1. faults' \in [FaultKinds -> Nat]
        BY <1>4, FaultType DEF SubmitError, FaultKinds
    <2> QED  BY <1>4, <2>1 DEF TypeOK, SubmitError, XAddJob
<1>5. ASSUME NEW u \in Pollers, NEW j \in Jobs, WaitForJob(u, j) PROVE TypeOK'
    BY <1>5 DEF TypeOK, WaitForJob
<1>6. ASSUME NEW u \in Pollers, ReadResult(u) PROVE TypeOK'
    BY <1>6 DEF TypeOK, ReadResult
<1>7. ASSUME NEW u \in Pollers, WaitTimeout(u) \/ WaitError(u) PROVE TypeOK'
    BY <1>7, FaultType DEF TypeOK, WaitTimeout, WaitError
<1>8. ASSUME NEW w \in Workers, Boot(w) PROVE TypeOK'
    BY <1>8 DEF TypeOK, Boot, Goto
<1>9. ASSUME NEW w \in Workers, EnsureGroup(w) PROVE TypeOK'
    BY <1>9 DEF TypeOK, EnsureGroup, CreateGroup, Goto
<1>10. ASSUME NEW w \in Workers, EnsureError(w) PROVE TypeOK'
    BY <1>10, FaultType DEF TypeOK, EnsureError, CreateGroup, Goto
<1>11. ASSUME NEW w \in Workers, Reclaim(w) PROVE TypeOK'
    <2>1. Claimable \subseteq Jobs
        BY DEF Claimable
    <2>2. CASE Claimable = {}
        BY <1>11, <2>2, GroupType, ReleaseType DEF TypeOK, Reclaim
    <2>3. CASE Claimable # {}
        BY <1>11, <2>1, <2>3, GroupType, ProcessType DEF TypeOK, Reclaim
    <2> QED  BY <2>2, <2>3
<1>12. ASSUME NEW w \in Workers, ReclaimError(w) PROVE TypeOK'
    BY <1>12, FaultType, GroupType, ReleaseType DEF TypeOK, ReclaimError
<1>13. ASSUME NEW w \in Workers, ReadNew(w) PROVE TypeOK'
    <2>1. CASE NextEntry = {} /\ Release(w, "reclaim") /\ UNCHANGED groupVars
        BY <1>13, <2>1, ReleaseType DEF TypeOK, ReadNew
    <2>2. ASSUME NEW j \in NextEntry, Deliver(w, j), Process(w, {j}, "reclaim")
          PROVE  TypeOK'
        <3>1. {j} \subseteq Jobs /\ {j} # {}
            BY DEF NextEntry
        <3>2. PICK S : S = {j}
            OBVIOUS
        <3>3. /\ lastDelivered' \in Nat \union {NoGroup}
              /\ pel' \in [Jobs -> Workers \union {NoWorker}]
              /\ idle' \in [Jobs -> 0..ReclaimIdle]
            BY <2>2, GroupType
        <3> QED  BY <1>13, <2>2, <3>1, <3>2, <3>3, ProcessType DEF TypeOK, ReadNew
    <2> QED  BY <1>13, <2>1, <2>2 DEF ReadNew
<1>14. ASSUME NEW w \in Workers, ReadError(w) PROVE TypeOK'
    BY <1>14, FaultType, GroupType, ReleaseType DEF TypeOK, ReadError
<1>15. ASSUME NEW w \in Workers, Fetch(w) PROVE TypeOK'
    BY <1>15 DEF TypeOK, Fetch, Goto
<1>16. ASSUME NEW w \in Workers, OpenFile(w) PROVE TypeOK'
    BY <1>16 DEF TypeOK, OpenFile, Goto
<1>17. ASSUME NEW w \in Workers, WriteFile(w) PROVE TypeOK'
    BY <1>17 DEF TypeOK, WriteFile, Goto
<1>18. ASSUME NEW w \in Workers, Publish(w) PROVE TypeOK'
    BY <1>18, PublishType DEF TypeOK, Publish, Goto, AfterPublish
<1>19. ASSUME NEW w \in Workers, PublishError(w) PROVE TypeOK'
    <2> USE <1>19 DEF PublishError
    <2>1. CASE verdict[w] = "completed"
        BY <2>1, PublishType DEF TypeOK, Goto, Fault
    <2>2. CASE verdict[w] # "completed"
        <3>1. /\ pc' = [pc EXCEPT ![w] = "ack"] /\ cur' = cur
              /\ todo' = [todo EXCEPT ![w] = {}]
              /\ after' = [after EXCEPT ![w] = "reclaim"]
              /\ verdict' = verdict /\ pc[w] \in BusyPhases
            BY <2>2 DEF Goto
        <3>2. /\ todo' \in [Workers -> SUBSET Jobs]
              /\ after' \in [Workers -> {"read", "reclaim", "down"}]
              /\ pc' \in [Workers -> Phases]
              /\ \A v \in Workers : pc'[v] \in BusyPhases => cur'[v] \in Jobs
            BY <3>1 DEF TypeOK
        <3>3. faults' \in [FaultKinds -> Nat]
            BY DEF TypeOK, Fault
        <3> QED  BY <3>1, <3>2, <3>3, PublishType DEF TypeOK
    <2> QED  BY <2>1, <2>2
<1>20. ASSUME NEW w \in Workers, Ack(w) PROVE TypeOK'
    <2>1. /\ lastDelivered' \in Nat \union {NoGroup}
          /\ pel' \in [Jobs -> Workers \union {NoWorker}]
          /\ idle' \in [Jobs -> 0..ReclaimIdle]
          /\ UNCHANGED <<requestVars, ownerVars, streamVars, resultVars, file, waitVars, faults>>
        BY <1>20, GroupType DEF Ack
    <2>2. CASE Leave(w)
        BY <2>1, <2>2, ReleaseType DEF TypeOK, Leave
    <2>3. CASE Release(w, after[w]) /\ UNCHANGED stopping /\ after[w] # "down"
        <3>1. after[w] \in Phases \ BusyPhases
            BY <2>3 DEF TypeOK
        <3> QED  BY <2>1, <2>3, <3>1, ReleaseType DEF TypeOK
    <2>4. CASE /\ Process(w, todo[w], after[w]) /\ UNCHANGED stopping
               /\ after[w] # "down" /\ todo[w] # {}
        <3>1. todo[w] \subseteq Jobs /\ after[w] \in {"read", "reclaim"}
            BY <2>4 DEF TypeOK
        <3>2. /\ pc' \in [Workers -> Phases]
              /\ cur' \in [Workers -> Jobs \union {NoJob}]
              /\ \A v \in Workers : pc'[v] \in BusyPhases => cur'[v] \in Jobs
              /\ todo' \in [Workers -> SUBSET Jobs]
              /\ after' \in [Workers -> {"read", "reclaim", "down"}]
              /\ verdict' \in [Workers -> Records \union {NoResult}]
            BY <2>4, <3>1, ProcessType
        <3> QED  BY <2>1, <2>4, <3>2 DEF TypeOK
    <2> QED  BY <1>20, <2>2, <2>3, <2>4 DEF Ack
<1>21. ASSUME NEW w \in Workers, AckError(w) PROVE TypeOK'
    BY <1>21, FaultType, GroupType, ReleaseType DEF TypeOK, AckError
<1>22. ASSUME NEW w \in Workers, StopIdle(w) PROVE TypeOK'
    <2>1. /\ lastDelivered' \in Nat \union {NoGroup}
          /\ pel' \in [Jobs -> Workers \union {NoWorker}]
          /\ idle' \in [Jobs -> 0..ReclaimIdle]
        BY <1>22, GroupType DEF StopIdle
    <2>2. faults' \in [FaultKinds -> Nat]
        BY <1>22, FaultType DEF StopIdle
    <2> QED  BY <1>22, <2>1, <2>2, ReleaseType DEF TypeOK, StopIdle, Leave
<1>23. ASSUME NEW w \in Workers, StopBusy(w) PROVE TypeOK'
    <2> USE <1>23 DEF StopBusy
    <2>1. file' \in [Jobs -> {"none", "torn", "whole"}]
        BY DEF TypeOK
    <2>2. /\ pc' \in [Workers -> Phases]
          /\ cur' = cur
          /\ \A v \in Workers : pc'[v] \in BusyPhases => cur'[v] \in Jobs
        BY DEF TypeOK, Goto
    <2>3. /\ todo' \in [Workers -> SUBSET Jobs]
          /\ after' \in [Workers -> {"read", "reclaim", "down"}]
          /\ stopping' \in [Workers -> BOOLEAN]
          /\ faults' \in [FaultKinds -> Nat]
        BY DEF TypeOK, Fault
    <2>4. /\ result' \in [Jobs -> Records \union {NoResult}]
          /\ resultTTL' \in [Jobs -> (1..ResultTTL) \union {NoExpiry}]
          /\ owner' \in [Jobs -> Users \union {NoUser}]
          /\ ownerTTL' \in [Jobs -> Nat]
          /\ published' \subseteq Jobs
        BY PublishType
    <2> QED  BY <2>1, <2>2, <2>3, <2>4 DEF TypeOK
<1>24. ASSUME NEW w \in Workers, StopAck(w) PROVE TypeOK'
    <2>1. /\ lastDelivered' \in Nat \union {NoGroup}
          /\ pel' \in [Jobs -> Workers \union {NoWorker}]
          /\ idle' \in [Jobs -> 0..ReclaimIdle]
        BY <1>24, GroupType DEF StopAck
    <2>2. faults' \in [FaultKinds -> Nat]
        BY <1>24, FaultType DEF StopAck
    <2> QED  BY <1>24, <2>1, <2>2, ReleaseType DEF TypeOK, StopAck, Leave
<1>25. ASSUME NEW w \in Workers, Crash(w) PROVE TypeOK'
    BY <1>25, FaultType, ReleaseType DEF TypeOK, Crash, Leave
<1>26. CASE Tick
    BY <1>26 DEF TypeOK, Tick
<1>27. CASE UNCHANGED vars
    BY <1>27 DEF TypeOK, vars
<1> QED
    BY <1>1, <1>2, <1>3, <1>4, <1>5, <1>6, <1>7, <1>8, <1>9, <1>10, <1>11, <1>12,
       <1>13, <1>14, <1>15, <1>16, <1>17, <1>18, <1>19, <1>20, <1>21, <1>22, <1>23,
       <1>24, <1>25, <1>26, <1>27 DEF Next, WorkerStep, WorkerFault

\* Type correctness: the variables of every reachable state have their types,
\* whatever the number of jobs, users, workers and faults.
THEOREM TypeCorrect == Spec => []TypeOK
<1>1. Init => TypeOK
    BY DEF Init, TypeOK
<1> QED  BY <1>1, TypeStep, PTL DEF Spec

-----------------------------------------------------------------------------
(* No job is lost, whatever crashes.                                       *)

\* What NoLostJob needs to be inductive: the group exists and has not run ahead
\* of the stream, ids are handed out once, and a worker that is past the XADD
\* of _publish works on a job that has a result.
Durable ==
    /\ lastDelivered \in Nat /\ lastDelivered <= lastId
    /\ \A j \in Jobs : entryId[j] <= lastId
    /\ \A j, k \in Jobs : entryId[j] # 0 /\ entryId[j] = entryId[k] => j = k
    /\ \A w \in Workers : pc[w] \in {"pubTTL", "pubOwner", "ack"} => cur[w] \in published
    /\ NoLostJob

\* A fault with an empty budget does not happen.
LEMMA NoBudget ==
    ASSUME TypeOK, NEW k \in FaultKinds, MaxFaults[k] = 0
    PROVE  ~Fault(k)
BY DEF TypeOK, Fault

\* Durable looks at the stream, the group, the phases and the history only.
LEMMA DurableFrame ==
    ASSUME Durable, UNCHANGED <<streamVars, lastDelivered, pel>>,
           published \subseteq published',
           \A w \in Workers : pc'[w] \in {"pubTTL", "pubOwner", "ack"} => cur'[w] \in published'
    PROVE  Durable'
BY DEF Durable, NoLostJob

\* Without graceful stops and Redis errors, on a deployment that has its
\* consumer group, every step keeps the invariant.
LEMMA DurableStep ==
    ASSUME MaxFaults["stop"] = 0, MaxFaults["redis"] = 0,
           TypeOK, Durable, [Next]_vars
    PROVE  Durable'
<1>0. ~Fault("stop") /\ ~Fault("redis")
    BY NoBudget
<1>1. ASSUME NEW u \in Users, NEW j \in Jobs, SubmitOwner(u, j) PROVE Durable'
    BY <1>1, DurableFrame DEF SubmitOwner, Durable
<1>2. ASSUME NEW j \in Jobs, SubmitEntry(j) PROVE Durable'
    BY <1>2 DEF SubmitEntry, XAddJob, Durable, NoLostJob, TypeOK
<1>3. ASSUME NEW u \in Pollers, NEW j \in Jobs, WaitForJob(u, j) PROVE Durable'
    BY <1>3, DurableFrame DEF WaitForJob, Durable
<1>4. ASSUME NEW u \in Pollers, ReadResult(u) \/ WaitTimeout(u) PROVE Durable'
    BY <1>4, DurableFrame DEF ReadResult, WaitTimeout, Durable
<1>5. ASSUME NEW w \in Workers, Boot(w) PROVE Durable'
    BY <1>5, DurableFrame DEF Boot, Goto, Durable, TypeOK
<1>6. ASSUME NEW w \in Workers, EnsureGroup(w) \/ EnsureError(w) PROVE Durable'
    BY <1>6, DurableFrame DEF EnsureGroup, EnsureError, CreateGroup, Goto, Durable, TypeOK
<1>7. ASSUME NEW w \in Workers, Reclaim(w) PROVE Durable'
    <2>1. \A j \in Jobs : pel[j] # NoWorker => pel'[j] # NoWorker
        BY <1>7 DEF Reclaim, Claim, TypeOK
    <2>2. pc'[w] \in {"read", "fetch"} /\ \A v \in Workers \ {w} : pc'[v] = pc[v] /\ cur'[v] = cur[v]
        BY <1>7 DEF Reclaim, Release, Process, Goto, TypeOK
    <2> QED  BY <1>7, <2>1, <2>2 DEF Reclaim, Claim, Durable, NoLostJob
<1>8. ASSUME NEW w \in Workers, ReadNew(w) PROVE Durable'
    <2>1. CASE NextEntry = {} /\ Release(w, "reclaim") /\ UNCHANGED groupVars
        BY <1>8, <2>1, DurableFrame DEF ReadNew, Release, Goto, Durable, TypeOK
    <2>2. ASSUME NEW j \in NextEntry, Deliver(w, j), Process(w, {j}, "reclaim")
          PROVE  Durable'
        <3>1. pc'[w] = "fetch" /\ \A v \in Workers \ {w} : pc'[v] = pc[v] /\ cur'[v] = cur[v]
            BY <2>2 DEF Process, Goto, TypeOK
        <3>2. j \in Jobs /\ entryId[j] = lastDelivered + 1 /\ entryId[j] # 0
            BY DEF NextEntry
        <3>3. UNCHANGED <<entryId, lastId, published>>
            BY <1>8 DEF ReadNew
        <3>4. NoLostJob'
            BY <2>2, <3>2, <3>3 DEF Deliver, Durable, NoLostJob, TypeOK
        <3>5. lastDelivered' \in Nat /\ lastDelivered' <= lastId'
            BY <2>2, <3>2, <3>3 DEF Deliver, Durable, TypeOK
        <3> QED  BY <3>1, <3>3, <3>4, <3>5 DEF Durable
    <2> QED  BY <1>8, <2>1, <2>2 DEF ReadNew
<1>9. ASSUME NEW w \in Workers, Fetch(w) \/ OpenFile(w) \/ WriteFile(w) PROVE Durable'
    BY <1>9, DurableFrame DEF Fetch, OpenFile, WriteFile, Goto, Durable, TypeOK
<1>10. ASSUME NEW w \in Workers, Publish(w) PROVE Durable'
    <2>1. published \subseteq published' /\ cur'[w] \in published'
        BY <1>10 DEF Publish, PublishEffect, XAddResult, ExpireResult, ExpireOwner, Durable, TypeOK
    <2> QED  BY <1>10, <2>1, DurableFrame DEF Publish, Goto, Durable, TypeOK
<1>11. ASSUME NEW w \in Workers, Ack(w) PROVE Durable'
    <2>1. pc'[w] \notin {"pubTTL", "pubOwner", "ack"}
          /\ \A v \in Workers \ {w} : pc'[v] = pc[v] /\ cur'[v] = cur[v]
        BY <1>11 DEF Ack, Leave, Release, Process, Goto, TypeOK
    <2>2. cur[w] \in published
        BY <1>11 DEF Ack, Durable
    <2>3. NoLostJob'
        BY <1>11, <2>2 DEF Ack, XAck, Durable, NoLostJob, TypeOK
    <2> QED  BY <1>11, <2>1, <2>3 DEF Ack, XAck, Durable
<1>12. ASSUME NEW w \in Workers, Crash(w) PROVE Durable'
    BY <1>12, DurableFrame DEF Crash, Leave, Release, Goto, Durable, TypeOK
<1>13. CASE Tick
    BY <1>13, DurableFrame DEF Tick, Durable
<1>14. CASE UNCHANGED vars
    BY <1>14, DurableFrame DEF vars, Durable
<1> QED
    BY <1>0, <1>1, <1>2, <1>3, <1>4, <1>5, <1>6, <1>7, <1>8, <1>9, <1>10, <1>11, <1>12,
       <1>13, <1>14
       DEF Next, WorkerStep, WorkerFault, SubmitOwnerError, SubmitError, WaitError, ReclaimError,
           ReadError, PublishError, AckError, StopIdle, StopBusy, StopAck

\* Crashes, at any point and in any number, and workers that fail to start lose
\* no job: the order of _publish and XACK, with XAUTOCLAIM, makes delivery
\* at-least-once. A graceful stop, a Redis error or a group that is created
\* late can lose one, so the theorem assumes there is none.
THEOREM JobsSurviveCrashes ==
    ASSUME MaxFaults["stop"] = 0, MaxFaults["redis"] = 0, FreshRedis = FALSE
    PROVE  Spec => []NoLostJob
<1>1. Init => Durable
    BY DEF Init, Durable, NoLostJob
<1>2. TypeOK /\ Durable /\ [Next]_vars => Durable'
    BY DurableStep
<1>3. Durable => NoLostJob
    BY DEF Durable
<1> QED  BY <1>1, <1>2, <1>3, TypeCorrect, PTL DEF Spec

-----------------------------------------------------------------------------
(* Who may read a result, with every fault allowed.                        *)

\* What OwnerOnly needs: before it is submitted a job is unknown to everybody,
\* a live owner key names the submitter, and so does a wait that passed the
\* check, even when the key has expired since.
Guarded ==
    /\ \A j \in Jobs : req[j] = "new" =>
          owner[j] = NoUser /\ \A u \in Users : waiting[u] # j /\ <<u, j>> \notin seen
    /\ \A j \in Jobs : owner[j] # NoUser => owner[j] = submitter[j]
    /\ \A u \in Users, j \in Jobs : waiting[u] = j => submitter[j] = u
    /\ OwnerOnly

\* The worker and the passing of time leave the requests and the waits alone
\* and can only make owner keys disappear.
LEMMA GuardedFrame ==
    ASSUME TypeOK, Guarded, UNCHANGED <<requestVars, waitVars>>,
           \A j \in Jobs : owner'[j] \in {owner[j], NoUser}
    PROVE  Guarded'
BY DEF Guarded, OwnerOnly, TypeOK

\* Every step of a worker keeps the owner keys as they are.
LEMMA WorkerKeepsOwner ==
    ASSUME NEW w \in Workers, Boot(w) \/ WorkerStep(w) \/ WorkerFault(w)
    PROVE  UNCHANGED <<requestVars, waitVars, owner>>
<1>1. CASE Boot(w)
    BY <1>1 DEF Boot
<1>2. CASE EnsureGroup(w) \/ Reclaim(w) \/ ReadNew(w) \/ Ack(w)
    BY <1>2 DEF EnsureGroup, Reclaim, ReadNew, Ack
<1>3. CASE Fetch(w) \/ OpenFile(w) \/ WriteFile(w)
    BY <1>3 DEF Fetch, OpenFile, WriteFile
<1>4. CASE Publish(w)
    BY <1>4 DEF Publish, PublishEffect, ExpireOwner
<1>5. CASE PublishError(w)
    BY <1>5 DEF PublishError, PublishEffect, ExpireOwner
<1>6. CASE StopBusy(w)
    BY <1>6 DEF StopBusy, PublishEffect, ExpireOwner
<1>7. CASE EnsureError(w) \/ ReclaimError(w) \/ ReadError(w) \/ AckError(w)
    BY <1>7 DEF EnsureError, ReclaimError, ReadError, AckError
<1>8. CASE StopIdle(w) \/ StopAck(w) \/ Crash(w)
    BY <1>8 DEF StopIdle, StopAck, Crash
<1> QED  BY <1>1, <1>2, <1>3, <1>4, <1>5, <1>6, <1>7, <1>8 DEF WorkerStep, WorkerFault

\* Every step keeps Guarded: only SubmitOwner writes an owner key, for a job id
\* that nobody has seen, and only WaitForJob starts a wait, after the check.
LEMMA GuardedStep == TypeOK /\ Guarded /\ [Next]_vars => Guarded'
<1> SUFFICES ASSUME TypeOK, Guarded, [Next]_vars PROVE Guarded'
    OBVIOUS
<1>1. ASSUME NEW u \in Users, NEW j \in Jobs, SubmitOwner(u, j) \/ SubmitOwnerError(u, j)
      PROVE  Guarded'
    <2>1. /\ req[j] = "new" /\ req'[j] # "new"
          /\ submitter'[j] = u /\ owner'[j] \in {u, owner[j]}
          /\ \A i \in Jobs \ {j} : /\ req'[i] = req[i] /\ owner'[i] = owner[i]
                                  /\ submitter'[i] = submitter[i]
          /\ UNCHANGED waitVars
        BY <1>1 DEF SubmitOwner, SubmitOwnerError, TypeOK
    <2>2. owner[j] = NoUser /\ \A v \in Users : waiting[v] # j /\ <<v, j>> \notin seen
        BY <2>1 DEF Guarded
    <2>3. \A i \in Jobs : i = j \/ i \in Jobs \ {j}
        OBVIOUS
    <2>4. \A i \in Jobs : req'[i] = "new" => req[i] = "new" /\ owner'[i] = owner[i]
        BY <2>1, <2>3
    <2>5. \A i \in Jobs : owner'[i] # NoUser => owner'[i] = submitter'[i]
        BY <2>1, <2>2, <2>3 DEF Guarded
    <2>6. \A v \in Users, i \in Jobs :
             waiting[v] = i \/ <<v, i>> \in seen => submitter'[i] = v
        BY <2>1, <2>2, <2>3 DEF Guarded, OwnerOnly
    <2> QED  BY <2>1, <2>4, <2>5, <2>6 DEF Guarded, OwnerOnly
<1>2. ASSUME NEW j \in Jobs, SubmitEntry(j) \/ SubmitError(j) PROVE Guarded'
    BY <1>2 DEF SubmitEntry, SubmitError, Guarded, OwnerOnly, TypeOK
<1>3. ASSUME NEW u \in Pollers, NEW j \in Jobs, WaitForJob(u, j) PROVE Guarded'
    BY <1>3 DEF WaitForJob, Guarded, OwnerOnly, TypeOK
<1>4. ASSUME NEW u \in Pollers, ReadResult(u) PROVE Guarded'
    BY <1>4 DEF ReadResult, Guarded, OwnerOnly, TypeOK
<1>5. ASSUME NEW u \in Pollers, WaitTimeout(u) \/ WaitError(u) PROVE Guarded'
    BY <1>5 DEF WaitTimeout, WaitError, Guarded, OwnerOnly, TypeOK
<1>6. ASSUME NEW w \in Workers, Boot(w) \/ WorkerStep(w) \/ WorkerFault(w) PROVE Guarded'
    BY <1>6, WorkerKeepsOwner, GuardedFrame
<1>7. CASE Tick
    BY <1>7, GuardedFrame DEF Tick
<1>8. CASE UNCHANGED vars
    BY <1>8, GuardedFrame DEF vars
<1> QED  BY <1>1, <1>2, <1>3, <1>4, <1>5, <1>6, <1>7, <1>8 DEF Next

\* wait-for-job never returns a result to anybody but the submitter, for any
\* interleaving of expiries, faults, duplicates and other users' calls.
THEOREM OnlyTheOwnerReads == Spec => []OwnerOnly
<1>1. Init => Guarded
    BY DEF Init, Guarded, OwnerOnly
<1>2. Guarded => OwnerOnly
    BY DEF Guarded
<1> QED  BY <1>1, <1>2, GuardedStep, TypeCorrect, PTL DEF Spec

\* Once wait-for-job answers "job not found" for a job id that was handed out,
\* it always will: _publish extends the owner key but never creates it.
THEOREM NotFoundStays == Spec => NotFoundIsFinal
<1>1. ASSUME TypeOK, [Next]_vars, NEW j \in Jobs, req[j] # "new", owner[j] = NoUser
      PROVE  owner'[j] = NoUser
    <2>1. ASSUME NEW u \in Users, NEW i \in Jobs, SubmitOwner(u, i) \/ SubmitOwnerError(u, i)
          PROVE  owner'[j] = NoUser
        BY <1>1, <2>1 DEF SubmitOwner, SubmitOwnerError, TypeOK
    <2>2. ASSUME NEW i \in Jobs, SubmitEntry(i) \/ SubmitError(i) PROVE owner'[j] = NoUser
        BY <1>1, <2>2 DEF SubmitEntry, SubmitError
    <2>3. ASSUME NEW u \in Pollers, \/ \E i \in Jobs : WaitForJob(u, i)
                                   \/ ReadResult(u) \/ WaitTimeout(u) \/ WaitError(u)
          PROVE  owner'[j] = NoUser
        BY <1>1, <2>3 DEF WaitForJob, ReadResult, WaitTimeout, WaitError
    <2>4. ASSUME NEW w \in Workers, Boot(w) \/ WorkerStep(w) \/ WorkerFault(w)
          PROVE  owner'[j] = NoUser
        BY <1>1, <2>4, WorkerKeepsOwner
    <2>5. CASE Tick
        BY <1>1, <2>5 DEF Tick
    <2>6. CASE UNCHANGED vars
        BY <1>1, <2>6 DEF vars
    <2> QED  BY <1>1, <2>1, <2>2, <2>3, <2>4, <2>5, <2>6 DEF Next
<1>2. TypeOK /\ [Next]_vars =>
          [\A j \in Jobs : req[j] # "new" /\ owner[j] = NoUser => owner'[j] = NoUser]_vars
    BY <1>1
<1> QED  BY <1>2, TypeCorrect, PTL DEF Spec, NotFoundIsFinal

-----------------------------------------------------------------------------
(* What "completed" promises.                                              *)

\* What CompletedHasFile needs: a worker that has truncated the file, or that
\* carries the verdict "completed", works on a job whose file exists.
Written ==
    /\ \A w \in Workers : pc[w] = "writing" \/ (pc[w] = "pubAdd" /\ verdict[w] = "completed")
                              => file[cur[w]] # "none"
    /\ CompletedHasFile

\* Files are never removed, and a worker that is at neither place adds nothing
\* to what Written says.
LEMMA WrittenFrame ==
    ASSUME TypeOK, TypeOK', Written, NEW w \in Workers,
           \A j \in Jobs : file[j] # "none" => file'[j] # "none",
           \A j \in Jobs : result'[j] \in {result[j], NoResult},
           \A v \in Workers \ {w} :
               pc'[v] = pc[v] /\ cur'[v] = cur[v] /\ verdict'[v] = verdict[v],
           pc'[w] \notin {"writing", "pubAdd"} \/ UNCHANGED <<pc, cur, verdict>>
    PROVE  Written'
BY DEF Written, CompletedHasFile, TypeOK

\* Every step keeps Written: the write precedes the record, and no step, not
\* even a cancelled or repeated one, removes a file.
LEMMA WrittenStep ==
    ASSUME TypeOK, TypeOK', Written, [Next]_vars
    PROVE  Written'
<1> USE DEF TypeOK
<1>1. ASSUME UNCHANGED <<file, result, pc, cur, verdict>> PROVE Written'
    BY <1>1 DEF Written, CompletedHasFile
<1>2. ASSUME NEW u \in Users, NEW j \in Jobs, SubmitOwner(u, j) \/ SubmitOwnerError(u, j)
      PROVE  Written'
    BY <1>1, <1>2 DEF SubmitOwner, SubmitOwnerError
<1>3. ASSUME NEW j \in Jobs, SubmitEntry(j) \/ SubmitError(j) PROVE Written'
    BY <1>1, <1>3 DEF SubmitEntry, SubmitError
<1>4. ASSUME NEW u \in Pollers,
             (\E j \in Jobs : WaitForJob(u, j)) \/ ReadResult(u) \/ WaitTimeout(u)
                 \/ WaitError(u)
      PROVE  Written'
    BY <1>1, <1>4 DEF WaitForJob, ReadResult, WaitTimeout, WaitError
<1>5. ASSUME NEW w \in Workers, Boot(w) \/ EnsureGroup(w) \/ EnsureError(w) PROVE Written'
    <2>1. /\ UNCHANGED <<file, result, cur, verdict>>
          /\ pc'[w] \in {"ensure", "reclaim", "dead"}
          /\ \A v \in Workers \ {w} : pc'[v] = pc[v]
        BY <1>5 DEF Boot, EnsureGroup, EnsureError, Goto
    <2> QED  BY <2>1, WrittenFrame
<1>6. ASSUME NEW w \in Workers, Reclaim(w) \/ ReadNew(w) PROVE Written'
    <2>1. /\ UNCHANGED <<file, result>> /\ pc'[w] \in {"read", "reclaim", "fetch"}
          /\ \A v \in Workers \ {w} :
                pc'[v] = pc[v] /\ cur'[v] = cur[v] /\ verdict'[v] = verdict[v]
        <3>1. CASE Reclaim(w)
            BY <3>1 DEF Reclaim, Release, Process, Goto
        <3>2. CASE ReadNew(w)
            <4>1. Release(w, "reclaim") \/ \E j \in NextEntry : Process(w, {j}, "reclaim")
                BY <3>2 DEF ReadNew
            <4>2. UNCHANGED <<file, result>>
                BY <3>2 DEF ReadNew
            <4>3. CASE Release(w, "reclaim")
                BY <4>2, <4>3 DEF Release, Goto
            <4>4. ASSUME NEW S, Process(w, S, "reclaim")
                  PROVE  /\ pc'[w] = "fetch"
                         /\ \A v \in Workers \ {w} :
                              pc'[v] = pc[v] /\ cur'[v] = cur[v] /\ verdict'[v] = verdict[v]
                BY <4>4 DEF Process, Goto
            <4> QED  BY <4>1, <4>2, <4>3, <4>4
        <3> QED  BY <1>6, <3>1, <3>2
    <2> QED  BY <2>1, WrittenFrame
<1>7. ASSUME NEW w \in Workers, Ack(w) PROVE Written'
    <2>1. /\ UNCHANGED <<file, result>> /\ pc'[w] \in {"read", "reclaim", "fetch", "down"}
          /\ \A v \in Workers \ {w} :
                pc'[v] = pc[v] /\ cur'[v] = cur[v] /\ verdict'[v] = verdict[v]
        BY <1>7 DEF Ack, Leave, Release, Process, Goto
    <2> QED  BY <2>1, WrittenFrame
<1>8. ASSUME NEW w \in Workers, ReclaimError(w) \/ ReadError(w) \/ AckError(w) PROVE Written'
    <2>1. /\ UNCHANGED <<file, result>> /\ pc'[w] \in {"read", "reclaim"}
          /\ \A v \in Workers \ {w} :
                pc'[v] = pc[v] /\ cur'[v] = cur[v] /\ verdict'[v] = verdict[v]
        BY <1>8 DEF ReclaimError, ReadError, AckError, Release, Goto
    <2> QED  BY <2>1, WrittenFrame
<1>9. ASSUME NEW w \in Workers, StopIdle(w) \/ StopAck(w) \/ Crash(w) PROVE Written'
    <2>1. /\ UNCHANGED <<file, result>> /\ pc'[w] = "down"
          /\ \A v \in Workers \ {w} :
                pc'[v] = pc[v] /\ cur'[v] = cur[v] /\ verdict'[v] = verdict[v]
        BY <1>9 DEF StopIdle, StopAck, Crash, Leave, Release, Goto
    <2> QED  BY <2>1, WrittenFrame
<1>10. ASSUME NEW w \in Workers, Fetch(w) PROVE Written'
    BY <1>10 DEF Fetch, Goto, Written, CompletedHasFile
<1>11. ASSUME NEW w \in Workers, OpenFile(w) PROVE Written'
    BY <1>11 DEF OpenFile, Goto, Written, CompletedHasFile
<1>12. ASSUME NEW w \in Workers, WriteFile(w) PROVE Written'
    <2>1. /\ \A j \in Jobs : file[j] # "none" => file'[j] # "none"
          /\ UNCHANGED <<result, cur>> /\ file[cur[w]] # "none" /\ cur[w] \in Jobs
          /\ pc'[w] = "pubAdd"
          /\ \A v \in Workers \ {w} : pc'[v] = pc[v] /\ verdict'[v] = verdict[v]
        BY <1>12 DEF WriteFile, Goto, Written
    <2> QED  BY <2>1 DEF Written, CompletedHasFile
<1>13. ASSUME NEW w \in Workers, PublishEffect(w) \/ UNCHANGED <<resultVars, ownerVars>>
       PROVE  /\ \A j \in Jobs : result'[j] = "completed" => file[j] # "none"
    BY <1>13 DEF PublishEffect, XAddResult, ExpireResult, ExpireOwner, Written, CompletedHasFile
<1>14. ASSUME NEW w \in Workers, Publish(w) PROVE Written'
    <2>1. \A j \in Jobs : result'[j] = "completed" => file'[j] # "none"
        BY <1>13, <1>14 DEF Publish
    <2>2. /\ UNCHANGED <<file, cur, verdict>> /\ pc'[w] \in {"pubTTL", "pubOwner", "ack"}
          /\ \A v \in Workers \ {w} : pc'[v] = pc[v]
        BY <1>14 DEF Publish, Goto, AfterPublish
    <2> QED  BY <2>1, <2>2 DEF Written, CompletedHasFile
<1>15. ASSUME NEW w \in Workers, PublishError(w) PROVE Written'
    <2>1. \A j \in Jobs : result'[j] = "completed" => file'[j] # "none"
        BY <1>13, <1>15 DEF PublishError
    <2>2. /\ UNCHANGED <<file, cur>>
          /\ pc'[w] = "ack" \/ (pc'[w] = "pubAdd" /\ verdict'[w] = "failed")
          /\ \A v \in Workers \ {w} : pc'[v] = pc[v] /\ verdict'[v] = verdict[v]
        BY <1>15 DEF PublishError, Goto
    <2> QED  BY <2>1, <2>2 DEF Written, CompletedHasFile
<1>16. ASSUME NEW w \in Workers, StopBusy(w) PROVE Written'
    <2>1. \A j \in Jobs : result'[j] = "completed" => file[j] # "none"
        BY <1>13, <1>16 DEF StopBusy
    <2>2. /\ UNCHANGED <<cur, verdict>> /\ pc'[w] = "ack"
          /\ \A v \in Workers \ {w} : pc'[v] = pc[v]
          /\ \A j \in Jobs : file[j] # "none" => file'[j] # "none"
        BY <1>16 DEF StopBusy, Goto
    <2> QED  BY <2>1, <2>2 DEF Written, CompletedHasFile
<1>17. CASE Tick
    BY <1>17 DEF Tick, Written, CompletedHasFile
<1>18. CASE UNCHANGED vars
    BY <1>1, <1>18 DEF vars
<1> QED
    BY <1>2, <1>3, <1>4, <1>5, <1>6, <1>7, <1>8, <1>9, <1>10, <1>11, <1>12, <1>14, <1>15,
       <1>16, <1>17, <1>18 DEF Next, WorkerStep, WorkerFault

\* A job that reads "completed" has a file in the export directory, whatever
\* fails or is repeated. (Whether that file is whole is another matter: a
\* second run of the job may be rewriting it.)
THEOREM CompletedNamesAFile == Spec => []CompletedHasFile
<1>1. Init => Written
    BY DEF Init, Written, CompletedHasFile
<1>2. TypeOK /\ TypeOK' /\ Written /\ [Next]_vars => Written'
    BY WrittenStep
<1>3. Written => CompletedHasFile
    BY DEF Written
<1> QED  BY <1>1, <1>2, <1>3, TypeCorrect, PTL DEF Spec

-----------------------------------------------------------------------------
(* ExportJobs implements JobService: under the mapping of                  *)
(* ExportJobs!Service every step of the tools, the workers, the faults and *)
(* the clock is a step of the abstract service or leaves it alone.         *)

\* What the mapping needs: nobody works on a job that was not asked for, and a
\* worker that is about to publish has a record.
KnownWorker(w) ==
    /\ cur[w] \in Jobs => req[cur[w]] # "new"
    /\ \A j \in todo[w] : req[j] # "new"
    /\ pc[w] = "pubAdd" => verdict[w] \in Records

Known ==
    /\ \A j \in Jobs : req[j] = "new" <=> submitter[j] = NoUser
    /\ \A j \in Jobs : entryId[j] # 0 \/ pel[j] # NoWorker => req[j] # "new"
    /\ \A w \in Workers : KnownWorker(w)

\* A step of one worker keeps Known when what it takes in hand is known.
LEMMA KnownFrame ==
    ASSUME Known, NEW w \in Workers, UNCHANGED <<requestVars, streamVars>>,
           \A j \in Jobs : pel'[j] # NoWorker => req[j] # "new",
           \A v \in Workers \ {w} : /\ pc'[v] = pc[v] /\ cur'[v] = cur[v]
                                    /\ todo'[v] = todo[v] /\ verdict'[v] = verdict[v],
           KnownWorker(w)'
    PROVE  Known'
<1>1. ASSUME NEW v \in Workers PROVE KnownWorker(v)'
    <2>1. CASE v = w
        BY <2>1
    <2>2. CASE v # w
        BY <2>2 DEF Known, KnownWorker
    <2> QED  BY <2>1, <2>2
<1> QED  BY <1>1 DEF Known

\* A worker with nothing in hand.
LEMMA ReleaseKnown ==
    ASSUME TypeOK, NEW w \in Workers, NEW p \in Phases \ BusyPhases, Release(w, p)
    PROVE  /\ KnownWorker(w)'
           /\ \A v \in Workers \ {w} : /\ pc'[v] = pc[v] /\ cur'[v] = cur[v]
                                       /\ todo'[v] = todo[v] /\ verdict'[v] = verdict[v]
BY DEF TypeOK, Release, Goto, KnownWorker

\* A worker that starts on a batch of jobs that were asked for.
LEMMA ProcessKnown ==
    ASSUME TypeOK, NEW w \in Workers, NEW S, S \subseteq Jobs, S # {},
           \A j \in S : req[j] # "new",
           NEW p, Process(w, S, p), UNCHANGED req
    PROVE  /\ KnownWorker(w)'
           /\ \A v \in Workers \ {w} : /\ pc'[v] = pc[v] /\ cur'[v] = cur[v]
                                       /\ todo'[v] = todo[v] /\ verdict'[v] = verdict[v]
<1>1. Oldest(S) \in S
    BY OldestInBatch DEF TypeOK
<1>2. cur'[w] = Oldest(S) /\ todo'[w] = S \ {Oldest(S)} /\ pc'[w] = "fetch"
    BY DEF TypeOK, Process, Goto
<1>3. KnownWorker(w)'
    BY <1>1, <1>2 DEF KnownWorker
<1>4. \A v \in Workers \ {w} : /\ pc'[v] = pc[v] /\ cur'[v] = cur[v]
                               /\ todo'[v] = todo[v] /\ verdict'[v] = verdict[v]
    BY DEF TypeOK, Process, Goto
<1> QED  BY <1>3, <1>4

\* The group commands put nothing unknown on the pending entries list.
LEMMA GroupKnown ==
    ASSUME TypeOK, Known, NEW w \in Workers,
           \/ CreateGroup /\ UNCHANGED <<pel, idle>>
           \/ \E j \in NextEntry : Deliver(w, j)
           \/ Claim(w)
           \/ XAck(cur[w])
           \/ UNCHANGED groupVars
    PROVE  \A j \in Jobs : pel'[j] # NoWorker => req[j] # "new"
<1>1. CASE \E j \in NextEntry : Deliver(w, j)
    BY <1>1 DEF Known, Deliver, NextEntry, TypeOK
<1>2. CASE Claim(w)
    BY <1>2 DEF Known, Claim, Claimable, TypeOK
<1>3. CASE XAck(cur[w])
    BY <1>3 DEF Known, XAck, TypeOK
<1>4. CASE UNCHANGED pel
    BY <1>4 DEF Known
<1> QED  BY <1>1, <1>2, <1>3, <1>4

\* Every step keeps Known.
LEMMA KnownStep == TypeOK /\ Known /\ [Next]_vars => Known'
<1> SUFFICES ASSUME TypeOK, Known, [Next]_vars PROVE Known'
    OBVIOUS
<1>1. ASSUME NEW u \in Users, NEW j \in Jobs, SubmitOwner(u, j) \/ SubmitOwnerError(u, j)
      PROVE  Known'
    <2>1. /\ req'[j] # "new" /\ submitter'[j] = u /\ u # NoUser
          /\ \A i \in Jobs \ {j} : req'[i] = req[i] /\ submitter'[i] = submitter[i]
          /\ UNCHANGED <<streamVars, groupVars, workerVars>>
        BY <1>1 DEF SubmitOwner, SubmitOwnerError, TypeOK
    <2>2. \A i \in Jobs : req[i] # "new" => req'[i] # "new"
        BY <2>1
    <2>3. \A w \in Workers : KnownWorker(w)'
        BY <2>1, <2>2 DEF Known, KnownWorker, TypeOK
    <2> QED  BY <2>1, <2>2, <2>3 DEF Known
<1>2. ASSUME NEW j \in Jobs, SubmitEntry(j) \/ SubmitError(j) PROVE Known'
    <2>1. /\ req[j] # "new" /\ req'[j] # "new" /\ UNCHANGED <<submitter, groupVars, workerVars>>
          /\ \A i \in Jobs \ {j} : req'[i] = req[i] /\ entryId'[i] = entryId[i]
        BY <1>2 DEF SubmitEntry, SubmitError, XAddJob, TypeOK
    <2>2. \A i \in Jobs : req[i] # "new" <=> req'[i] # "new"
        BY <2>1
    <2>3. \A w \in Workers : KnownWorker(w)'
        BY <2>1, <2>2 DEF Known, KnownWorker, TypeOK
    <2> QED  BY <2>1, <2>2, <2>3 DEF Known
<1>3. ASSUME UNCHANGED <<requestVars, streamVars, pel, workerVars>> PROVE Known'
    BY <1>3 DEF Known, KnownWorker
<1>4. ASSUME NEW u \in Pollers,
             (\E j \in Jobs : WaitForJob(u, j)) \/ ReadResult(u) \/ WaitTimeout(u)
                 \/ WaitError(u)
      PROVE  Known'
    BY <1>3, <1>4 DEF WaitForJob, ReadResult, WaitTimeout, WaitError
<1>5. ASSUME NEW w \in Workers, Boot(w) \/ EnsureGroup(w) \/ EnsureError(w) PROVE Known'
    <2>1. /\ UNCHANGED <<requestVars, streamVars, pel, cur, todo, verdict>>
          /\ pc'[w] \in {"ensure", "reclaim", "dead"}
          /\ \A v \in Workers \ {w} : pc'[v] = pc[v]
        BY <1>5 DEF Boot, EnsureGroup, EnsureError, Goto, TypeOK
    <2>2. KnownWorker(w)'
        BY <2>1 DEF Known, KnownWorker
    <2> QED  BY <2>1, <2>2, KnownFrame DEF Known
<1>6. ASSUME NEW w \in Workers, Reclaim(w) PROVE Known'
    <2>1. /\ UNCHANGED <<requestVars, streamVars>>
          /\ \A j \in Jobs : pel'[j] # NoWorker => req[j] # "new"
        BY <1>6, GroupKnown DEF Reclaim
    <2>2. Claimable \subseteq Jobs /\ \A j \in Claimable : req[j] # "new"
        BY DEF Claimable, Known
    <2>3. CASE Claimable = {}
        BY <1>6, <2>1, <2>3, ReleaseKnown, KnownFrame DEF Reclaim
    <2>4. CASE Claimable # {}
        BY <1>6, <2>1, <2>2, <2>4, ProcessKnown, KnownFrame DEF Reclaim
    <2> QED  BY <2>3, <2>4
<1>7. ASSUME NEW w \in Workers, ReadNew(w) PROVE Known'
    <2>1. /\ UNCHANGED <<requestVars, streamVars>>
          /\ \A j \in Jobs : pel'[j] # NoWorker => req[j] # "new"
        BY <1>7, GroupKnown DEF ReadNew
    <2>2. CASE Release(w, "reclaim")
        BY <2>1, <2>2, ReleaseKnown, KnownFrame
    <2>3. ASSUME NEW j \in NextEntry, Process(w, {j}, "reclaim") PROVE Known'
        <3>1. PICK S : S = {j}
            OBVIOUS
        <3>2. S \subseteq Jobs /\ S # {} /\ (\A i \in S : req[i] # "new") /\ Process(w, S, "reclaim")
            BY <2>3, <3>1 DEF NextEntry, Known
        <3> QED  BY <2>1, <3>2, ProcessKnown, KnownFrame
    <2> QED  BY <1>7, <2>2, <2>3 DEF ReadNew
<1>8. ASSUME NEW w \in Workers, Ack(w) PROVE Known'
    <2>1. /\ UNCHANGED <<requestVars, streamVars>>
          /\ \A j \in Jobs : pel'[j] # NoWorker => req[j] # "new"
        BY <1>8, GroupKnown DEF Ack
    <2>2. CASE Leave(w)
        BY <2>1, <2>2, ReleaseKnown, KnownFrame DEF Leave
    <2>3. CASE after[w] # "down" /\ Release(w, after[w])
        <3>1. after[w] \in Phases \ BusyPhases
            BY <2>3 DEF TypeOK
        <3> QED  BY <2>1, <2>3, <3>1, ReleaseKnown, KnownFrame
    <2>4. CASE todo[w] # {} /\ Process(w, todo[w], after[w])
        <3>1. todo[w] \subseteq Jobs /\ \A j \in todo[w] : req[j] # "new"
            BY DEF TypeOK, Known, KnownWorker
        <3> QED  BY <2>1, <2>4, <3>1, ProcessKnown, KnownFrame
    <2> QED  BY <1>8, <2>2, <2>3, <2>4 DEF Ack
<1>9. ASSUME NEW w \in Workers, ReclaimError(w) \/ ReadError(w) \/ AckError(w) PROVE Known'
    <2>1. /\ UNCHANGED <<requestVars, streamVars>>
          /\ \A j \in Jobs : pel'[j] # NoWorker => req[j] # "new"
        BY <1>9, GroupKnown DEF ReclaimError, ReadError, AckError
    <2>2. Release(w, "read") \/ Release(w, "reclaim")
        BY <1>9 DEF ReclaimError, ReadError, AckError
    <2> QED  BY <2>1, <2>2, ReleaseKnown, KnownFrame
<1>10. ASSUME NEW w \in Workers, StopIdle(w) \/ StopAck(w) \/ Crash(w) PROVE Known'
    <2>1. /\ UNCHANGED <<requestVars, streamVars>>
          /\ \A j \in Jobs : pel'[j] # NoWorker => req[j] # "new"
        BY <1>10, GroupKnown DEF StopIdle, StopAck, Crash
    <2>2. Release(w, "down")
        BY <1>10 DEF StopIdle, StopAck, Crash, Leave
    <2> QED  BY <2>1, <2>2, ReleaseKnown, KnownFrame
<1>11. ASSUME NEW w \in Workers,
              Fetch(w) \/ OpenFile(w) \/ WriteFile(w) \/ Publish(w) \/ PublishError(w) \/ StopBusy(w)
       PROVE  Known'
    <2>1. /\ UNCHANGED <<requestVars, streamVars, pel, cur>>
          /\ \A v \in Workers \ {w} : pc'[v] = pc[v]
          /\ \A v \in Workers \ {w} : todo'[v] = todo[v]
          /\ todo'[w] \subseteq todo[w]
        <3>1. CASE Fetch(w) \/ OpenFile(w) \/ WriteFile(w) \/ Publish(w)
            BY <3>1 DEF Fetch, OpenFile, WriteFile, Publish, Goto, TypeOK
        <3>2. CASE PublishError(w)
            BY <3>2 DEF PublishError, Goto, TypeOK
        <3>3. CASE StopBusy(w)
            BY <3>3 DEF StopBusy, Goto, TypeOK
        <3> QED  BY <1>11, <3>1, <3>2, <3>3
    <2>2. /\ \A v \in Workers \ {w} : verdict'[v] = verdict[v]
          /\ pc'[w] = "pubAdd" => verdict'[w] \in Records
        <3>1. CASE Fetch(w) \/ OpenFile(w) \/ WriteFile(w)
            BY <3>1 DEF Fetch, OpenFile, WriteFile, Goto, TypeOK
        <3>2. CASE Publish(w)
            BY <3>2 DEF Publish, AfterPublish, Goto, TypeOK
        <3>3. CASE PublishError(w)
            BY <3>3 DEF PublishError, Goto, TypeOK
        <3>4. CASE StopBusy(w)
            BY <3>4 DEF StopBusy, Goto, TypeOK
        <3> QED  BY <1>11, <3>1, <3>2, <3>3, <3>4
    <2>3. KnownWorker(w)'
        BY <2>1, <2>2 DEF Known, KnownWorker
    <2> QED  BY <2>1, <2>2, <2>3, KnownFrame DEF Known
<1>12. CASE Tick
    BY <1>3, <1>12 DEF Tick
<1>13. CASE UNCHANGED vars
    BY <1>3, <1>13 DEF vars
<1> QED
    BY <1>1, <1>2, <1>4, <1>5, <1>6, <1>7, <1>8, <1>9, <1>10, <1>11, <1>12, <1>13
       DEF Next, WorkerStep, WorkerFault

-----------------------------------------------------------------------------
(* The steps of ExportJobs as steps of JobService.                         *)

\* The commands of _publish answer an open job or change no answer.
LEMMA PublishRefines ==
    ASSUME TypeOK, Known, NEW w \in Workers, pc[w] \in BusyPhases,
           PublishEffect(w) \/ UNCHANGED <<resultVars, ownerVars>>,
           UNCHANGED <<submitter, seen>>
    PROVE  (\E j \in Jobs, r \in Records : Service!Complete(j, r)) \/ UNCHANGED result
<1>1. CASE UNCHANGED result
    BY <1>1
<1>2. CASE pc[w] = "pubAdd" /\ XAddResult(cur[w], verdict[w])
    <2>1. cur[w] \in Jobs /\ verdict[w] \in Records /\ submitter[cur[w]] # NoUser
        BY <1>2 DEF TypeOK, Known, KnownWorker
    <2>2. CASE result[cur[w]] = NoResult
        <3>1. Service!Complete(cur[w], verdict[w])
            BY <1>2, <2>1, <2>2 DEF Service!Complete, XAddResult
        <3> QED  BY <2>1, <3>1
    <2>3. CASE result[cur[w]] # NoResult
        <3>1. result' = result
            BY <1>2, <2>1, <2>3 DEF TypeOK, XAddResult
        <3> QED  BY <3>1
    <2> QED  BY <2>2, <2>3
<1> QED  BY <1>1, <1>2 DEF PublishEffect, ExpireResult

\* Every step is one of the abstract service, or a stutter of it.
LEMMA StepRefines ==
    ASSUME TypeOK, Known, Guarded, [Next]_vars
    PROVE  [Service!Next]_(Service!serviceVars)
<1> USE DEF Service!serviceVars
<1>1. ASSUME UNCHANGED <<submitter, result, seen>> PROVE UNCHANGED Service!serviceVars
    BY <1>1
<1>2. ASSUME NEW u \in Users, NEW j \in Jobs, SubmitOwner(u, j) \/ SubmitOwnerError(u, j)
      PROVE  Service!Next
    <2>1. submitter[j] = NoUser /\ submitter' = [submitter EXCEPT ![j] = u]
          /\ UNCHANGED <<result, seen>>
        BY <1>2 DEF SubmitOwner, SubmitOwnerError, Known
    <2>2. Service!Submit(u, j)
        BY <2>1 DEF Service!Submit
    <2> QED  BY <2>2 DEF Service!Next
<1>3. ASSUME NEW j \in Jobs, SubmitEntry(j) \/ SubmitError(j) PROVE UNCHANGED <<submitter, result, seen>>
    BY <1>3 DEF SubmitEntry, SubmitError
<1>4. ASSUME NEW u \in Pollers, (\E j \in Jobs : WaitForJob(u, j)) \/ WaitTimeout(u) \/ WaitError(u)
      PROVE  UNCHANGED <<submitter, result, seen>>
    BY <1>4 DEF WaitForJob, WaitTimeout, WaitError
<1>5. ASSUME NEW u \in Pollers, ReadResult(u) PROVE Service!Next
    <2>1. waiting[u] \in Jobs /\ u \in Users /\ submitter[waiting[u]] = u
        BY <1>5 DEF ReadResult, Guarded, TypeOK
    <2>2. Service!Deliver(u, waiting[u])
        BY <1>5, <2>1 DEF ReadResult, Service!Deliver
    <2> QED  BY <2>1, <2>2 DEF Service!Next
<1>6. ASSUME NEW w \in Workers,
             \/ Boot(w) \/ EnsureGroup(w) \/ EnsureError(w) \/ Reclaim(w) \/ ReclaimError(w)
             \/ ReadNew(w) \/ ReadError(w) \/ Fetch(w) \/ OpenFile(w) \/ WriteFile(w)
             \/ Ack(w) \/ AckError(w) \/ StopIdle(w) \/ StopAck(w) \/ Crash(w)
      PROVE  UNCHANGED <<submitter, result, seen>>
    <2>1. CASE Boot(w) \/ EnsureGroup(w) \/ EnsureError(w)
        BY <2>1 DEF Boot, EnsureGroup, EnsureError
    <2>2. CASE Reclaim(w) \/ ReclaimError(w) \/ ReadNew(w) \/ ReadError(w)
        BY <2>2 DEF Reclaim, ReclaimError, ReadNew, ReadError
    <2>3. CASE Fetch(w) \/ OpenFile(w) \/ WriteFile(w)
        BY <2>3 DEF Fetch, OpenFile, WriteFile
    <2>4. CASE Ack(w) \/ AckError(w) \/ StopIdle(w) \/ StopAck(w) \/ Crash(w)
        BY <2>4 DEF Ack, AckError, StopIdle, StopAck, Crash
    <2> QED  BY <1>6, <2>1, <2>2, <2>3, <2>4
<1>7. ASSUME NEW w \in Workers, Publish(w) \/ PublishError(w) \/ StopBusy(w)
      PROVE  Service!Next \/ UNCHANGED <<submitter, result, seen>>
    <2>1. /\ pc[w] \in BusyPhases /\ UNCHANGED <<submitter, seen>>
          /\ PublishEffect(w) \/ UNCHANGED <<resultVars, ownerVars>>
        BY <1>7 DEF Publish, PublishError, StopBusy
    <2> QED  BY <2>1, PublishRefines DEF Service!Next
<1>8. CASE Tick
    <2> DEFINE S == {j \in Jobs : resultTTL[j] = 1}
    <2>1. Service!Expire(S)
        BY <1>8 DEF Tick, Service!Expire
    <2> QED  BY <2>1 DEF Service!Next
<1>9. CASE UNCHANGED vars
    BY <1>1, <1>9 DEF vars
<1> QED
    BY <1>1, <1>2, <1>3, <1>4, <1>5, <1>6, <1>7, <1>8, <1>9 DEF Next, WorkerStep, WorkerFault

\* The detailed export, with its stream, its workers that crash, stop and
\* publish twice, and its keys that expire, implements the service its two
\* tools promise: one answer per job until it expires, for its owner only.
THEOREM ExportJobsImplementService == Spec => ImplementsService
<1>1. Init => Service!Init
    BY DEF Init, Service!Init
<1>2. Init => Known /\ Guarded
    BY DEF Init, Known, KnownWorker, Guarded, OwnerOnly
<1>3. TypeOK /\ Known /\ Guarded /\ [Next]_vars => [Service!Next]_(Service!serviceVars)
    BY StepRefines
<1> QED  BY <1>1, <1>2, <1>3, KnownStep, GuardedStep, TypeCorrect, PTL
         DEF Spec, ImplementsService, Service!Spec

-----------------------------------------------------------------------------
(* Expiry of the results and of the owner keys.                            *)

\* What the two properties of the expiries need: a result that expires belongs
\* to a job that was submitted, so that a new owner key meets none.
Expiring ==
    /\ \A j \in Jobs : req[j] = "new" => resultTTL[j] = NoExpiry
    /\ NoImmortalResult
    /\ OwnerOutlivesResult

\* No step takes a fault back.
LEMMA FaultsGrow ==
    ASSUME TypeOK, [Next]_vars
    PROVE  \A k \in FaultKinds : faults'[k] >= faults[k]
<1>1. ASSUME UNCHANGED faults PROVE \A k \in FaultKinds : faults'[k] >= faults[k]
    BY <1>1 DEF TypeOK
<1>2. ASSUME NEW i \in FaultKinds, Fault(i) PROVE \A k \in FaultKinds : faults'[k] >= faults[k]
    BY <1>2 DEF TypeOK, Fault
<1>3. ASSUME NEW u \in Users, NEW j \in Jobs, SubmitOwner(u, j) \/ SubmitOwnerError(u, j)
      PROVE  UNCHANGED faults \/ Fault("redis")
    BY <1>3 DEF SubmitOwner, SubmitOwnerError
<1>4. ASSUME NEW j \in Jobs, SubmitEntry(j) \/ SubmitError(j) PROVE UNCHANGED faults \/ Fault("redis")
    BY <1>4 DEF SubmitEntry, SubmitError
<1>5. ASSUME NEW u \in Pollers,
             (\E j \in Jobs : WaitForJob(u, j)) \/ ReadResult(u) \/ WaitTimeout(u) \/ WaitError(u)
      PROVE  UNCHANGED faults \/ Fault("redis")
    BY <1>5 DEF WaitForJob, ReadResult, WaitTimeout, WaitError
<1>6. ASSUME NEW w \in Workers, Boot(w) \/ WorkerStep(w) PROVE UNCHANGED faults
    BY <1>6 DEF Boot, WorkerStep, EnsureGroup, Reclaim, ReadNew, Fetch, OpenFile, WriteFile,
                Publish, Ack
<1>7. ASSUME NEW w \in Workers, WorkerFault(w) PROVE \E k \in FaultKinds : Fault(k)
    BY <1>7 DEF WorkerFault, EnsureError, ReclaimError, ReadError, PublishError, AckError,
                StopIdle, StopBusy, StopAck, Crash
<1>8. CASE Tick \/ UNCHANGED vars
    BY <1>1, <1>8 DEF Tick, vars
<1> QED  BY <1>1, <1>2, <1>3, <1>4, <1>5, <1>6, <1>7, <1>8 DEF Next

\* A crash, a stop or a Redis error ends the hypothesis Uninterrupted for good.
LEMMA FaultInterrupts ==
    ASSUME TypeOK, NEW k \in {"crash", "stop", "redis"}, Fault(k)
    PROVE  ~Uninterrupted'
BY DEF TypeOK, Fault, Uninterrupted

\* A job that nobody submitted has no result that expires, because no worker
\* has it in hand.
LEMMA UnexpiringStep ==
    ASSUME TypeOK, Known, [Next]_vars, \A j \in Jobs : req[j] = "new" => resultTTL[j] = NoExpiry
    PROVE  \A j \in Jobs : req'[j] = "new" => resultTTL'[j] = NoExpiry
<1> USE DEF TypeOK
<1>1. ASSUME NEW u \in Users, NEW j \in Jobs, SubmitOwner(u, j) \/ SubmitOwnerError(u, j)
      PROVE  UNCHANGED resultTTL /\ \A i \in Jobs : req'[i] = "new" => req[i] = "new"
    BY <1>1 DEF SubmitOwner, SubmitOwnerError
<1>2. ASSUME NEW j \in Jobs, SubmitEntry(j) \/ SubmitError(j)
      PROVE  UNCHANGED resultTTL /\ \A i \in Jobs : req'[i] = "new" => req[i] = "new"
    BY <1>2 DEF SubmitEntry, SubmitError
<1>3. ASSUME NEW u \in Pollers,
             (\E j \in Jobs : WaitForJob(u, j)) \/ ReadResult(u) \/ WaitTimeout(u) \/ WaitError(u)
      PROVE  UNCHANGED <<req, resultTTL>>
    BY <1>3 DEF WaitForJob, ReadResult, WaitTimeout, WaitError
<1>4. ASSUME NEW w \in Workers, PublishEffect(w) \/ UNCHANGED <<resultVars, ownerVars>>,
             pc[w] \in PublishPhases
      PROVE  \A j \in Jobs : req[j] = "new" => resultTTL'[j] = NoExpiry
    <2>1. cur[w] \in Jobs /\ req[cur[w]] # "new"
        BY <1>4 DEF Known, KnownWorker
    <2> QED  BY <1>4, <2>1 DEF PublishEffect, XAddResult, ExpireResult
<1>5. ASSUME NEW w \in Workers, Publish(w) \/ PublishError(w)
      PROVE  UNCHANGED req /\ \A j \in Jobs : req[j] = "new" => resultTTL'[j] = NoExpiry
    BY <1>4, <1>5 DEF Publish, PublishError
<1>6. ASSUME NEW w \in Workers, StopBusy(w)
      PROVE  UNCHANGED req /\ \A j \in Jobs : req[j] = "new" => resultTTL'[j] = NoExpiry
    <2>1. CASE pc[w] \in PublishPhases
        BY <1>4, <1>6, <2>1 DEF StopBusy
    <2>2. CASE pc[w] \notin PublishPhases
        BY <1>6, <2>2 DEF StopBusy, PublishEffect
    <2> QED  BY <2>1, <2>2
<1>7. ASSUME NEW w \in Workers,
             \/ Boot(w) \/ EnsureGroup(w) \/ Reclaim(w) \/ ReadNew(w) \/ Fetch(w) \/ OpenFile(w)
             \/ WriteFile(w) \/ Ack(w)
      PROVE  UNCHANGED <<req, resultTTL>>
    BY <1>7 DEF Boot, EnsureGroup, Reclaim, ReadNew, Fetch, OpenFile, WriteFile, Ack
<1>8. ASSUME NEW w \in Workers,
             \/ EnsureError(w) \/ ReclaimError(w) \/ ReadError(w) \/ AckError(w)
             \/ StopIdle(w) \/ StopAck(w) \/ Crash(w)
      PROVE  UNCHANGED <<req, resultTTL>>
    BY <1>8 DEF EnsureError, ReclaimError, ReadError, AckError, StopIdle, StopAck, Crash
<1>9. CASE Tick
    BY <1>9 DEF Tick
<1>10. CASE UNCHANGED vars
    BY <1>10 DEF vars
<1> QED  BY <1>1, <1>2, <1>3, <1>5, <1>6, <1>7, <1>8, <1>9, <1>10 DEF Next, WorkerStep, WorkerFault

\* A step that touches no key and leaves the workers between the commands of
\* _publish where they are.
LEMMA ExpiringFrame ==
    ASSUME NoImmortalResult, OwnerOutlivesResult, Uninterrupted,
           UNCHANGED <<result, resultTTL, owner, ownerTTL>>,
           \A v \in Workers : pc[v] \in {"pubTTL", "pubOwner"} => pc'[v] = pc[v] /\ cur'[v] = cur[v]
    PROVE  NoImmortalResult' /\ OwnerOutlivesResult'
BY DEF NoImmortalResult, OwnerOutlivesResult

\* Likewise for the step of one worker that is at neither of the two places.
LEMMA ExpiringElsewhere ==
    ASSUME NoImmortalResult, OwnerOutlivesResult, Uninterrupted,
           UNCHANGED <<result, resultTTL, owner, ownerTTL>>,
           NEW w \in Workers, pc[w] \notin {"pubTTL", "pubOwner"},
           \A v \in Workers \ {w} : pc'[v] = pc[v] /\ cur'[v] = cur[v]
    PROVE  NoImmortalResult' /\ OwnerOutlivesResult'
BY ExpiringFrame

\* The commands of _publish: XADD is followed by EXPIRE on the result, and that
\* one by EXPIRE on the owner key.
LEMMA PublishExpires ==
    ASSUME TypeOK, TypeOK', NoImmortalResult, OwnerOutlivesResult, Uninterrupted,
           NEW w \in Workers, Publish(w)
    PROVE  NoImmortalResult' /\ OwnerOutlivesResult'
<1> DEFINE i == cur[w]
<1>1. /\ i \in Jobs /\ cur' = cur /\ PublishEffect(w) /\ pc[w] \in PublishPhases
      /\ pc'[w] = AfterPublish[pc[w]]
      /\ \A v \in Workers \ {w} : pc'[v] = pc[v]
    BY DEF Publish, Goto, TypeOK
<1>2. CASE pc[w] = "pubAdd"
    <2>1. /\ pc'[w] = "pubTTL" /\ UNCHANGED <<resultTTL, owner, ownerTTL>>
          /\ \A j \in Jobs \ {i} : result'[j] = result[j]
        BY <1>1, <1>2 DEF AfterPublish, PublishEffect, XAddResult, TypeOK
    <2> QED  BY <1>1, <1>2, <2>1 DEF NoImmortalResult, OwnerOutlivesResult
<1>3. CASE pc[w] = "pubTTL"
    <2>1. /\ pc'[w] = "pubOwner" /\ UNCHANGED <<result, owner, ownerTTL>>
          /\ result[i] # NoResult => resultTTL'[i] # NoExpiry
          /\ \A j \in Jobs \ {i} : resultTTL'[j] = resultTTL[j]
        BY <1>1, <1>3 DEF AfterPublish, PublishEffect, ExpireResult, TypeOK
    <2>2. NoImmortalResult'
        BY <1>1, <1>3, <2>1 DEF NoImmortalResult
    <2>3. OwnerOutlivesResult'
        BY <1>1, <1>3, <2>1 DEF OwnerOutlivesResult
    <2> QED  BY <2>2, <2>3
<1>4. CASE pc[w] = "pubOwner"
    <2>1. /\ pc'[w] = "ack" /\ UNCHANGED <<result, resultTTL, owner>>
          /\ owner[i] # NoUser => ownerTTL'[i] = ResultTTL
          /\ \A j \in Jobs \ {i} : ownerTTL'[j] = ownerTTL[j]
        BY <1>1, <1>4 DEF AfterPublish, PublishEffect, ExpireOwner, TypeOK
    <2>2. NoImmortalResult'
        BY <1>1, <1>4, <2>1 DEF NoImmortalResult
    <2>3. owner[i] # NoUser /\ resultTTL[i] # NoExpiry => ownerTTL'[i] >= resultTTL[i]
        BY <1>1, <2>1 DEF TypeOK
    <2>4. OwnerOutlivesResult'
        BY <1>1, <1>4, <2>1, <2>3 DEF OwnerOutlivesResult
    <2> QED  BY <2>2, <2>4
<1> QED  BY <1>1, <1>2, <1>3, <1>4

\* Every step keeps Expiring.
LEMMA ExpiringStep ==
    ASSUME TypeOK, TypeOK', Known, Expiring, [Next]_vars
    PROVE  Expiring'
<1>1. \A j \in Jobs : req'[j] = "new" => resultTTL'[j] = NoExpiry
    BY UnexpiringStep DEF Expiring
<1>2. CASE ~Uninterrupted'
    BY <1>1, <1>2 DEF Expiring, NoImmortalResult, OwnerOutlivesResult
<1>3. CASE Uninterrupted'
    <2>1. Uninterrupted
        BY <1>3, FaultsGrow DEF Uninterrupted, TypeOK
    <2>2. ~Fault("crash") /\ ~Fault("stop") /\ ~Fault("redis")
        BY <1>3, FaultInterrupts
    <2>3. NoImmortalResult /\ OwnerOutlivesResult
        BY DEF Expiring
    <2>4. SUFFICES NoImmortalResult' /\ OwnerOutlivesResult'
        BY <1>1 DEF Expiring
    <2>5. ASSUME NEW u \in Users, NEW j \in Jobs, SubmitOwner(u, j)
          PROVE  NoImmortalResult' /\ OwnerOutlivesResult'
        <3>1. /\ UNCHANGED <<result, resultTTL, pc, cur>>
              /\ resultTTL[j] = NoExpiry
              /\ \A i \in Jobs \ {j} : owner'[i] = owner[i] /\ ownerTTL'[i] = ownerTTL[i]
            BY <2>5 DEF SubmitOwner, Expiring, TypeOK
        <3> QED  BY <2>1, <2>3, <3>1 DEF NoImmortalResult, OwnerOutlivesResult
    <2>6. ASSUME NEW j \in Jobs, SubmitEntry(j) PROVE NoImmortalResult' /\ OwnerOutlivesResult'
        BY <2>1, <2>3, <2>6, ExpiringFrame DEF SubmitEntry
    <2>7. ASSUME NEW u \in Pollers, (\E j \in Jobs : WaitForJob(u, j)) \/ ReadResult(u) \/ WaitTimeout(u)
          PROVE  NoImmortalResult' /\ OwnerOutlivesResult'
        BY <2>1, <2>3, <2>7, ExpiringFrame DEF WaitForJob, ReadResult, WaitTimeout
    <2>8. ASSUME NEW w \in Workers, Boot(w) \/ EnsureGroup(w) \/ EnsureError(w)
          PROVE  NoImmortalResult' /\ OwnerOutlivesResult'
        <3>1. /\ UNCHANGED <<result, resultTTL, owner, ownerTTL, cur>>
              /\ pc[w] \in {"down", "ensure"} /\ \A v \in Workers \ {w} : pc'[v] = pc[v]
            BY <2>8 DEF Boot, EnsureGroup, EnsureError, Goto, TypeOK
        <3> QED  BY <2>1, <2>3, <3>1, ExpiringElsewhere
    <2>9. ASSUME NEW w \in Workers, Reclaim(w) \/ ReadNew(w) \/ Ack(w)
          PROVE  NoImmortalResult' /\ OwnerOutlivesResult'
        <3>1. /\ UNCHANGED <<result, resultTTL, owner, ownerTTL>>
              /\ pc[w] \in {"reclaim", "read", "ack"}
            BY <2>9 DEF Reclaim, ReadNew, Ack
        <3>2. ASSUME NEW p, Release(w, p)
              PROVE  \A v \in Workers \ {w} : pc'[v] = pc[v] /\ cur'[v] = cur[v]
            BY <3>2 DEF Release, Goto, TypeOK
        <3>3. ASSUME NEW S, NEW p, Process(w, S, p)
              PROVE  \A v \in Workers \ {w} : pc'[v] = pc[v] /\ cur'[v] = cur[v]
            BY <3>3 DEF Process, Goto, TypeOK
        <3>4. \/ \E p : Release(w, p)
              \/ \E S, p : Process(w, S, p)
            BY <2>9 DEF Reclaim, ReadNew, Ack, Leave
        <3> QED  BY <2>1, <2>3, <3>1, <3>2, <3>3, <3>4, ExpiringElsewhere
    <2>10. ASSUME NEW w \in Workers, Fetch(w) \/ OpenFile(w) \/ WriteFile(w)
           PROVE  NoImmortalResult' /\ OwnerOutlivesResult'
        <3>1. /\ UNCHANGED <<result, resultTTL, owner, ownerTTL, cur>>
              /\ pc[w] \in ExportPhases /\ \A v \in Workers \ {w} : pc'[v] = pc[v]
            BY <2>10 DEF Fetch, OpenFile, WriteFile, Goto, TypeOK
        <3> QED  BY <2>1, <2>3, <3>1, ExpiringElsewhere
    <2>11. ASSUME NEW w \in Workers, Publish(w) PROVE NoImmortalResult' /\ OwnerOutlivesResult'
        BY <2>1, <2>3, <2>11, PublishExpires
    <2>12. CASE Tick
        <3>1. UNCHANGED <<pc, cur>>
            BY <2>12 DEF Tick
        <3>2. NoImmortalResult'
            BY <2>1, <2>3, <2>12, <3>1 DEF Tick, NoImmortalResult, TypeOK
        <3>3. OwnerOutlivesResult'
            BY <2>1, <2>3, <2>12, <3>1 DEF Tick, OwnerOutlivesResult, TypeOK
        <3> QED  BY <3>2, <3>3
    <2>13. CASE UNCHANGED vars
        BY <2>1, <2>3, <2>13, ExpiringFrame DEF vars
    <2> QED
        BY <2>2, <2>5, <2>6, <2>7, <2>8, <2>9, <2>10, <2>11, <2>12, <2>13
           DEF Next, WorkerStep, WorkerFault, SubmitOwnerError, SubmitError, WaitError, ReclaimError,
               ReadError, PublishError, AckError, StopIdle, StopBusy, StopAck, Crash
<1> QED  BY <1>2, <1>3

\* Nobody works on a job that was not asked for, in every reachable state.
LEMMA KnownAlways == Spec => []Known
<1>1. Init => Known
    BY DEF Init, Known, KnownWorker
<1> QED  BY <1>1, KnownStep, TypeCorrect, PTL DEF Spec

\* The expiries are in order in every reachable state.
LEMMA ExpiringAlways == Spec => []Expiring
<1>1. Init => Expiring
    BY DEF Init, Expiring, NoImmortalResult, OwnerOutlivesResult
<1>2. TypeOK /\ TypeOK' /\ Known /\ Expiring /\ [Next]_vars => Expiring'
    BY ExpiringStep
<1> QED  BY <1>1, <1>2, TypeCorrect, KnownAlways, PTL DEF Spec

\* As long as no worker is interrupted inside _publish, every result stream has
\* an expiry or a worker that sets it next, however many workers publish results
\* of the same job and whatever expires between their commands.
THEOREM ResultsExpire == Spec => []NoImmortalResult
<1>1. Expiring => NoImmortalResult
    BY DEF Expiring
<1> QED  BY <1>1, ExpiringAlways, PTL

\* Under the same hypothesis the owner key outlives the result it guards, for
\* any two times to live.
THEOREM OwnerKeyOutlives == Spec => []OwnerOutlivesResult
<1>1. Expiring => OwnerOutlivesResult
    BY DEF Expiring
<1> QED  BY <1>1, ExpiringAlways, PTL

-----------------------------------------------------------------------------
(* What stops and Redis errors can lose.                                   *)

\* Lost, or about to be: a worker that has not published acknowledges it next.
Doomed(j) == \/ Lost(j)
             \/ j \notin published /\ \E w \in Workers : pc[w] = "ack" /\ cur[w] = j

AllDoomed == {j \in Jobs : Doomed(j)}

\* The group exists and has not run ahead of the stream, ids are handed out
\* once, and a worker past the XADD of _publish has published.
Delivering ==
    /\ lastDelivered \in Nat /\ lastDelivered <= lastId
    /\ \A j \in Jobs : entryId[j] <= lastId
    /\ \A j, k \in Jobs : entryId[j] # 0 /\ entryId[j] = entryId[k] => j = k
    /\ \A w \in Workers : pc[w] \in {"pubTTL", "pubOwner"} => cur[w] \in published

\* Every doomed job is paid for by a stop or a Redis error.
Accounted ==
    /\ Delivering
    /\ IsFiniteSet(AllDoomed)
    /\ Cardinality(AllDoomed) <= faults["stop"] + faults["redis"]

\* A step that dooms no further job is covered, since faults only grow.
LEMMA NoneDoomed ==
    ASSUME TypeOK, TypeOK', Accounted, Delivering', AllDoomed' \subseteq AllDoomed,
           \A k \in FaultKinds : faults'[k] >= faults[k]
    PROVE  Accounted'
<1>1. IsFiniteSet(AllDoomed) /\ Cardinality(AllDoomed) <= faults["stop"] + faults["redis"]
    BY DEF Accounted
<1>2. IsFiniteSet(AllDoomed') /\ Cardinality(AllDoomed') <= Cardinality(AllDoomed)
    BY <1>1, FS_Subset
<1>3. Cardinality(AllDoomed) \in Nat /\ Cardinality(AllDoomed') \in Nat
    BY <1>1, <1>2, FS_CardinalityType
<1>4. /\ faults["stop"] \in Nat /\ faults["redis"] \in Nat
      /\ faults'["stop"] \in Nat /\ faults'["redis"] \in Nat
      /\ faults'["stop"] >= faults["stop"] /\ faults'["redis"] >= faults["redis"]
    BY DEF TypeOK
<1>5. Cardinality(AllDoomed') <= faults'["stop"] + faults'["redis"]
    BY <1>1, <1>2, <1>3, <1>4
<1> QED  BY <1>2, <1>5 DEF Accounted

\* A stop or a Redis error pays for one job.
LEMMA OneDoomed ==
    ASSUME TypeOK, TypeOK', Accounted, Delivering', NEW i, AllDoomed' \subseteq AllDoomed \union {i},
           NEW k \in {"stop", "redis"}, Fault(k)
    PROVE  Accounted'
<1> DEFINE D == AllDoomed \union {i}
<1>1. IsFiniteSet(AllDoomed) /\ Cardinality(AllDoomed) <= faults["stop"] + faults["redis"]
    BY DEF Accounted
<1>2. IsFiniteSet(D) /\ Cardinality(D) <= Cardinality(AllDoomed) + 1
    <2>1. Cardinality(AllDoomed) \in Nat
        BY <1>1, FS_CardinalityType
    <2>2. IsFiniteSet(D) /\ Cardinality(D) = IF i \in AllDoomed THEN Cardinality(AllDoomed)
                                             ELSE Cardinality(AllDoomed) + 1
        BY <1>1, FS_AddElement
    <2> HIDE DEF D
    <2> QED  BY <2>1, <2>2
<1>3. IsFiniteSet(AllDoomed') /\ Cardinality(AllDoomed') <= Cardinality(D)
    <2> HIDE DEF D
    <2>1. AllDoomed' \subseteq D
        BY DEF D
    <2> QED  BY <1>2, <2>1, FS_Subset
<1>4. Cardinality(AllDoomed) \in Nat /\ Cardinality(D) \in Nat /\ Cardinality(AllDoomed') \in Nat
    BY <1>1, <1>2, <1>3, FS_CardinalityType
<1> HIDE DEF D
<1>5. /\ faults["stop"] \in Nat /\ faults["redis"] \in Nat
      /\ faults'["stop"] + faults'["redis"] = faults["stop"] + faults["redis"] + 1
    BY DEF TypeOK, Fault
<1>6. Cardinality(AllDoomed') <= faults'["stop"] + faults'["redis"]
    BY <1>1, <1>2, <1>3, <1>4, <1>5
<1> QED  BY <1>3, <1>6 DEF Accounted

\* Which jobs a step dooms: none, when the group has passed no further entry,
\* pending entries stay pending, what was published stays published and nobody
\* reaches XACK with a job that has no result.
LEMMA DoomedFrame ==
    ASSUME TypeOK, Delivering, UNCHANGED <<streamVars, lastDelivered>>,
           \A j \in Jobs : pel[j] # NoWorker => pel'[j] # NoWorker,
           published \subseteq published',
           \A w \in Workers : pc'[w] = "ack" =>
               (pc[w] = "ack" /\ cur'[w] = cur[w]) \/ cur'[w] \in published'
    PROVE  AllDoomed' \subseteq AllDoomed
BY DEF AllDoomed, Doomed, Lost

\* The part of Accounted that is not about counting.
LEMMA DeliveringFrame ==
    ASSUME Delivering, UNCHANGED <<streamVars, lastDelivered>>, published \subseteq published',
           \A w \in Workers : pc'[w] \in {"pubTTL", "pubOwner"} => cur'[w] \in published'
    PROVE  Delivering'
BY DEF Delivering

\* A step of one worker that takes the next entry or claims entries.
LEMMA TakingDoomsNone ==
    ASSUME TypeOK, Delivering, NEW w \in Workers, UNCHANGED <<streamVars, published>>,
           \/ UNCHANGED groupVars \/ Claim(w) \/ \E j \in NextEntry : Deliver(w, j),
           pc'[w] \notin {"pubTTL", "pubOwner", "ack"},
           \A v \in Workers \ {w} : pc'[v] = pc[v] /\ cur'[v] = cur[v]
    PROVE  Delivering' /\ AllDoomed' \subseteq AllDoomed
<1>1. \A v \in Workers : pc'[v] \in {"pubTTL", "pubOwner", "ack"} => pc'[v] = pc[v] /\ cur'[v] = cur[v]
    OBVIOUS
<1>2. CASE UNCHANGED groupVars
    BY <1>1, <1>2, DoomedFrame, DeliveringFrame DEF Delivering
<1>3. CASE Claim(w)
    <2>1. UNCHANGED lastDelivered /\ \A j \in Jobs : pel[j] # NoWorker => pel'[j] # NoWorker
        BY <1>3 DEF Claim, TypeOK
    <2> QED  BY <1>1, <2>1, DoomedFrame, DeliveringFrame DEF Delivering
<1>4. ASSUME NEW j \in NextEntry, Deliver(w, j) PROVE Delivering' /\ AllDoomed' \subseteq AllDoomed
    <2>1. j \in Jobs /\ entryId[j] = lastDelivered + 1 /\ entryId[j] # 0
        BY DEF NextEntry
    <2>2. lastDelivered \in Nat /\ lastDelivered' = lastDelivered + 1 /\ lastDelivered' <= lastId
        BY <1>4, <2>1 DEF Deliver, Delivering, TypeOK
    <2>3. pel'[j] # NoWorker /\ \A i \in Jobs \ {j} : pel'[i] = pel[i]
        BY <1>4, <2>1 DEF Deliver, TypeOK
    <2>4. \A i \in Jobs : Lost(i)' => Lost(i)
        <3> SUFFICES ASSUME NEW i \in Jobs, Lost(i)' PROVE Lost(i)
            OBVIOUS
        <3>1. i # j
            BY <2>3 DEF Lost
        <3>2. entryId[i] # lastDelivered + 1
            BY <2>1, <3>1 DEF Delivering
        <3>3. entryId[i] \in 1..(lastDelivered + 1) /\ entryId[i] \in Nat /\ pel[i] = NoWorker
              /\ i \notin published
            BY <2>2, <2>3, <3>1 DEF Lost, TypeOK
        <3> QED  BY <2>2, <3>2, <3>3 DEF Lost
    <2>5. AllDoomed' \subseteq AllDoomed
        BY <1>1, <2>4 DEF AllDoomed, Doomed
    <2> QED  BY <1>1, <2>2, <2>5 DEF Delivering
<1> QED  BY <1>2, <1>3, <1>4

\* XACK by a worker that is at its finally clause: the job was doomed already,
\* or has a result.
LEMMA AckingDoomsNone ==
    ASSUME TypeOK, Delivering, NEW w \in Workers, UNCHANGED <<streamVars, published>>,
           pc[w] = "ack", XAck(cur[w]) \/ UNCHANGED groupVars,
           pc'[w] \notin {"pubTTL", "pubOwner", "ack"},
           \A v \in Workers \ {w} : pc'[v] = pc[v] /\ cur'[v] = cur[v]
    PROVE  Delivering' /\ AllDoomed' \subseteq AllDoomed
<1>1. \A v \in Workers : pc'[v] \in {"pubTTL", "pubOwner", "ack"} => pc'[v] = pc[v] /\ cur'[v] = cur[v]
    OBVIOUS
<1>2. CASE UNCHANGED groupVars
    BY <1>1, <1>2, DoomedFrame, DeliveringFrame DEF Delivering
<1>3. CASE XAck(cur[w])
    <2>1. cur[w] \in Jobs /\ UNCHANGED lastDelivered /\ \A i \in Jobs \ {cur[w]} : pel'[i] = pel[i]
        BY <1>3 DEF XAck, TypeOK
    <2>2. Doomed(cur[w]) \/ cur[w] \in published
        BY DEF Doomed
    <2>3. \A i \in Jobs : Lost(i)' => Doomed(i)
        BY <2>1, <2>2 DEF Lost, Doomed
    <2>4. AllDoomed' \subseteq AllDoomed
        BY <1>1, <2>3 DEF AllDoomed, Doomed
    <2> QED  BY <1>1, <2>1, <2>4, DeliveringFrame DEF Delivering
<1> QED  BY <1>2, <1>3

\* A worker goes from _process to XACK without a result of its own.
LEMMA AbandoningDoomsOne ==
    ASSUME TypeOK, Delivering, NEW w \in Workers, UNCHANGED <<streamVars, groupVars, cur>>,
           published \subseteq published', pc'[w] \notin {"pubTTL", "pubOwner"},
           \A v \in Workers \ {w} : pc'[v] = pc[v]
    PROVE  Delivering' /\ AllDoomed' \subseteq AllDoomed \union {cur[w]}
<1>1. \A v \in Workers : pc'[v] \in {"pubTTL", "pubOwner", "ack"} => v = w \/ pc'[v] = pc[v]
    OBVIOUS
<1>2. \A j \in Jobs : Lost(j)' => Lost(j)
    BY DEF Lost
<1>3. AllDoomed' \subseteq AllDoomed \union {cur[w]}
    BY <1>1, <1>2 DEF AllDoomed, Doomed
<1>4. \A v \in Workers : pc'[v] \in {"pubTTL", "pubOwner"} => cur'[v] \in published'
    BY <1>1 DEF Delivering
<1> QED  BY <1>3, <1>4, DeliveringFrame

\* Every step keeps the account, on a deployment whose group exists.
LEMMA AccountedStep ==
    ASSUME TypeOK, TypeOK', Accounted, [Next]_vars
    PROVE  Accounted'
<1>1. Delivering /\ \A k \in FaultKinds : faults'[k] >= faults[k]
    BY FaultsGrow DEF Accounted
<1>2. ASSUME Delivering', AllDoomed' \subseteq AllDoomed PROVE Accounted'
    BY <1>1, <1>2, NoneDoomed
<1>3. ASSUME UNCHANGED <<streamVars, lastDelivered, pel, published, pc, cur>> PROVE Accounted'
    <2>1. Delivering' /\ AllDoomed' \subseteq AllDoomed
        BY <1>1, <1>3, DoomedFrame, DeliveringFrame DEF Delivering
    <2> QED  BY <1>2, <2>1
<1>4. ASSUME NEW u \in Users, NEW j \in Jobs, SubmitOwner(u, j) \/ SubmitOwnerError(u, j)
      PROVE  Accounted'
    BY <1>3, <1>4 DEF SubmitOwner, SubmitOwnerError
<1>5. ASSUME NEW j \in Jobs, SubmitEntry(j) \/ SubmitError(j) PROVE Accounted'
    <2>1. UNCHANGED <<lastDelivered, pel, published, pc, cur>> /\ (XAddJob(j) \/ UNCHANGED streamVars)
        BY <1>5 DEF SubmitEntry, SubmitError
    <2>2. CASE UNCHANGED streamVars
        BY <1>3, <2>1, <2>2
    <2>3. CASE XAddJob(j)
        <3>1. /\ entryId'[j] = lastId + 1 /\ lastId' = lastId + 1
              /\ \A i \in Jobs \ {j} : entryId'[i] = entryId[i]
            BY <2>3 DEF XAddJob, TypeOK
        <3>2. /\ lastId \in Nat /\ lastDelivered \in Nat /\ lastDelivered <= lastId
              /\ \A i \in Jobs : entryId[i] \in Nat /\ entryId[i] <= lastId
            BY <1>1 DEF Delivering, TypeOK
        <3>3. Delivering'
            <4>1. lastDelivered' \in Nat /\ lastDelivered' <= lastId'
                BY <2>1, <3>1, <3>2
            <4>2. \A i \in Jobs : entryId'[i] <= lastId'
                BY <3>1, <3>2
            <4>3. \A i, k \in Jobs : entryId'[i] # 0 /\ entryId'[i] = entryId'[k] => i = k
                <5> SUFFICES ASSUME NEW i \in Jobs, NEW k \in Jobs,
                                    entryId'[i] # 0, entryId'[i] = entryId'[k]
                             PROVE  i = k
                    OBVIOUS
                <5>1. CASE i # j /\ k # j
                    BY <1>1, <3>1, <5>1 DEF Delivering
                <5>2. CASE i = j \/ k = j
                    BY <3>1, <3>2, <5>2
                <5> QED  BY <5>1, <5>2
            <4>4. \A w \in Workers : pc'[w] \in {"pubTTL", "pubOwner"} => cur'[w] \in published'
                BY <1>1, <2>1 DEF Delivering
            <4> QED  BY <4>1, <4>2, <4>3, <4>4 DEF Delivering
        <3>4. \A i \in Jobs : Lost(i)' => Lost(i)
            <4> SUFFICES ASSUME NEW i \in Jobs, Lost(i)' PROVE Lost(i)
                OBVIOUS
            <4>1. i # j
                BY <2>1, <3>1, <3>2 DEF Lost
            <4> QED  BY <2>1, <3>1, <4>1 DEF Lost
        <3>5. AllDoomed' \subseteq AllDoomed
            BY <2>1, <3>4 DEF AllDoomed, Doomed
        <3> QED  BY <1>2, <3>3, <3>5
    <2> QED  BY <2>1, <2>2, <2>3
<1>6. ASSUME NEW u \in Pollers,
             (\E j \in Jobs : WaitForJob(u, j)) \/ ReadResult(u) \/ WaitTimeout(u) \/ WaitError(u)
      PROVE  Accounted'
    BY <1>3, <1>6 DEF WaitForJob, ReadResult, WaitTimeout, WaitError
<1>7. ASSUME NEW w \in Workers, UNCHANGED <<streamVars, published>>,
             \/ UNCHANGED groupVars \/ Claim(w) \/ \E j \in NextEntry : Deliver(w, j),
             pc'[w] \notin {"pubTTL", "pubOwner", "ack"},
             \A v \in Workers \ {w} : pc'[v] = pc[v] /\ cur'[v] = cur[v]
      PROVE  Accounted'
    BY <1>1, <1>2, <1>7, TakingDoomsNone
<1>8. ASSUME NEW w \in Workers, UNCHANGED <<streamVars, published>>,
             pc[w] = "ack", XAck(cur[w]) \/ UNCHANGED groupVars,
             pc'[w] \notin {"pubTTL", "pubOwner", "ack"},
             \A v \in Workers \ {w} : pc'[v] = pc[v] /\ cur'[v] = cur[v]
      PROVE  Accounted'
    BY <1>1, <1>2, <1>8, AckingDoomsNone
<1>9. ASSUME NEW w \in Workers, NEW p \in Phases \ BusyPhases, Release(w, p)
      PROVE  /\ pc'[w] \notin {"pubTTL", "pubOwner", "ack"}
             /\ \A v \in Workers \ {w} : pc'[v] = pc[v] /\ cur'[v] = cur[v]
    BY <1>9 DEF Release, Goto, TypeOK
<1>10. ASSUME NEW w \in Workers, NEW S, NEW p, Process(w, S, p)
       PROVE  /\ pc'[w] \notin {"pubTTL", "pubOwner", "ack"}
              /\ \A v \in Workers \ {w} : pc'[v] = pc[v] /\ cur'[v] = cur[v]
    BY <1>10 DEF Process, Goto, TypeOK
<1>11. ASSUME NEW w \in Workers, Boot(w) \/ EnsureGroup(w) \/ EnsureError(w) PROVE Accounted'
    <2>1. /\ UNCHANGED <<streamVars, pel, idle, published, cur>>
          /\ pc'[w] \in {"ensure", "reclaim", "dead"} /\ \A v \in Workers \ {w} : pc'[v] = pc[v]
        BY <1>11 DEF Boot, EnsureGroup, EnsureError, Goto, TypeOK
    <2>2. UNCHANGED lastDelivered
        BY <1>1, <1>11 DEF Boot, EnsureGroup, EnsureError, CreateGroup, Delivering
    <2> QED  BY <1>7, <2>1, <2>2
<1>12. ASSUME NEW w \in Workers, Reclaim(w) PROVE Accounted'
    <2>1. UNCHANGED <<streamVars, published>> /\ Claim(w)
        BY <1>12 DEF Reclaim
    <2>2. Release(w, "read") \/ Process(w, Claimable, "read")
        BY <1>12 DEF Reclaim
    <2> QED  BY <1>7, <1>9, <1>10, <2>1, <2>2
<1>13. ASSUME NEW w \in Workers, ReadNew(w) PROVE Accounted'
    <2>1. UNCHANGED <<streamVars, published>>
        BY <1>13 DEF ReadNew
    <2>2. CASE Release(w, "reclaim") /\ UNCHANGED groupVars
        BY <1>7, <1>9, <2>1, <2>2
    <2>3. ASSUME NEW j \in NextEntry, NEW S, Deliver(w, j), Process(w, S, "reclaim")
          PROVE  Accounted'
        BY <1>7, <1>10, <2>1, <2>3
    <2> QED  BY <1>13, <2>2, <2>3 DEF ReadNew
<1>14. ASSUME NEW w \in Workers, ReclaimError(w) \/ ReadError(w) PROVE Accounted'
    <2>1. /\ UNCHANGED <<streamVars, published>>
          /\ UNCHANGED groupVars \/ Claim(w) \/ \E j \in NextEntry : Deliver(w, j)
          /\ Release(w, "read") \/ Release(w, "reclaim")
        BY <1>14 DEF ReclaimError, ReadError
    <2> QED  BY <1>7, <1>9, <2>1
<1>15. ASSUME NEW w \in Workers, Fetch(w) \/ OpenFile(w) \/ WriteFile(w) PROVE Accounted'
    <2>1. /\ UNCHANGED <<streamVars, groupVars, published, cur>>
          /\ pc'[w] \in {"open", "writing", "pubAdd"} /\ \A v \in Workers \ {w} : pc'[v] = pc[v]
        BY <1>15 DEF Fetch, OpenFile, WriteFile, Goto, TypeOK
    <2> QED  BY <1>7, <2>1
<1>16. ASSUME NEW w \in Workers, Publish(w) PROVE Accounted'
    <2>1. /\ UNCHANGED <<streamVars, groupVars, cur>> /\ \A v \in Workers \ {w} : pc'[v] = pc[v]
        BY <1>16 DEF Publish, Goto, TypeOK
    <2>2. published \subseteq published' /\ cur[w] \in published'
        BY <1>1, <1>16 DEF Publish, PublishEffect, XAddResult, ExpireResult, ExpireOwner,
                           Delivering, TypeOK
    <2>3. Delivering' /\ AllDoomed' \subseteq AllDoomed
        <3>1. \A v \in Workers : cur'[v] \in published' \/ pc'[v] = pc[v]
            BY <2>1, <2>2
        <3> QED  BY <1>1, <2>1, <2>2, <3>1, DoomedFrame, DeliveringFrame DEF Delivering
    <2> QED  BY <1>2, <2>3
<1>17. ASSUME NEW w \in Workers, PublishError(w) \/ StopBusy(w) PROVE Accounted'
    <2>1. /\ UNCHANGED <<streamVars, groupVars, cur>> /\ pc'[w] \notin {"pubTTL", "pubOwner"}
          /\ \A v \in Workers \ {w} : pc'[v] = pc[v]
        BY <1>17 DEF PublishError, StopBusy, Goto, TypeOK
    <2>2. published \subseteq published'
        BY <1>17 DEF PublishError, StopBusy, PublishEffect, XAddResult, ExpireResult, ExpireOwner
    <2>3. Delivering' /\ AllDoomed' \subseteq AllDoomed \union {cur[w]}
        BY <1>1, <2>1, <2>2, AbandoningDoomsOne
    <2>4. Fault("redis") \/ Fault("stop")
        BY <1>17 DEF PublishError, StopBusy
    <2> QED  BY <2>3, <2>4, OneDoomed
<1>18. ASSUME NEW w \in Workers, Ack(w) \/ AckError(w) \/ StopAck(w) PROVE Accounted'
    <2>1. UNCHANGED <<streamVars, published>> /\ pc[w] = "ack" /\ (XAck(cur[w]) \/ UNCHANGED groupVars)
        BY <1>18 DEF Ack, AckError, StopAck
    <2>2. (\E p \in Phases \ BusyPhases : Release(w, p)) \/ (\E S, p : Process(w, S, p))
        <3>1. after[w] \in {"read", "reclaim", "down"}
            BY DEF TypeOK
        <3> QED  BY <1>18, <3>1 DEF Ack, AckError, StopAck, Leave
    <2> QED  BY <1>8, <1>9, <1>10, <2>1, <2>2
<1>19. ASSUME NEW w \in Workers, StopIdle(w) PROVE Accounted'
    <2>1. /\ UNCHANGED <<streamVars, published>> /\ Release(w, "down")
          /\ UNCHANGED groupVars \/ Claim(w) \/ (\E j \in NextEntry : Deliver(w, j))
                \/ (CreateGroup /\ UNCHANGED <<pel, idle>>)
        BY <1>19 DEF StopIdle, Leave
    <2>2. CreateGroup => UNCHANGED lastDelivered
        BY <1>1 DEF CreateGroup, Delivering
    <2> QED  BY <1>7, <1>9, <2>1, <2>2
<1>20. ASSUME NEW w \in Workers, Crash(w) PROVE Accounted'
    <2>1. UNCHANGED <<streamVars, groupVars, published>> /\ Release(w, "down")
        BY <1>20 DEF Crash, Leave
    <2> QED  BY <1>7, <1>9, <2>1
<1>21. CASE Tick \/ UNCHANGED vars
    BY <1>3, <1>21 DEF Tick, vars
<1> QED
    BY <1>4, <1>5, <1>6, <1>11, <1>12, <1>13, <1>14, <1>15, <1>16, <1>17, <1>18, <1>19, <1>20, <1>21
       DEF Next, WorkerStep, WorkerFault

\* A shutdown or a Redis error loses at most the one job its worker has in hand,
\* for any number of jobs, workers and faults: whatever was claimed with it
\* stays pending. Crashes cost nothing.
THEOREM LossesAreBounded == Spec => []LossIsBounded
<1>1. CASE FreshRedis
    <2>1. LossIsBounded
        BY <1>1 DEF LossIsBounded
    <2> QED  BY <2>1, PTL
<1>2. CASE ~FreshRedis
    <2>1. Init => Accounted
        <3> SUFFICES ASSUME Init PROVE Accounted
            OBVIOUS
        <3>1. Delivering
            BY <1>2 DEF Init, Delivering
        <3>2. AllDoomed = {}
            BY <1>2 DEF Init, AllDoomed, Doomed, Lost
        <3>3. Cardinality(AllDoomed) = 0 /\ IsFiniteSet(AllDoomed)
            BY <3>2, FS_EmptySet
        <3> QED  BY <3>1, <3>3 DEF Init, Accounted
    <2>2. TypeOK /\ TypeOK' /\ Accounted /\ [Next]_vars => Accounted'
        BY AccountedStep
    <2>3. TypeOK /\ Accounted => LossIsBounded
        <3> SUFFICES ASSUME TypeOK, Accounted PROVE LossIsBounded
            OBVIOUS
        <3> DEFINE L == {j \in Jobs : Lost(j)}
        <3>1. L \subseteq AllDoomed
            BY DEF AllDoomed, Doomed
        <3>2. IsFiniteSet(AllDoomed) /\ Cardinality(AllDoomed) <= faults["stop"] + faults["redis"]
            BY DEF Accounted
        <3>3. IsFiniteSet(L) /\ Cardinality(L) <= Cardinality(AllDoomed)
            <4> HIDE DEF L
            <4> QED  BY <3>1, <3>2, FS_Subset
        <3>4. Cardinality(L) \in Nat /\ Cardinality(AllDoomed) \in Nat
            <4> HIDE DEF L
            <4> QED  BY <3>2, <3>3, FS_CardinalityType
        <3>5. faults["stop"] \in Nat /\ faults["redis"] \in Nat
            BY DEF TypeOK
        <3>6. Cardinality(L) <= faults["stop"] + faults["redis"]
            <4> HIDE DEF L
            <4> QED  BY <3>2, <3>3, <3>4, <3>5
        <3> QED  BY <3>6 DEF LossIsBounded
    <2> QED  BY <2>1, <2>2, <2>3, TypeCorrect, PTL DEF Spec
<1> QED  BY <1>1, <1>2
=============================================================================
