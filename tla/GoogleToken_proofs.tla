-------------------------- MODULE GoogleToken_proofs --------------------------
(***************************************************************************)
(* Proofs about GoogleToken, for every number of calls and processes and   *)
(* every lifetime, margin and timeout that TokenAssumption allows.         *)
(***************************************************************************)
EXTENDS GoogleToken, TLAPS

USE TokenAssumption DEF callVars, None, NoRecord, Seed

-----------------------------------------------------------------------------
(* Type correctness.                                                       *)

\* The initial state has the types.
LEMMA TypeInit == Init => TypeOK
BY DEF Init, TypeOK

\* What the calls hold of the record.
Copies == [Calls -> [exists : BOOLEAN, access : Nat \union {None}, expires_at : Nat]]

\* A call that forgets its copy leaves the others alone.
LEMMA ForgetType ==
    ASSUME TypeOK, NEW c \in Calls, copy' = [copy EXCEPT ![c] = NoRecord]
    PROVE  copy' \in Copies /\ \A d \in Calls \ {c} : copy'[d] = copy[d]
<1>1. NoRecord \in [exists : BOOLEAN, access : Nat \union {None}, expires_at : Nat]
    OBVIOUS
<1> HIDE DEF NoRecord
<1> QED  BY <1>1 DEF TypeOK, Copies

\* A call may become idle whatever becomes of its copy and its history.
LEMMA IdleType ==
    ASSUME TypeOK, NEW c \in Calls, Go(c, "idle"), UNCHANGED <<clock, record, boot>>,
           copy' \in Copies, \A d \in Calls \ {c} : copy'[d] = copy[d],
           left' \in [Calls -> Int]
    PROVE  TypeOK'
<1>1. ASSUME NEW d \in Calls, pc'[d] \in {"post", "reply", "set", "return"}
      PROVE  copy'[d].exists
    <2>1. d # c /\ pc'[d] = pc[d]
        BY <1>1 DEF TypeOK, Go
    <2>2. copy'[d] = copy[d]
        BY <2>1
    <2>3. copy[d].exists
        BY <1>1, <2>1 DEF TypeOK
    <2> QED  BY <2>2, <2>3
<1> QED  BY <1>1 DEF TypeOK, Go, Copies

\* Every step keeps the types.
LEMMA TypeStep == TypeOK /\ [Next]_vars => TypeOK'
<1> SUFFICES ASSUME TypeOK, [Next]_vars PROVE TypeOK'
    OBVIOUS
<1>1. ASSUME NEW c \in Calls, Begin(c) PROVE TypeOK'
    BY <1>1 DEF TypeOK, Begin, Go
<1>2. ASSUME NEW c \in Calls, Read(c) PROVE TypeOK'
    BY <1>2 DEF TypeOK, Read
<1>3. ASSUME NEW c \in Calls, Check(c) PROVE TypeOK'
    <2>1. copy[c].access - clock \in Int
        BY DEF TypeOK
    <2>2. CASE ~copy[c].exists
        <3>1. Go(c, "idle") /\ UNCHANGED <<clock, record, copy, left, boot>>
            BY <1>3, <2>2 DEF Check
        <3> QED  BY <3>1, IdleType DEF TypeOK, Copies
    <2>3. CASE copy[c].exists /\ Fresh(copy[c])
        <3>1. Go(c, "idle") /\ Serve(c, copy[c].access) /\ UNCHANGED <<clock, record, boot>>
            BY <1>3, <2>3 DEF Check
        <3>2. copy' \in Copies /\ \A d \in Calls \ {c} : copy'[d] = copy[d]
            BY <3>1, ForgetType DEF Serve
        <3>3. left' \in [Calls -> Int]
            BY <2>1, <3>1 DEF TypeOK, Serve
        <3> QED  BY <3>1, <3>2, <3>3, IdleType
    <2>4. CASE copy[c].exists /\ ~Fresh(copy[c])
        <3>1. Go(c, "post") /\ UNCHANGED <<clock, record, copy, left, boot>>
            BY <1>3, <2>4 DEF Check
        <3> QED  BY <2>4, <3>1 DEF TypeOK, Go
    <2> QED  BY <2>2, <2>3, <2>4
<1>4. ASSUME NEW c \in Calls, Issue(c) PROVE TypeOK'
    BY <1>4 DEF TypeOK, Issue
<1>5. ASSUME NEW c \in Calls, Reply(c) PROVE TypeOK'
    BY <1>5 DEF TypeOK, Reply, Go
<1>6. ASSUME NEW c \in Calls, Write(c) PROVE TypeOK'
    BY <1>6 DEF TypeOK, Write
<1>7. ASSUME NEW c \in Calls, Return(c) PROVE TypeOK'
    <2>1. copy[c].access - clock \in Int
        BY DEF TypeOK
    <2>2. copy' \in Copies /\ \A d \in Calls \ {c} : copy'[d] = copy[d]
        BY <1>7, ForgetType DEF Return, Serve
    <2>3. left' \in [Calls -> Int]
        BY <1>7, <2>1 DEF TypeOK, Return, Serve
    <2> QED  BY <1>7, <2>2, <2>3, IdleType DEF Return
<1>8. ASSUME NEW c \in Calls, Raise(c) PROVE TypeOK'
    <2>1. copy' \in Copies /\ \A d \in Calls \ {c} : copy'[d] = copy[d]
        BY <1>8, ForgetType DEF Raise
    <2>2. left' \in [Calls -> Int]
        BY <1>8 DEF Raise, TypeOK
    <2> QED  BY <1>8, <2>1, <2>2, IdleType DEF Raise
<1>9. ASSUME NEW p \in Processes, SeedCheck(p) \/ SeedWrite(p) \/ Restart(p) PROVE TypeOK'
    <2>1. CASE SeedCheck(p)
        BY <2>1 DEF TypeOK, SeedCheck
    <2>2. CASE SeedWrite(p)
        BY <2>2 DEF TypeOK, SeedWrite
    <2>3. CASE Restart(p)
        BY <2>3 DEF TypeOK, Restart
    <2> QED  BY <1>9, <2>1, <2>2, <2>3
<1>10. CASE Tick
    BY <1>10 DEF TypeOK, Tick
<1>11. CASE UNCHANGED vars
    BY <1>11 DEF TypeOK, vars
<1> QED
    BY <1>1, <1>2, <1>3, <1>4, <1>5, <1>6, <1>7, <1>8, <1>9, <1>10, <1>11 DEF Next, CallStep

\* The record, the calls and the processes keep their types.
THEOREM TypeCorrect == Spec => []TypeOK
BY TypeInit, TypeStep, PTL DEF Spec

-----------------------------------------------------------------------------
(* Validity of the tokens that are served.                                 *)

\* A record names an expiry that is at most one refresh later than the real one,
\* and a record without a token has expired.
Honest(r) ==
    IF r.access = None THEN r.expires_at = 0 ELSE r.expires_at <= r.access + HttpTimeout

\* The invariant: records and copies are honest, no call waits longer than its
\* timeout, and a call with a new token knows when it was issued: after it sent
\* the refresh, and at most HttpTimeout before it sent the write.
Timed ==
    /\ Honest(record)
    /\ \A c \in Calls : pc[c] # "reply" => Honest(copy[c])
    /\ \A c \in Calls : pc[c] # "idle" =>
          since[c] <= clock /\ clock <= since[c] + Patience(pc[c])
    /\ \A c \in Calls : pc[c] = "reply" => copy[c].access >= since[c] + Lifetime
    /\ \A c \in Calls : pc[c] \in {"set", "return"} =>
          copy[c].access >= since[c] + Lifetime - HttpTimeout
    /\ ServedIsValid

\* Initially there is no record.
LEMMA TimedInit == Init => Timed
BY DEF Init, Timed, Honest, ServedIsValid

\* Every step keeps the invariant.
LEMMA TimedStep == TypeOK /\ Timed /\ [Next]_vars => Timed'
<1> SUFFICES ASSUME TypeOK, Timed, [Next]_vars PROVE Timed'
    OBVIOUS
<1>1. ASSUME NEW c \in Calls, Begin(c) PROVE Timed'
    BY <1>1 DEF TypeOK, Begin, Go, Timed, Honest, Patience, ServedIsValid
<1>2. ASSUME NEW c \in Calls, Read(c) PROVE Timed'
    BY <1>2 DEF TypeOK, Read, Timed, Honest, Patience, ServedIsValid
<1>3. ASSUME NEW c \in Calls, Check(c) PROVE Timed'
    <2>1. CASE ~copy[c].exists
        BY <1>3, <2>1 DEF TypeOK, Check, Go, Timed, Honest, Patience, ServedIsValid
    <2>2. CASE copy[c].exists /\ Fresh(copy[c])
        <3>1. copy[c].access - clock > 0
            BY <1>3, <2>2 DEF TypeOK, Check, Fresh, Timed, Honest
        <3> QED
            BY <1>3, <2>2, <3>1 DEF TypeOK, Check, Go, Serve, Timed, Honest, Patience, ServedIsValid
    <2>3. CASE copy[c].exists /\ ~Fresh(copy[c])
        BY <1>3, <2>3 DEF TypeOK, Check, Go, Timed, Honest, Patience, ServedIsValid
    <2> QED  BY <2>1, <2>2, <2>3
<1>4. ASSUME NEW c \in Calls, Issue(c) PROVE Timed'
    BY <1>4 DEF TypeOK, Issue, Timed, Honest, Patience, ServedIsValid
<1>5. ASSUME NEW c \in Calls, Reply(c) PROVE Timed'
    BY <1>5 DEF TypeOK, Reply, Go, Timed, Honest, Patience, ServedIsValid
<1>6. ASSUME NEW c \in Calls, Write(c) PROVE Timed'
    BY <1>6 DEF TypeOK, Write, Timed, Honest, Patience, ServedIsValid
<1>7. ASSUME NEW c \in Calls, Return(c) PROVE Timed'
    <2>1. copy[c].access - clock > 0
        BY <1>7 DEF TypeOK, Return, Timed, Patience
    <2> QED
        BY <1>7, <2>1 DEF TypeOK, Return, Go, Serve, Timed, Honest, Patience, ServedIsValid
<1>8. ASSUME NEW c \in Calls, Raise(c) PROVE Timed'
    BY <1>8 DEF TypeOK, Raise, Go, Timed, Honest, Patience, ServedIsValid
<1>9. ASSUME NEW p \in Processes, SeedCheck(p) \/ SeedWrite(p) \/ Restart(p) PROVE Timed'
    BY <1>9 DEF TypeOK, SeedCheck, SeedWrite, Restart, Timed, Honest, ServedIsValid
<1>10. CASE Tick
    BY <1>10 DEF TypeOK, Tick, Timed, Honest, Patience, ServedIsValid
<1>11. CASE UNCHANGED vars
    BY <1>11 DEF vars, Timed, Honest, ServedIsValid
<1> QED
    BY <1>1, <1>2, <1>3, <1>4, <1>5, <1>6, <1>7, <1>8, <1>9, <1>10, <1>11 DEF Next, CallStep

\* However reads, refreshes, write-backs and seeds interleave, no call returns a
\* token that Google no longer accepts, as long as the margin covers the HTTP
\* timeout.
THEOREM ServedTokensAreValid == Spec => []ServedIsValid
<1>1. Timed => ServedIsValid
    BY DEF Timed
<1> QED  BY TypeCorrect, TimedInit, TimedStep, <1>1, PTL DEF Spec
=============================================================================
