------------------------ MODULE SlackWebhook_proofs ------------------------
(***************************************************************************)
(* Idempotency of the Slack webhook for any number of events, handlers,    *)
(* copies and faults, from the relation between the windows alone.         *)
(***************************************************************************)
EXTENDS SlackWebhook, TLAPS

USE WindowAssumption DEF Never

\* The latest instant at which a copy of e can still pass the freshness check.
Deadline(e) == first[e] + RetryWindow + Skew + MaxAge

\* Requests carry the time of an attempt, handlers run on requests that were
\* fresh, and claims are made after the first attempt.
Timely ==
    /\ \A e \in Events : first[e] <= clock
    /\ \A m \in sent : first[m[1]] # Never /\ m[2] <= first[m[1]] + RetryWindow + Skew
    /\ \A h \in Handlers : pc[h] # "idle" =>
          first[event[h]] # Never /\ since[h] <= Deadline(event[h])
    /\ \A e \in Events : expires[e] # Never =>
          first[e] # Never /\ expires[e] >= first[e] + DedupTTL

\* A claim is used once: by the handler that is about to append, or by the
\* entry that was appended.
ClaimOnce ==
    /\ \A h \in Handlers : pc[h] = "append" /\ event[h] \notin Anonymous =>
          entries[event[h]] = 0 /\ expires[event[h]] # Never
    /\ \A h \in Handlers : pc[h] = "claim" => event[h] \notin Anonymous
    /\ \A g, h \in Handlers :
          pc[g] = "append" /\ pc[h] = "append" /\ event[g] = event[h]
             /\ event[h] \notin Anonymous => g = h
    /\ \A e \in Events \ Anonymous : entries[e] > 0 => expires[e] # Never
    /\ AtMostOnce

\* Every step keeps the types.
LEMMA TypeStep == TypeOK /\ [Next]_vars => TypeOK'
<1> SUFFICES ASSUME TypeOK, [Next]_vars PROVE TypeOK'
    OBVIOUS
<1> USE DEF TypeOK
<1>1. ASSUME NEW e \in Events, NEW ts \in (clock - Skew)..(clock + Skew), SlackSend(e, ts)
      PROVE  TypeOK'
    BY <1>1 DEF SlackSend
<1>2. ASSUME NEW h \in Handlers, NEW m \in sent, Receive(h, m[1], m[2]) PROVE TypeOK'
    <2>1. m[1] \in Events
        OBVIOUS
    <2> QED  BY <1>2, <2>1 DEF Receive
<1>3. ASSUME NEW h \in Handlers, Claim(h) PROVE TypeOK'
    BY <1>3 DEF Claim
<1>4. ASSUME NEW h \in Handlers, Duplicate(h) PROVE TypeOK'
    BY <1>4 DEF Duplicate, Finish
<1>5. ASSUME NEW h \in Handlers, Append(h) PROVE TypeOK'
    BY <1>5 DEF Append, Finish
<1>6. ASSUME NEW h \in Handlers, Fail(h) PROVE TypeOK'
    BY <1>6 DEF Fail, Finish
<1>7. CASE Tick
    BY <1>7 DEF Tick
<1>8. CASE UNCHANGED vars
    BY <1>8 DEF vars
<1> QED  BY <1>1, <1>2, <1>3, <1>4, <1>5, <1>6, <1>7, <1>8 DEF Next

\* Type correctness of the webhook's state.
THEOREM TypeCorrect == Spec => []TypeOK
<1>1. Init => TypeOK
    BY DEF Init, TypeOK
<1> QED  BY <1>1, TypeStep, PTL DEF Spec

\* Every step keeps the order of the instants.
LEMMA TimelyStep == TypeOK /\ Timely /\ [Next]_vars => Timely'
<1> SUFFICES ASSUME TypeOK, Timely, [Next]_vars PROVE Timely'
    OBVIOUS
<1> USE DEF TypeOK, Timely, Deadline
<1>1. ASSUME NEW e \in Events, NEW ts \in (clock - Skew)..(clock + Skew), SlackSend(e, ts)
      PROVE  Timely'
    <2>1. \A d \in Events : first[d] # Never => first'[d] = first[d]
        BY <1>1 DEF SlackSend
    <2>2. first'[e] # Never /\ ts <= first'[e] + RetryWindow + Skew /\ first'[e] <= clock
        BY <1>1 DEF SlackSend
    <2>3. \A d \in Events : first'[d] <= clock
        BY <1>1 DEF SlackSend
    <2>4. \A m \in sent' : first'[m[1]] # Never /\ m[2] <= first'[m[1]] + RetryWindow + Skew
        <3> TAKE m \in sent'
        <3>1. CASE m \in sent
            <4>1. m[1] \in Events
                BY <3>1
            <4> QED  BY <2>1, <3>1, <4>1
        <3>2. CASE m = <<e, ts>>
            BY <2>2, <3>2
        <3> QED  BY <1>1, <3>1, <3>2 DEF SlackSend
    <2>5. UNCHANGED <<clock, expires, pc, event, since>>
        BY <1>1 DEF SlackSend
    <2> QED  BY <2>1, <2>3, <2>4, <2>5
<1>2. ASSUME NEW h \in Handlers, NEW m \in sent, Receive(h, m[1], m[2]) PROVE Timely'
    <2>1. m[1] \in Events /\ m[2] \in Int
        OBVIOUS
    <2>2. first[m[1]] # Never /\ clock <= Deadline(m[1])
        BY <1>2, <2>1 DEF Receive, Fresh
    <2>3. event'[h] = m[1] /\ since'[h] = clock
        BY <1>2 DEF Receive
    <2>4. \A g \in Handlers \ {h} : pc'[g] = pc[g] /\ event'[g] = event[g] /\ since'[g] = since[g]
        BY <1>2 DEF Receive
    <2>5. UNCHANGED <<clock, first, sent, expires>>
        BY <1>2 DEF Receive
    <2> QED  BY <2>1, <2>2, <2>3, <2>4, <2>5
<1>3. ASSUME NEW h \in Handlers, Claim(h) PROVE Timely'
    BY <1>3 DEF Claim
<1>4. ASSUME NEW h \in Handlers, Duplicate(h) PROVE Timely'
    BY <1>4 DEF Duplicate, Finish
<1>5. ASSUME NEW h \in Handlers, Append(h) PROVE Timely'
    BY <1>5 DEF Append, Finish
<1>6. ASSUME NEW h \in Handlers, Fail(h) PROVE Timely'
    BY <1>6 DEF Fail, Finish
<1>7. CASE Tick
    BY <1>7 DEF Tick
<1>8. CASE UNCHANGED vars
    BY <1>8 DEF vars
<1> QED  BY <1>1, <1>2, <1>3, <1>4, <1>5, <1>6, <1>7, <1>8 DEF Next

\* The heart of the matter: while a handler can still reach Redis in time, a
\* claim that was ever made for its event has not expired.
LEMMA ClaimOutlivesCopies ==
    ASSUME TypeOK, Timely, NEW h \in Handlers, pc[h] = "claim", InTime(h),
           expires[event[h]] # Never
    PROVE  Claimed(event[h])
BY DEF TypeOK, Timely, Deadline, InTime, Claimed

\* Every step keeps ClaimOnce: a second claim of an event is impossible.
LEMMA ClaimOnceStep == TypeOK /\ Timely /\ ClaimOnce /\ [Next]_vars => ClaimOnce'
<1> SUFFICES ASSUME TypeOK, Timely, ClaimOnce, [Next]_vars PROVE ClaimOnce'
    OBVIOUS
<1> USE DEF TypeOK, ClaimOnce, AtMostOnce
<1>1. ASSUME NEW e \in Events, NEW ts \in (clock - Skew)..(clock + Skew), SlackSend(e, ts)
      PROVE  ClaimOnce'
    BY <1>1 DEF SlackSend
<1>2. ASSUME NEW h \in Handlers, NEW m \in sent, Receive(h, m[1], m[2]) PROVE ClaimOnce'
    <2>1. m[1] \in Events
        OBVIOUS
    <2> QED  BY <1>2, <2>1 DEF Receive
<1>3. ASSUME NEW h \in Handlers, Claim(h) PROVE ClaimOnce'
    <2>1. expires[event[h]] = Never
        BY <1>3, ClaimOutlivesCopies DEF Claim
    <2>2. entries[event[h]] = 0
        BY <1>3, <2>1 DEF Claim
    <2> QED  BY <1>3, <2>1, <2>2 DEF Claim
<1>4. ASSUME NEW h \in Handlers, Duplicate(h) PROVE ClaimOnce'
    BY <1>4 DEF Duplicate, Finish
<1>5. ASSUME NEW h \in Handlers, Append(h) PROVE ClaimOnce'
    BY <1>5 DEF Append, Finish
<1>6. ASSUME NEW h \in Handlers, Fail(h) PROVE ClaimOnce'
    BY <1>6, ClaimOutlivesCopies DEF Fail, Finish
<1>7. CASE Tick
    BY <1>7 DEF Tick
<1>8. CASE UNCHANGED vars
    BY <1>8 DEF vars
<1> QED  BY <1>1, <1>2, <1>3, <1>4, <1>5, <1>6, <1>7, <1>8 DEF Next

\* An event with an id is appended at most once: copies stop being fresh before
\* the claim expires, and SET NX lets one handler through.
THEOREM AppendedAtMostOnce == Spec => []AtMostOnce
<1>1. Init => Timely /\ ClaimOnce
    BY DEF Init, Timely, ClaimOnce, AtMostOnce
<1>2. ClaimOnce => AtMostOnce
    BY DEF ClaimOnce
<1> QED  BY <1>1, <1>2, TimelyStep, ClaimOnceStep, TypeCorrect, PTL DEF Spec

\* A claim that was made has its entry, or the handler that will append it.
Backed(e) == entries[e] > 0 \/ \E h \in Handlers : pc[h] = "append" /\ event[h] = e

\* As long as nothing failed, every claim is backed, and every answer too: a
\* duplicate is answered because of a claim.
ClaimsAreBacked ==
    faults = 0 => /\ \A e \in Events : expires[e] # Never => Backed(e)
                  /\ \A e \in answered : Backed(e)

\* Every step keeps the claims backed; a failure is the end of the hypothesis.
LEMMA BackedStep == TypeOK /\ ClaimsAreBacked /\ [Next]_vars => ClaimsAreBacked'
<1> SUFFICES ASSUME TypeOK, ClaimsAreBacked, [Next]_vars, faults' = 0 PROVE ClaimsAreBacked'
    BY DEF ClaimsAreBacked
<1> USE DEF TypeOK, ClaimsAreBacked, Backed
<1>1. ASSUME NEW e \in Events, NEW ts \in (clock - Skew)..(clock + Skew), SlackSend(e, ts)
      PROVE  ClaimsAreBacked'
    BY <1>1 DEF SlackSend
<1>2. ASSUME NEW h \in Handlers, NEW m \in sent, Receive(h, m[1], m[2]) PROVE ClaimsAreBacked'
    \* h was idle, so no event loses the handler that appends it
    <2>1. \A g \in Handlers : pc[g] = "append" => pc'[g] = "append" /\ event'[g] = event[g]
        BY <1>2 DEF Receive
    <2> QED  BY <1>2, <2>1 DEF Receive
<1>3. ASSUME NEW h \in Handlers, Claim(h) PROVE ClaimsAreBacked'
    <2>1. \A g \in Handlers : pc[g] = "append" => pc'[g] = "append" /\ event'[g] = event[g]
        BY <1>3 DEF Claim
    <2>2. pc'[h] = "append" /\ event'[h] = event[h]
        BY <1>3 DEF Claim
    <2> QED  BY <1>3, <2>1, <2>2 DEF Claim
<1>4. ASSUME NEW h \in Handlers, Duplicate(h) PROVE ClaimsAreBacked'
    <2>1. \A g \in Handlers : pc[g] = "append" => pc'[g] = "append" /\ event'[g] = event[g]
        BY <1>4 DEF Duplicate, Finish
    <2>2. expires[event[h]] # Never /\ event[h] \in Events
        BY <1>4 DEF Duplicate, Claimed
    <2> QED  BY <1>4, <2>1, <2>2 DEF Duplicate
<1>5. ASSUME NEW h \in Handlers, Append(h) PROVE ClaimsAreBacked'
    <2>1. event[h] \in Events /\ entries'[event[h]] > 0
        BY <1>5 DEF Append
    <2>2. \A e \in Events : entries[e] > 0 => entries'[e] > 0
        BY <1>5 DEF Append
    <2>3. \A g \in Handlers \ {h} : pc'[g] = pc[g] /\ event'[g] = event[g]
        BY <1>5 DEF Append, Finish
    <2>4. ASSUME NEW e \in Events, Backed(e) PROVE Backed(e)'
        <3>1. CASE entries[e] > 0
            BY <2>2, <3>1
        <3>2. ASSUME NEW g \in Handlers, pc[g] = "append", event[g] = e PROVE Backed(e)'
            BY <2>1, <2>3, <3>2
        <3> QED  BY <2>4, <3>1, <3>2
    <2> QED  BY <1>5, <2>1, <2>4 DEF Append
<1>6. ASSUME NEW h \in Handlers, Fail(h) PROVE ClaimsAreBacked'
    BY <1>6 DEF Fail
<1>7. CASE Tick
    BY <1>7 DEF Tick
<1>8. CASE UNCHANGED vars
    BY <1>8 DEF vars
<1> QED  BY <1>1, <1>2, <1>3, <1>4, <1>5, <1>6, <1>7, <1>8 DEF Next

\* Until a command fails or a process dies, an event Slack was told to forget is
\* in the stream or its XADD is under way, whichever handler gave the answer.
THEOREM KeptWithoutFaults == Spec => []KeptUnlessFailed
<1>1. Init => ClaimsAreBacked
    BY DEF Init, ClaimsAreBacked
<1>2. ClaimsAreBacked => KeptUnlessFailed
    BY DEF ClaimsAreBacked, KeptUnlessFailed, AnsweredIsKept, Backed
<1> QED  BY <1>1, <1>2, BackedStep, TypeCorrect, PTL DEF Spec
=============================================================================
