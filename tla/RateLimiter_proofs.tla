------------------------- MODULE RateLimiter_proofs -------------------------
(* The limits and Retry-After for every limit, window and clock resolution. *)
EXTENDS RateLimiter, TLAPS

USE LimiterAssumption

\* What the two properties need: allowed requests were counted, a window in
\* which somebody was refused is full, and a refused client waits until it ends.
Counted ==
    /\ \A u \in Users : passed[u] <= count[u] /\ passed[u] <= Limit
    /\ \A u \in denied : count[u] > Limit /\ pttl[u] <= wait[u]

\* What a user was let through in a stretch of time: within the current window
\* what that window allowed, beyond its start also what the window before it
\* allowed, and in either case what passed during outages. The window started
\* Span - pttl ticks ago, and lasts longer than any stretch that is looked at.
BurstOf(u) ==
    /\ \A a \in Ages : recent[u][a] <= passed[u] + Limit + outages
    /\ count[u] # 0 => \A a \in Ages : a < Span - pttl[u] => recent[u][a] <= passed[u] + outages
    /\ count[u] = 0 => pttl[u] = 0

Bursts == outages <= MaxOutages /\ \A u \in Users : BurstOf(u)

\* A window lasts at least a tick.
LEMMA SpanType == Span \in Nat \ {0}
BY DEF Span

\* Counting down stays within the bounds.
LEMMA CountDown ==
    ASSUME NEW n \in Nat, NEW t \in 0..n
    PROVE  (IF t = 0 THEN 0 ELSE t - 1) \in 0..n
OBVIOUS

\* Rounding up to seconds never shortens the wait.
LEMMA RetryAfterRoundsUp ==
    ASSUME NEW t \in Nat
    PROVE  RetryAfter(t) \in Nat /\ t <= RetryAfter(t) * Second
<1> DEFINE q == (t + Second - 1) \div Second
           r == (t + Second - 1) % Second
<1>1. q \in Nat /\ r \in 0..(Second - 1) /\ t + Second - 1 = Second * q + r
    OBVIOUS
<1>2. Second * q = q * Second
    BY <1>1
<1> QED  BY <1>1, <1>2 DEF RetryAfter

\* Every step keeps the types.
LEMMA TypeStep == TypeOK /\ [Next]_vars => TypeOK'
<1> SUFFICES ASSUME TypeOK, [Next]_vars PROVE TypeOK'
    OBVIOUS
<1>0. Span \in Nat \ {0} /\ 0 \in Ages
    BY SpanType DEF Ages
<1> USE DEF TypeOK
<1>1. ASSUME NEW u \in Users PROVE PExpire(u) => pttl' \in [Users -> 0..(Span)]
    BY <1>0 DEF PExpire
<1>2. ASSUME NEW u \in Users PROVE LetThrough(u) => recent' \in [Users -> [Ages -> Nat]]
    BY <1>0 DEF LetThrough
<1>3. ASSUME NEW u \in Users, Allow(u) PROVE TypeOK'
    BY <1>1, <1>2, <1>3 DEF Allow, Incr
<1>4. ASSUME NEW u \in Users, Deny(u) PROVE TypeOK'
    <2>1. pttl' \in [Users -> 0..(Span)]
        BY <1>1, <1>4 DEF Deny
    <2>2. pttl'[u] \in Nat
        BY <1>0, <2>1
    <2>3. RetryAfter(pttl'[u]) * Second \in Nat
        BY <2>2, RetryAfterRoundsUp
    <2>4. wait' \in [Users -> Nat]
        BY <1>4, <2>3 DEF Deny
    <2>5. count' \in [Users -> 0..(Limit + 1)]
        BY <1>4 DEF Deny, Incr
    <2>6. denied' \subseteq Users /\ UNCHANGED <<passed, recent, outages>>
        BY <1>4 DEF Deny
    <2> QED  BY <2>1, <2>4, <2>5, <2>6
<1>5. ASSUME NEW u \in Users, FailOpen(u) PROVE TypeOK'
    <2>1. count' \in [Users -> 0..(Limit + 1)]
        BY <1>5 DEF FailOpen, Incr
    <2>2. pttl' \in [Users -> 0..Span]
        BY <1>1, <1>5 DEF FailOpen
    <2>3. recent' \in [Users -> [Ages -> Nat]]
        BY <1>2, <1>5 DEF FailOpen
    <2>4. outages' \in Nat /\ UNCHANGED <<passed, denied, wait>>
        BY <1>5 DEF FailOpen
    <2> QED  BY <2>1, <2>2, <2>3, <2>4
<1>6. CASE Tick
    <2>1. recent' \in [Users -> [Ages -> Nat]]
        <3>1. ASSUME NEW a \in Ages, a # 0 PROVE a - 1 \in Ages
            BY <1>0, <3>1 DEF Ages
        <3>2. \A u \in Users, a \in Ages : (IF a = 0 THEN 0 ELSE recent[u][a - 1]) \in Nat
            BY <3>1
        <3> QED  BY <1>6, <3>2 DEF Tick
    <2>2. count' \in [Users -> 0..(Limit + 1)] /\ pttl' \in [Users -> 0..Span]
        <3>1. ASSUME NEW u \in Users
              PROVE  (IF pttl[u] = 0 THEN 0 ELSE pttl[u] - 1) \in 0..Span
            BY <1>0, CountDown
        <3>2. \A u \in Users : (IF pttl[u] = 0 THEN 0 ELSE count[u]) \in 0..(Limit + 1)
            OBVIOUS
        <3> QED  BY <1>6, <3>1, <3>2 DEF Tick
    <2>3. passed' \in [Users -> Nat] /\ wait' \in [Users -> Nat]
        BY <1>6 DEF Tick
    <2>4. denied' \subseteq Users /\ outages' = outages
        BY <1>6 DEF Tick
    <2> QED  BY <2>1, <2>2, <2>3, <2>4
<1>7. CASE UNCHANGED vars
    BY <1>7 DEF vars
<1> QED  BY <1>3, <1>4, <1>5, <1>6, <1>7 DEF Next

\* Type correctness of the limiter's state.
THEOREM TypeCorrect == Spec => []TypeOK
<1>1. Init => TypeOK
    BY SpanType DEF Init, TypeOK
<1> QED  BY <1>1, TypeStep, PTL DEF Spec

\* Every step keeps Counted: INCR precedes the verdict, and only the first
\* request of a window moves its end.
LEMMA CountedStep == TypeOK /\ Counted /\ [Next]_vars => Counted'
<1> SUFFICES ASSUME TypeOK, Counted, [Next]_vars PROVE Counted'
    OBVIOUS
<1>0. Span \in Nat \ {0}
    BY SpanType
<1> USE DEF TypeOK, Counted
<1>1. ASSUME NEW u \in Users, Allow(u) PROVE Counted'
    <2>1. count[u] < Limit /\ u \notin denied
        BY <1>1 DEF Allow, Allowed, Incr
    <2> QED  BY <1>1, <2>1 DEF Allow, Incr, PExpire
<1>2. ASSUME NEW u \in Users, Deny(u) PROVE Counted'
    <2>1. count[u] >= Limit /\ count'[u] > Limit /\ count'[u] \in Nat
        BY <1>2 DEF Deny, Allowed, Incr
    <2>2. pttl' = pttl
        BY <1>2, <2>1 DEF Deny, PExpire
    <2>3. pttl[u] \in Nat
        BY <1>0
    <2>4. wait'[u] >= pttl[u]
        BY <1>2, <2>2, <2>3, RetryAfterRoundsUp DEF Deny
    <2>5. \A v \in Users \ {u} :
             count'[v] = count[v] /\ (v \in denied' <=> v \in denied) /\ wait'[v] = wait[v]
        BY <1>2 DEF Deny
    <2>6. passed' = passed /\ denied' = denied \union {u}
        BY <1>2 DEF Deny
    <2>7. \A v \in Users : passed[v] <= count'[v]
        <3> TAKE v \in Users
        <3>1. CASE v = u
            BY <2>1, <3>1
        <3>2. CASE v # u
            BY <2>5, <3>2
        <3> QED  BY <3>1, <3>2
    <2>8. \A v \in denied' : count'[v] > Limit /\ pttl[v] <= wait'[v]
        <3> TAKE v \in denied'
        <3>1. CASE v = u
            BY <2>1, <2>4, <3>1
        <3>2. CASE v # u
            BY <2>5, <2>6, <3>2
        <3> QED  BY <3>1, <3>2
    <2> QED  BY <2>2, <2>6, <2>7, <2>8
<1>3. ASSUME NEW u \in Users, FailOpen(u) PROVE Counted'
    <2>1. CASE UNCHANGED <<count, pttl>>
        BY <1>3, <2>1 DEF FailOpen
    <2>2. CASE count' = [count EXCEPT ![u] = Incr(@)] /\ PExpire(u)
        <3>1. \A v \in Users : count'[v] >= count[v]
            BY <2>2 DEF Incr
        <3>2. \A v \in denied : pttl'[v] = pttl[v]
            BY <2>2 DEF PExpire
        <3>3. count' \in [Users -> 0..(Limit + 1)]
            BY <2>2 DEF Incr
        <3> QED  BY <1>3, <3>1, <3>2, <3>3 DEF FailOpen
    <2> QED  BY <1>3, <2>1, <2>2 DEF FailOpen
<1>4. CASE Tick
    BY <1>0, <1>4 DEF Tick
<1>5. CASE UNCHANGED vars
    BY <1>5 DEF vars
<1> QED  BY <1>1, <1>2, <1>3, <1>4, <1>5 DEF Next

\* Counted holds throughout.
LEMMA AlwaysCounted == Spec => []Counted
<1>1. Init => Counted
    BY DEF Init, Counted
<1> QED  BY <1>1, CountedStep, TypeCorrect, PTL DEF Spec

\* No window lets more than the limit through the script.
THEOREM WindowIsBounded == Spec => []WindowBound
<1>1. Counted => WindowBound
    BY DEF Counted, WindowBound
<1> QED  BY <1>1, AlwaysCounted, PTL

\* Whoever waits for Retry-After is past the window, or in its last millisecond.
THEOREM RetryAfterIsEnough == Spec => []RetryAfterSuffices
<1>1. TypeOK /\ Counted => RetryAfterSuffices
    BY SpanType DEF TypeOK, Counted, RetryAfterSuffices
<1> QED  BY <1>1, AlwaysCounted, TypeCorrect, PTL

-----------------------------------------------------------------------------
(* Bursts across two windows.                                              *)

\* A request of u that is let through, counted by the script or by an outage.
LEMMA LetThroughBurst ==
    ASSUME TypeOK, TypeOK', NEW u \in Users, BurstOf(u), LetThrough(u),
           passed'[u] + outages' = passed[u] + outages + 1,
           \/ count'[u] = count[u] /\ pttl'[u] = pttl[u]
           \/ count'[u] = Incr(count[u]) /\ PExpire(u)
    PROVE  BurstOf(u)'
<1>1. /\ Span \in Nat \ {0} /\ pttl[u] \in Nat /\ pttl'[u] \in Nat
      /\ passed[u] \in Nat /\ outages \in Nat /\ passed'[u] \in Nat /\ outages' \in Nat
      /\ count[u] \in Nat
    BY SpanType DEF TypeOK
<1>2. \A a \in Ages : recent[u][a] \in Nat /\ recent'[u][a] = recent[u][a] + 1
    BY DEF TypeOK, LetThrough
<1>3. \A a \in Ages : recent'[u][a] <= passed'[u] + Limit + outages'
    BY <1>1, <1>2 DEF BurstOf
<1>4. CASE count'[u] = count[u] /\ pttl'[u] = pttl[u]
    BY <1>1, <1>2, <1>3, <1>4 DEF BurstOf
<1>5. CASE count'[u] = Incr(count[u]) /\ PExpire(u)
    <2>1. count'[u] # 0
        BY <1>1, <1>5 DEF Incr
    <2>2. CASE count[u] = 0
        <3>1. pttl'[u] = Span
            BY <1>5, <2>2 DEF PExpire, TypeOK
        <3>2. \A a \in Ages : ~(a < Span - pttl'[u])
            BY <1>1, <3>1 DEF Ages
        <3> QED  BY <1>3, <2>1, <3>2 DEF BurstOf
    <2>3. CASE count[u] # 0
        <3>1. pttl'[u] = pttl[u]
            BY <1>5, <2>3 DEF PExpire, TypeOK
        <3>2. \A a \in Ages : a < Span - pttl'[u] => recent'[u][a] <= passed'[u] + outages'
            BY <1>1, <1>2, <2>3, <3>1 DEF BurstOf
        <3> QED  BY <1>3, <2>1, <3>2 DEF BurstOf
    <2> QED  BY <2>2, <2>3
<1> QED  BY <1>4, <1>5

\* A tick: every stretch grows by one, and a window that ends leaves at most its
\* limit behind.
LEMMA TickBurst ==
    ASSUME TypeOK, Counted, NEW u \in Users, BurstOf(u), Tick
    PROVE  BurstOf(u)'
<1>1. /\ Span \in Nat \ {0} /\ pttl[u] \in Nat /\ passed[u] \in Nat /\ outages \in Nat
      /\ passed[u] <= Limit /\ (count[u] = 0 => passed[u] = 0)
    BY SpanType DEF TypeOK, Counted
<1>2. /\ count'[u] = (IF pttl[u] = 0 THEN 0 ELSE count[u])
      /\ pttl'[u] = (IF pttl[u] = 0 THEN 0 ELSE pttl[u] - 1)
      /\ passed'[u] = (IF pttl[u] = 0 THEN 0 ELSE passed[u]) /\ outages' = outages
    BY DEF Tick
<1>3. \A a \in Ages : recent'[u][a] = (IF a = 0 THEN 0 ELSE recent[u][a - 1])
    BY DEF Tick
<1>4. \A a \in Ages : a \in Nat /\ a < Span /\ (a # 0 => a - 1 \in Ages)
    BY <1>1 DEF Ages
<1>5. \A a \in Ages : recent[u][a] \in Nat
    BY DEF TypeOK
<1>6. CASE pttl[u] = 0
    <2>1. ASSUME NEW a \in Ages PROVE recent'[u][a] <= Limit + outages
        <3>1. CASE a = 0
            BY <1>1, <1>3, <3>1
        <3>2. CASE a # 0 /\ count[u] = 0
            BY <1>1, <1>3, <1>4, <1>5, <3>2 DEF BurstOf
        <3>3. CASE a # 0 /\ count[u] # 0
            <4>1. a - 1 \in Ages /\ a - 1 < Span - pttl[u]
                BY <1>1, <1>4, <1>6, <3>3
            <4>2. recent[u][a - 1] <= passed[u] + outages
                BY <3>3, <4>1 DEF BurstOf
            <4> QED  BY <1>1, <1>3, <1>5, <3>3, <4>1, <4>2
        <3> QED  BY <3>1, <3>2, <3>3
    <2>2. count'[u] = 0 /\ pttl'[u] = 0 /\ passed'[u] = 0 /\ outages' = outages
        BY <1>2, <1>6
    <2> QED  BY <1>1, <2>1, <2>2 DEF BurstOf
<1>7. CASE pttl[u] # 0
    <2>1. count[u] # 0 /\ count'[u] = count[u] /\ pttl'[u] = pttl[u] - 1
              /\ passed'[u] = passed[u] /\ outages' = outages
        BY <1>2, <1>7 DEF BurstOf
    <2>2. ASSUME NEW a \in Ages
          PROVE  /\ recent'[u][a] <= passed[u] + Limit + outages
                 /\ a < Span - pttl'[u] => recent'[u][a] <= passed[u] + outages
        <3>1. CASE a = 0
            BY <1>1, <1>3, <3>1
        <3>2. CASE a # 0
            <4>1. a \in Nat /\ a - 1 \in Ages /\ recent'[u][a] = recent[u][a - 1]
                BY <1>3, <1>4, <3>2
            <4>2. a < Span - pttl'[u] => a - 1 < Span - pttl[u]
                BY <1>1, <2>1, <4>1
            <4> QED  BY <2>1, <4>1, <4>2 DEF BurstOf
        <3> QED  BY <3>1, <3>2
    <2> QED  BY <2>1, <2>2 DEF BurstOf
<1> QED  BY <1>6, <1>7

\* Every step keeps Bursts.
LEMMA BurstsStep ==
    ASSUME TypeOK, TypeOK', Counted, Bursts, [Next]_vars
    PROVE  Bursts'
<1>0. /\ outages \in Nat /\ outages <= MaxOutages /\ \A u \in Users : BurstOf(u)
      /\ \A u \in Users : passed[u] \in Nat /\ count[u] \in 0..(Limit + 1)
    BY DEF TypeOK, Bursts
\* The other users see at most an outage more.
<1>1. ASSUME NEW u \in Users, NEW v \in Users \ {u}, Allow(u) \/ Deny(u) \/ FailOpen(u)
      PROVE  BurstOf(v)'
    <2>1. /\ count'[v] = count[v] /\ pttl'[v] = pttl[v] /\ passed'[v] = passed[v]
          /\ recent'[v] = recent[v]
        BY <1>1 DEF Allow, Deny, FailOpen, PExpire, LetThrough, TypeOK
    <2>2. outages' \in Nat /\ outages' >= outages
        BY <1>0, <1>1 DEF Allow, Deny, FailOpen
    <2>3. BurstOf(v) /\ passed[v] \in Nat /\ \A a \in Ages : recent[v][a] \in Nat
        BY <1>0 DEF TypeOK
    <2> QED  BY <1>0, <2>1, <2>2, <2>3 DEF BurstOf
<1>2. ASSUME NEW u \in Users, Allow(u) PROVE Bursts'
    <2>1. passed'[u] = passed[u] + 1 /\ outages' = outages
        BY <1>2 DEF Allow, TypeOK
    <2>2. count'[u] = Incr(count[u]) /\ PExpire(u) /\ LetThrough(u)
        BY <1>2 DEF Allow, TypeOK
    <2>3. BurstOf(u)'
        BY <1>0, <2>1, <2>2, LetThroughBurst
    <2> QED  BY <1>0, <1>1, <1>2, <2>1, <2>3 DEF Bursts
<1>3. ASSUME NEW u \in Users, Deny(u) PROVE Bursts'
    <2>1. count[u] # 0 /\ count'[u] # 0
        BY <1>0, <1>3 DEF Deny, Allowed, Incr, TypeOK
    <2>2. pttl' = pttl /\ UNCHANGED <<passed, recent, outages>>
        BY <1>3, <2>1 DEF Deny, PExpire, TypeOK
    <2>3. BurstOf(u)'
        BY <1>0, <2>1, <2>2 DEF BurstOf
    <2> QED  BY <1>0, <1>1, <1>3, <2>2, <2>3 DEF Bursts
<1>4. ASSUME NEW u \in Users, FailOpen(u) PROVE Bursts'
    <2>1. /\ passed' = passed /\ outages' = outages + 1 /\ outages' <= MaxOutages /\ LetThrough(u)
          /\ \/ count'[u] = count[u] /\ pttl'[u] = pttl[u]
             \/ count'[u] = Incr(count[u]) /\ PExpire(u)
        BY <1>0, <1>4 DEF FailOpen, TypeOK
    <2>2. BurstOf(u)'
        BY <1>0, <2>1, LetThroughBurst
    <2> QED  BY <1>1, <1>4, <2>1, <2>2 DEF Bursts
<1>5. CASE Tick
    <2>1. \A u \in Users : BurstOf(u)'
        BY <1>0, <1>5, TickBurst
    <2>2. outages' = outages
        BY <1>5 DEF Tick
    <2> QED  BY <1>0, <2>1, <2>2 DEF Bursts
<1>6. CASE UNCHANGED vars
    BY <1>6 DEF vars, Bursts, BurstOf
<1> QED  BY <1>2, <1>3, <1>4, <1>5, <1>6 DEF Next

\* In no stretch of Window seconds does a user get more than twice the limit and
\* one request for every outage, for every limit, window and clock resolution.
THEOREM BurstsAreBounded == Spec => []BurstBound
<1>1. Init => Bursts
    <2> SUFFICES ASSUME Init PROVE Bursts
        OBVIOUS
    <2>1. ASSUME NEW u \in Users PROVE BurstOf(u)
        BY DEF Init, BurstOf
    <2> QED  BY <2>1 DEF Init, Bursts
<1>2. TypeOK /\ TypeOK' /\ Counted /\ Bursts /\ [Next]_vars => Bursts'
    BY BurstsStep
<1>3. TypeOK /\ Counted /\ Bursts => BurstBound
    <2> SUFFICES ASSUME TypeOK, Counted, Bursts, NEW u \in Users
                 PROVE  recent[u][Span - 1] <= 2 * Limit + MaxOutages
        BY DEF BurstBound
    <2>1. Span - 1 \in Ages
        BY SpanType DEF Ages
    <2>2. recent[u][Span - 1] <= passed[u] + Limit + outages
        BY <2>1 DEF Bursts, BurstOf
    <2>3. passed[u] <= Limit /\ outages <= MaxOutages
        BY DEF Counted, Bursts
    <2>4. recent[u][Span - 1] \in Nat /\ passed[u] \in Nat /\ outages \in Nat
        BY <2>1 DEF TypeOK
    <2> QED  BY <2>2, <2>3, <2>4
<1> QED  BY <1>1, <1>2, <1>3, TypeCorrect, AlwaysCounted, PTL DEF Spec
=============================================================================
