----------------------------- MODULE RateLimiter -----------------------------
(***************************************************************************)
(* The per-user fixed-window limiter in front of /mcp (rate_limiter.py):   *)
(* one Lua script counts a request, starts the window with the first one,  *)
(* and reports what is left of it; the middleware turns the answer into a  *)
(* 429 with Retry-After, and lets the request pass when Redis fails.       *)
(*                                                                         *)
(* A tick is a millisecond of PTTL; Second ticks make a second. A key with *)
(* zero ticks left still exists: Redis expires it once its time is past.   *)
(* Requests outside /mcp, without a user, or with the limiter disabled     *)
(* pass through the middleware and touch nothing.                          *)
(***************************************************************************)
EXTENDS Integers

CONSTANTS
    Users,
    Limit,       \* RATE_LIMIT_MAX_REQUESTS
    Window,      \* RATE_LIMIT_WINDOW_SECONDS
    Second,      \* ticks in a second
    MaxOutages   \* bound: calls of the script that raise

ASSUME LimiterAssumption ==
    /\ Limit \in Nat \ {0}
    /\ Window \in Nat \ {0}
    /\ Second \in Nat \ {0}
    /\ MaxOutages \in Nat

VARIABLES
    count,    \* value of ratelimit:{user}, 0 when the key is absent
    pttl,     \* its PTTL, 0 when the key is absent
    passed,   \* history: requests the script allowed in the current window
    recent,   \* history: recent[u][a] requests were let through in the last a ticks and this one
    denied,   \* history: users with a 429 from their current window
    wait,     \* ticks until the Retry-After of the last 429 has gone by
    outages   \* calls of the script that raised

vars == <<count, pttl, passed, recent, denied, wait, outages>>

Span == Window * Second   \* the window in ticks, the argument of PEXPIRE
Ages == 0..(Span - 1)

Init ==
    /\ count = [u \in Users |-> 0]
    /\ pttl = [u \in Users |-> 0]
    /\ passed = [u \in Users |-> 0]
    /\ recent = [u \in Users |-> [a \in Ages |-> 0]]
    /\ denied = {}
    /\ wait = [u \in Users |-> 0]
    /\ outages = 0

\* INCR. The script asks of the count whether it is 1 and whether it is over
\* the limit, so the model stops counting at Limit + 1.
Incr(n) == IF n > Limit THEN n ELSE n + 1

\* Mutant: every request pushes the end of the window away.
PExpireMutant(u) == pttl' = [pttl EXCEPT ![u] = Span]

\* PEXPIRE when the count is 1.
PExpire(u) == pttl' = [pttl EXCEPT ![u] = IF count[u] = 0 THEN Span ELSE @]

\* Mutant: the comparison lets one request too many through.
AllowedMutant(u) == count[u] < Limit + 1

\* The script's verdict: the count after INCR is not over the limit.
Allowed(u) == Incr(count[u]) <= Limit

LetThrough(u) == recent' = [recent EXCEPT ![u] = [a \in Ages |-> recent[u][a] + 1]]

\* Mutant: the division truncates.
RetryAfterMutant(ttl) == ttl \div Second

\* math.ceil(ttl_ms / 1000), in seconds
RetryAfter(ttl) == (ttl + Second - 1) \div Second

\* dispatch: the script allows the request,
Allow(u) ==
    /\ Allowed(u)
    /\ count' = [count EXCEPT ![u] = Incr(@)]
    /\ PExpire(u)
    /\ passed' = [passed EXCEPT ![u] = @ + 1]
    /\ LetThrough(u)
    /\ UNCHANGED <<denied, wait, outages>>

\* or the answer is 429 with the time to wait.
Deny(u) ==
    /\ ~Allowed(u)
    /\ count' = [count EXCEPT ![u] = Incr(@)]
    /\ PExpire(u)
    /\ denied' = denied \union {u}
    /\ wait' = [wait EXCEPT ![u] = RetryAfter(pttl'[u]) * Second]
    /\ UNCHANGED <<passed, recent, outages>>

\* The script raises, before or after it ran: the request passes.
FailOpen(u) ==
    /\ outages < MaxOutages
    /\ outages' = outages + 1
    /\ \/ UNCHANGED <<count, pttl>>
       \/ count' = [count EXCEPT ![u] = Incr(@)] /\ PExpire(u)
    /\ LetThrough(u)
    /\ UNCHANGED <<passed, denied, wait>>

\* A millisecond passes, and a key whose time is past disappears.
Tick ==
    /\ count' = [u \in Users |-> IF pttl[u] = 0 THEN 0 ELSE count[u]]
    /\ pttl' = [u \in Users |-> IF pttl[u] = 0 THEN 0 ELSE pttl[u] - 1]
    /\ passed' = [u \in Users |-> IF pttl[u] = 0 THEN 0 ELSE passed[u]]
    /\ denied' = {u \in denied : pttl[u] # 0}
    /\ wait' = [u \in Users |-> IF wait[u] = 0 THEN 0 ELSE wait[u] - 1]
    /\ recent' = [u \in Users |-> [a \in Ages |-> IF a = 0 THEN 0 ELSE recent[u][a - 1]]]
    /\ UNCHANGED outages

Next == (\E u \in Users : Allow(u) \/ Deny(u) \/ FailOpen(u)) \/ Tick

Spec == Init /\ [][Next]_vars

\* Time passes; no request has to come.
FairSpec == Spec /\ WF_vars(Tick)

-----------------------------------------------------------------------------
(* Properties.                                                             *)

\* The values the variables take: the counter stops at one over the limit and
\* PTTL stays between zero and the window.
TypeOK ==
    /\ count \in [Users -> 0..(Limit + 1)]
    /\ pttl \in [Users -> 0..Span]
    /\ passed \in [Users -> Nat]
    /\ recent \in [Users -> [Ages -> Nat]]
    /\ denied \subseteq Users
    /\ wait \in [Users -> Nat]
    /\ outages \in Nat

\* The script allows no more than the limit in one window, even when calls that
\* failed have counted.
WindowBound == \A u \in Users : passed[u] <= Limit

\* What a fixed window gives over any stretch of Window seconds: two windows can
\* meet in it, and an outage lets a request through uncounted.
BurstBound == \A u \in Users : recent[u][Span - 1] <= 2 * Limit + MaxOutages

\* A client that waited for Retry-After finds its window over, or in its very
\* last millisecond: the seconds are rounded up from PTTL.
RetryAfterSuffices == \A u \in denied : wait[u] = 0 => pttl[u] = 0

\* Requests that are refused do not prolong the window: a user who never stops
\* asking is let through again and again.
WindowsEnd == \A u \in Users : []<>(count[u] = 0)
=============================================================================
