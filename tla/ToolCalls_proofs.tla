--------------------------- MODULE ToolCalls_proofs ---------------------------
(* Proofs about ToolCalls, for any number of calls and attempts, and about  *)
(* the query of a search, for texts of any length over any symbols.        *)
EXTENDS ToolCalls, SequenceTheorems, WellFoundedInduction, TLAPS

\* A pause is followed by an attempt that is allowed.
Attempts == \A c \in Calls : pc[c] = "pause" => attempt[c] < MaxRetries

\* Every step keeps the types; the attempts stay within stop_after_attempt.
LEMMA TypeStep == TypeOK /\ Attempts /\ [Next]_vars => TypeOK' /\ Attempts'
<1> SUFFICES ASSUME TypeOK, Attempts, [Next]_vars PROVE TypeOK' /\ Attempts'
    OBVIOUS
<1> USE RetriesAssumption
<1>1. ASSUME NEW c \in Calls, NEW t \in Tools, NEW scopes \in SUBSET AllScopes,
             Dispatch(c, t, scopes)
      PROVE  TypeOK' /\ Attempts'
    BY <1>1 DEF Dispatch, Answer, TypeOK, Attempts
<1>2. ASSUME NEW c \in Calls, Token(c) PROVE TypeOK' /\ Attempts'
    BY <1>2 DEF Token, Answer, Raise, historyVars, TypeOK, Attempts
<1>3. ASSUME NEW c \in Calls, Send(c) PROVE TypeOK' /\ Attempts'
    BY <1>3 DEF Send, historyVars, TypeOK, Attempts
<1>4. ASSUME NEW c \in Calls, NEW r \in Replies, Reply(c, r) PROVE TypeOK' /\ Attempts'
    <2>1. PICK n \in MayPost(tool[c], r) : posted' = [posted EXCEPT ![c] = @ + n]
        BY <1>4 DEF Reply
    <2>2. n \in {0, 1}
        BY <2>1 DEF MayPost
    <2>3. posted' \in [Calls -> Nat]
        BY <2>1, <2>2 DEF TypeOK
    <2>4. broken' \in [Calls -> Nat]
        BY <1>4 DEF Reply, TypeOK
    <2>5. UNCHANGED <<tool, attempt, metered, faults>>
        BY <1>4 DEF Reply
    <2>6. CASE r = "ok" /\ part[c] < Parts(tool[c])
        <3>1. /\ part' = [part EXCEPT ![c] = @ + 1]
              /\ pc' = [pc EXCEPT ![c] = "send"]
              /\ UNCHANGED outcome
            BY <1>4, <2>6 DEF Reply
        <3>2. part[c] + 1 \in 1..2
            BY <2>6 DEF Parts, TypeOK
        <3> QED  BY <2>3, <2>4, <2>5, <3>1, <3>2 DEF TypeOK, Attempts
    <2>7. CASE ~(r = "ok" /\ part[c] < Parts(tool[c]))
        BY <1>4, <2>3, <2>4, <2>5, <2>7 DEF Reply, MayRetry, Answer, Raise, TypeOK, Attempts
    <2> QED  BY <2>6, <2>7
<1>5. ASSUME NEW c \in Calls, Retry(c) PROVE TypeOK' /\ Attempts'
    BY <1>5 DEF Retry, historyVars, TypeOK, Attempts
<1>6. ASSUME NEW c \in Calls, Meter(c) \/ MeterError(c) PROVE TypeOK' /\ Attempts'
    BY <1>6 DEF Meter, MeterError, TypeOK, Attempts
<1>7. ASSUME NEW c \in Calls, Cancel(c) PROVE TypeOK' /\ Attempts'
    <2>1. /\ pc' = [pc EXCEPT ![c] = "idle"] /\ outcome' = [outcome EXCEPT ![c] = "cancelled"]
          /\ UNCHANGED <<tool, attempt, part, broken, faults>>
        BY <1>7 DEF Cancel
    <2>2. posted' \in [Calls -> Nat] /\ metered' \in [Calls -> Nat]
        BY <1>7 DEF Cancel, MayPost, TypeOK
    <2> QED  BY <2>1, <2>2 DEF TypeOK, Attempts
<1>8. CASE UNCHANGED vars
    BY <1>8 DEF vars, historyVars, TypeOK, Attempts
<1> QED  BY <1>1, <1>2, <1>3, <1>4, <1>5, <1>6, <1>7, <1>8 DEF Next, CallStep

\* The values of every variable.
THEOREM TypeCorrect == Spec => []TypeOK
<1>1. Init => TypeOK /\ Attempts
    BY RetriesAssumption DEF Init, TypeOK, Attempts, Tools, DriveTools
<1> QED  BY <1>1, TypeStep, PTL DEF Spec

-----------------------------------------------------------------------------
(* Posts and usage records.                                                *)

Upstream == {"token", "send", "reply", "pause"}

\* What the two properties need to be inductive: a call that has not got its
\* result has no record, and no more posts than server errors.
Sound(c) ==
    /\ pc[c] \in Upstream => outcome[c] = "none" /\ metered[c] = 0 /\ posted[c] <= broken[c]
    /\ pc[c] = "meter" => outcome[c] \in {"ok", "error"} /\ metered[c] = 0
    /\ pc[c] = "idle" /\ outcome[c] = "none" => metered[c] = 0
    /\ posted[c] <= 1 + broken[c]
    /\ tool[c] = "slack-send-message" /\ outcome[c] = "ok" => posted[c] >= 1
    /\ metered[c] <= 1
    /\ c \in Anonymous \/ outcome[c] = "raised" => metered[c] = 0
    /\ pc[c] = "idle" /\ outcome[c] \in {"ok", "error"} /\ faults = 0 /\ c \notin Anonymous
          => metered[c] = 1

\* The step of a call keeps its own part of the invariant.
LEMMA OwnStep ==
    ASSUME TypeOK, NEW c \in Calls, Sound(c),
           \/ \E t \in Tools, scopes \in SUBSET AllScopes : Dispatch(c, t, scopes)
           \/ CallStep(c) \/ Cancel(c)
    PROVE  Sound(c)'
<1>1. ASSUME NEW t \in Tools, NEW scopes \in SUBSET AllScopes, Dispatch(c, t, scopes)
      PROVE  Sound(c)'
    BY <1>1 DEF Dispatch, Answer, Sound, Upstream, TypeOK
<1>2. CASE Token(c)
    BY <1>2 DEF Token, Answer, Raise, historyVars, Sound, Upstream, TypeOK
<1>3. CASE Send(c)
    BY <1>3 DEF Send, historyVars, Sound, Upstream, TypeOK
<1>4. ASSUME NEW r \in Replies, Reply(c, r) PROVE Sound(c)'
    <2>1. PICK n \in MayPost(tool[c], r) : posted' = [posted EXCEPT ![c] = @ + n]
        BY <1>4 DEF Reply
    <2>2. /\ n \in {0, 1}
          /\ n = 1 => r \in {"ok", "5xx", "transport", "malformed"}
          /\ tool[c] = "slack-send-message" /\ r = "ok" => n = 1
        BY <2>1 DEF MayPost
    <2>3. posted'[c] = posted[c] + n /\ broken'[c] = IF r = "5xx" THEN broken[c] + 1 ELSE broken[c]
        BY <1>4, <2>1 DEF Reply, TypeOK
    <2>4. UNCHANGED <<tool, attempt, metered, faults>> /\ pc[c] = "reply"
        BY <1>4 DEF Reply
    <2>5. posted[c] \in Nat /\ broken[c] \in Nat /\ posted[c] <= broken[c]
          /\ metered[c] = 0 /\ outcome[c] = "none"
        BY <2>4 DEF Sound, Upstream, TypeOK
    <2>6. CASE r = "ok" /\ part[c] < Parts(tool[c])
        <3>1. n = 0
            BY <2>1, <2>6 DEF MayPost, Parts, TypeOK
        <3>2. pc'[c] = "send" /\ outcome'[c] = "none"
            BY <1>4, <2>5, <2>6 DEF Reply, TypeOK
        <3> QED  BY <2>3, <2>4, <2>5, <2>6, <3>1, <3>2 DEF Sound, Upstream
    <2>7. CASE r = "ok" /\ ~(part[c] < Parts(tool[c]))
        <3>1. pc'[c] = "meter" /\ outcome'[c] = "ok"
            BY <1>4, <2>7 DEF Reply, Answer, TypeOK
        <3> QED  BY <2>2, <2>3, <2>4, <2>5, <2>7, <3>1 DEF Sound, Upstream
    <2>8. CASE r # "ok"
        <3>1. \/ /\ MayRetry(c, r) /\ pc'[c] = "pause" /\ outcome'[c] = "none"
              \/ pc'[c] = "meter" /\ outcome'[c] = "error"
              \/ pc'[c] = "idle" /\ outcome'[c] = "raised"
            BY <1>4, <2>5, <2>8 DEF Reply, Answer, Raise, TypeOK
        <3>2. MayRetry(c, r) => r \in {"429", "5xx"}
            BY DEF MayRetry, IsRetryable
        <3> QED  BY <2>2, <2>3, <2>4, <2>5, <2>8, <3>1, <3>2 DEF Sound, Upstream
    <2> QED  BY <2>6, <2>7, <2>8
<1>5. CASE Retry(c)
    BY <1>5 DEF Retry, historyVars, Sound, Upstream, TypeOK
<1>6. CASE Meter(c)
    BY <1>6 DEF Meter, Sound, Upstream, TypeOK
<1>7. CASE MeterError(c)
    <2>1. faults' # 0
        BY <1>7 DEF MeterError, TypeOK
    <2>2. PICK n \in {0, 1} : metered' = [metered EXCEPT ![c] = @ + n]
        BY <1>7 DEF MeterError
    <2> QED  BY <1>7, <2>1, <2>2 DEF MeterError, Sound, Upstream, TypeOK
<1>8. CASE Cancel(c)
    <2>1. /\ pc'[c] = "idle" /\ outcome'[c] = "cancelled"
          /\ UNCHANGED <<tool, attempt, part, broken, faults>>
        BY <1>8 DEF Cancel, TypeOK
    <2>2. posted[c] \in Nat /\ broken[c] \in Nat /\ metered[c] \in Nat
        BY DEF TypeOK
    <2>3. CASE pc[c] \in Upstream
        <3>1. posted'[c] \in {posted[c], posted[c] + 1} /\ metered'[c] = metered[c]
            BY <1>8, <2>2, <2>3 DEF Cancel, MayPost, Upstream, TypeOK
        <3> QED  BY <2>1, <2>2, <2>3, <3>1 DEF Sound, Upstream
    <2>4. CASE pc[c] = "meter" /\ c \notin Anonymous
        <3>1. posted'[c] = posted[c] /\ metered'[c] \in {metered[c], metered[c] + 1}
            BY <1>8, <2>2, <2>4 DEF Cancel, TypeOK
        <3> QED  BY <2>1, <2>2, <2>4, <3>1 DEF Sound, Upstream
    <2> QED  BY <1>8, <2>3, <2>4 DEF Cancel, Upstream
<1> QED  BY <1>1, <1>2, <1>3, <1>4, <1>5, <1>6, <1>7, <1>8 DEF CallStep

\* The step of a call leaves the others alone; failures of the usage record only
\* accumulate.
LEMMA OthersStep ==
    ASSUME TypeOK, NEW c \in Calls, NEW d \in Calls, d # c, Sound(d),
           \/ \E t \in Tools, scopes \in SUBSET AllScopes : Dispatch(c, t, scopes)
           \/ CallStep(c) \/ Cancel(c)
    PROVE  Sound(d)'
<1>1. pc'[d] = pc[d] /\ tool'[d] = tool[d] /\ outcome'[d] = outcome[d]
    BY DEF Dispatch, CallStep, Token, Send, Reply, Retry, Meter, MeterError, Cancel, Answer, Raise,
        TypeOK
<1>2. posted'[d] = posted[d] /\ broken'[d] = broken[d] /\ metered'[d] = metered[d]
    BY DEF Dispatch, CallStep, Token, Send, Reply, Retry, Meter, MeterError, Cancel, historyVars,
        TypeOK
<1>3. faults' = 0 => faults = 0
    BY DEF Dispatch, CallStep, Token, Send, Reply, Retry, Meter, MeterError, Cancel, TypeOK
<1> QED  BY <1>1, <1>2, <1>3 DEF Sound

\* The invariant holds in every state.
LEMMA AlwaysSound == Spec => [](\A c \in Calls : Sound(c))
<1>1. ASSUME Init, NEW c \in Calls PROVE Sound(c)
    <2>1. pc[c] = "idle" /\ outcome[c] = "none" /\ posted[c] = 0 /\ broken[c] = 0 /\ metered[c] = 0
        BY <1>1 DEF Init
    <2> QED  BY <2>1 DEF Sound, Upstream
<1>2. TypeOK /\ (\A c \in Calls : Sound(c)) /\ [Next]_vars => (\A c \in Calls : Sound(c))'
    <2>1. CASE UNCHANGED vars
        BY <2>1 DEF vars, historyVars, Sound
    <2>2. ASSUME NEW c \in Calls, NEW d \in Calls, TypeOK, \A e \in Calls : Sound(e),
                 \/ \E t \in Tools, scopes \in SUBSET AllScopes : Dispatch(c, t, scopes)
                 \/ CallStep(c) \/ Cancel(c)
          PROVE  Sound(d)'
        <3>1. Sound(c) /\ Sound(d)
            BY <2>2
        <3>2. CASE d = c
            BY <2>2, <3>1, <3>2, OwnStep
        <3>3. CASE d # c
            BY <2>2, <3>1, <3>3, OthersStep
        <3> QED  BY <3>2, <3>3
    <2> QED  BY <2>1, <2>2 DEF Next
<1>3. Init => \A c \in Calls : Sound(c)
    BY <1>1
<1> QED  BY <1>2, <1>3, TypeCorrect, PTL DEF Spec

\* A message is posted twice only after a server error of Slack, and a success
\* is reported only for a message that was posted.
THEOREM PostsAreAccounted == Spec => []PostedOnce
<1>1. (\A c \in Calls : Sound(c)) => PostedOnce
    BY DEF Sound, PostedOnce
<1> QED  BY <1>1, AlwaysSound, PTL

\* A result given to a user has one usage record, unless the record failed; an
\* exception and a call without a user have none, and no call has two (usage.py).
THEOREM ResultsAreMetered == Spec => []MeteredOnce
<1>1. TypeOK /\ (\A c \in Calls : Sound(c)) => MeteredOnce
    BY DEF Sound, MeteredOnce, Upstream, TypeOK
<1> QED  BY <1>1, AlwaysSound, TypeCorrect, PTL

-----------------------------------------------------------------------------
(* Induction, in first-order form: over a set of numbers instead of a      *)
(* predicate.                                                              *)

\* Induction over the natural numbers, for a set of them.
LEMMA NatSetInduction ==
    ASSUME NEW T, T \subseteq Nat, 0 \in T, \A n \in T : n + 1 \in T
    PROVE  T = Nat
<1> DEFINE R == OpToRel(<, Nat)
           M == Nat \ T
<1>1. SUFFICES ASSUME M # {} PROVE FALSE
    OBVIOUS
<1>2. IsWellFoundedOn(R, Nat)
    BY NatLessThanWellFounded
<1>3. PICK x \in M : \A y \in M : ~(<<y, x>> \in R)
    <2> HIDE DEF R
    <2> QED  BY <1>1, <1>2, WFMin
<1>4. x \in Nat /\ x \notin T
    BY <1>3
<1>5. x # 0 /\ x - 1 \in Nat /\ x - 1 < x /\ (x - 1) + 1 = x
    BY <1>4
<1>6. <<x - 1, x>> \in R
    BY <1>4, <1>5 DEF OpToRel
<1> HIDE DEF R
<1>7. x - 1 \in T
    BY <1>3, <1>4, <1>5, <1>6
<1> QED  BY <1>4, <1>5, <1>7

\* g starts from base and goes up to L by the given steps, in the set V of values.
Stepwise(L, V, base, step, g) ==
    /\ g \in [0..L -> V]
    /\ g[0] = base
    /\ \A n \in 1..L : g[n] = step[n][g[n - 1]]

\* Two functions that start alike and take the same steps up to L; and two that
\* agree up to L.
SameSteps(L, g, h) ==
    g[0] = h[0] /\ \A n \in 1..L : g[n - 1] = h[n - 1] => g[n] = h[n]
SameUpTo(L, g, h) == \A n \in 0..L : g[n] = h[n]

\* A function that is defined step by step exists, for any step function.
LEMMA StepwiseExists ==
    ASSUME NEW L \in Nat, NEW V, NEW base \in V, NEW step \in [1..L -> [V -> V]]
    PROVE  \E g : Stepwise(L, V, base, step, g)
<1> DEFINE Up(m) == {g \in [0..m -> V] :
                        g[0] = base /\ \A n \in 1..m : g[n] = step[n][g[n - 1]]}
           T == {m \in Nat : m <= L => Up(m) # {}}
<1>1. 0 \in T
    <2>1. [n \in 0..0 |-> base] \in Up(0)
        OBVIOUS
    <2> QED  BY <2>1
<1>2. ASSUME NEW m \in T PROVE m + 1 \in T
    <2> SUFFICES ASSUME m + 1 <= L PROVE Up(m + 1) # {}
        OBVIOUS
    <2>1. PICK g \in Up(m) : TRUE
        BY <1>2
    <2> DEFINE h == [n \in 0..(m + 1) |-> IF n = m + 1 THEN step[m + 1][g[m]] ELSE g[n]]
    <2>2. m \in Nat /\ m + 1 \in 1..L /\ g \in [0..m -> V] /\ g[m] \in V /\ g[0] = base
              /\ \A n \in 1..m : g[n] = step[n][g[n - 1]]
        BY <2>1
    <2>3. step[m + 1][g[m]] \in V
        BY <2>2
    <2>4. h \in [0..(m + 1) -> V]
        BY <2>2, <2>3
    <2>5. h[0] = base
        BY <2>2
    <2>6. ASSUME NEW n \in 1..(m + 1) PROVE h[n] = step[n][h[n - 1]]
        <3>1. CASE n = m + 1
            BY <2>2, <3>1
        <3>2. CASE n # m + 1
            <4>1. n \in 1..m /\ n \in 0..(m + 1) /\ n - 1 \in 0..(m + 1) /\ n - 1 # m + 1
                BY <2>2, <3>2
            <4>2. h[n] = g[n] /\ h[n - 1] = g[n - 1]
                BY <3>2, <4>1
            <4> QED  BY <2>2, <4>1, <4>2
        <3> QED  BY <3>1, <3>2
    <2> HIDE DEF h
    <2> QED  BY <2>4, <2>5, <2>6
<1>3. L \in T
    <2> HIDE DEF T
    <2>1. T \subseteq Nat
        BY DEF T
    <2> QED  BY <1>1, <1>2, <2>1, NatSetInduction
<1>4. PICK g \in Up(L) : TRUE
    BY <1>3
<1> QED  BY <1>4 DEF Stepwise

\* Two functions that start alike and take the same steps are alike.
LEMMA StepwiseEqual ==
    ASSUME NEW L \in Nat, NEW g, NEW h, SameSteps(L, g, h)
    PROVE  SameUpTo(L, g, h)
<1> USE DEF SameSteps, SameUpTo
<1> DEFINE T == {n \in Nat : n <= L => g[n] = h[n]}
<1>1. 0 \in T
    OBVIOUS
<1>2. ASSUME NEW n \in T PROVE n + 1 \in T
    <2>1. n \in Nat /\ (n + 1) - 1 = n
        OBVIOUS
    <2>2. n + 1 <= L => n + 1 \in 1..L /\ n <= L
        BY <2>1
    <2> QED  BY <2>1, <2>2
<1>3. T = Nat
    <2>1. T \subseteq Nat
        OBVIOUS
    <2> HIDE DEF T
    <2> QED  BY <1>1, <1>2, <2>1, NatSetInduction
<1> QED  BY <1>3

-----------------------------------------------------------------------------
(* What the recursive functions of DriveQuery compute, symbol by symbol.   *)

\* The stages g that str.replace goes through.
ReplaceStages(S, s, c, t, g) ==
    /\ g \in [0..Len(s) -> Seq(S)]
    /\ g[0] = <<>>
    /\ \A n \in 1..Len(s) : g[n] = g[n - 1] \o (IF s[n] = c THEN t ELSE <<s[n]>>)
    /\ Replace(s, c, t) = g[Len(s)]

\* The stages exist, and so the recursive function of Replace is what it says.
LEMMA ReplaceHasStages ==
    ASSUME NEW S, NEW s \in Seq(S), NEW c, NEW t \in Seq(S)
    PROVE  \E g : ReplaceStages(S, s, c, t, g)
<1> DEFINE L == Len(s)
           V == Seq(S)
           piece(n) == IF s[n] = c THEN t ELSE <<s[n]>>
           step == [n \in 1..L |-> [v \in V |-> v \o piece(n)]]
           Stages(g) == g = [n \in 0..L |-> IF n = 0 THEN <<>> ELSE g[n - 1] \o piece(n)]
           u == CHOOSE g : Stages(g)
<1>1. L \in Nat /\ <<>> \in V
    OBVIOUS
<1>2. \A n \in 1..L : piece(n) \in V
    OBVIOUS
<1>3. step \in [1..L -> [V -> V]]
    <2>1. \A n \in 1..L : \A v \in V : v \o piece(n) \in V
        BY <1>2
    <2> HIDE DEF piece, V
    <2> QED  BY <2>1
<1>4. \A n \in 1..L, v \in V : step[n][v] = v \o piece(n)
    <2> HIDE DEF piece, V
    <2> QED  OBVIOUS
<1>5. PICK g : Stepwise(L, V, <<>>, step, g)
    <2> HIDE DEF step, V, L
    <2> QED  BY <1>1, <1>3, StepwiseExists
<1>6. /\ g \in [0..L -> V]
      /\ g[0] = <<>>
      /\ \A n \in 1..L : g[n] = step[n][g[n - 1]]
    <2> HIDE DEF step, V, L
    <2> QED  BY <1>5 DEF Stepwise
<1>7. \A n \in 0..L : n # 0 => n \in 1..L
    BY <1>1
<1>8. \A n \in 1..L : g[n] = g[n - 1] \o piece(n)
    <2>1. \A n \in 1..L : n - 1 \in 0..L
        BY <1>1
    <2> HIDE DEF step, V, L, piece
    <2> QED  BY <1>4, <1>6, <2>1
<1>9. Stages(g)
    <2> HIDE DEF step, V, L, piece
    <2> QED  BY <1>6, <1>7, <1>8
<1>10. Stages(u)
    <2> HIDE DEF Stages
    <2> QED  BY <1>9
<1>11. \A n \in 0..L : u[n] = IF n = 0 THEN <<>> ELSE u[n - 1] \o piece(n)
    <2> HIDE DEF step, V, L, piece, u
    <2> QED  BY <1>10
<1>12. u[0] = <<>> /\ \A n \in 1..L : u[n] = u[n - 1] \o piece(n)
    <2>1. 0 \in 0..L /\ \A n \in 1..L : n \in 0..L /\ n # 0
        BY <1>1
    <2> HIDE DEF step, V, L, piece, u
    <2> QED  BY <1>11, <2>1
<1>13. SameUpTo(L, u, g)
    <2>1. \A n \in 1..L : u[n - 1] = g[n - 1] => u[n] = g[n]
        <3> HIDE DEF step, V, L, piece, u
        <3> QED  BY <1>8, <1>12
    <2>2. u[0] = g[0]
        <3> HIDE DEF u
        <3> QED  BY <1>6, <1>12
    <2> HIDE DEF step, V, L, piece, u, Stages
    <2>3. SameSteps(L, u, g)
        BY <2>1, <2>2 DEF SameSteps
    <2> QED  BY <1>1, <2>3, StepwiseEqual
<1>14. Replace(s, c, t) = u[L]
    BY DEF Replace
<1>15. Replace(s, c, t) = g[L]
    <2> HIDE DEF step, V, piece, u, L
    <2> QED  BY <1>1, <1>13, <1>14 DEF SameUpTo
<1> QED  BY <1>6, <1>8, <1>15 DEF ReplaceStages

\* What str.replace puts for the symbol x.
Replaced(x, c, t) == IF x = c THEN t ELSE <<x>>

\* str.replace yields a text, and of the empty text the empty one.
LEMMA ReplaceType ==
    ASSUME NEW S, NEW c, NEW t \in Seq(S)
    PROVE  Replace(<<>>, c, t) = <<>> /\ \A s \in Seq(S) : Replace(s, c, t) \in Seq(S)
<1>1. Replace(<<>>, c, t) = <<>>
    <2>1. <<>> \in Seq(S) /\ Len(<<>>) = 0
        OBVIOUS
    <2>2. PICK g : ReplaceStages(S, <<>>, c, t, g)
        BY <2>1, ReplaceHasStages
    <2> QED  BY <2>1, <2>2 DEF ReplaceStages
<1>2. ASSUME NEW s \in Seq(S) PROVE Replace(s, c, t) \in Seq(S)
    <2>1. Len(s) \in 0..Len(s)
        OBVIOUS
    <2>2. PICK g : ReplaceStages(S, s, c, t, g)
        BY ReplaceHasStages
    <2> QED  BY <2>1, <2>2 DEF ReplaceStages
<1> QED  BY <1>1, <1>2

\* str.replace of a text that ends with the symbol x.
LEMMA ReplaceAppend ==
    ASSUME NEW S, NEW c, NEW t \in Seq(S), NEW s \in Seq(S), NEW x \in S
    PROVE  Replace(Append(s, x), c, t) = Replace(s, c, t) \o Replaced(x, c, t)
<1> DEFINE L == Len(s)
           r == Append(s, x)
<1>1. r \in Seq(S) /\ Len(r) = L + 1 /\ L \in Nat /\ r[L + 1] = x
          /\ \A n \in 1..L : r[n] = s[n]
    OBVIOUS
<1> HIDE DEF r
<1>2. PICK g : ReplaceStages(S, s, c, t, g)
    BY ReplaceHasStages
<1>3. PICK h : ReplaceStages(S, r, c, t, h)
    BY <1>1, ReplaceHasStages
<1> HIDE DEF r, L
<1>4. \A n \in 1..L : g[n - 1] = h[n - 1] => g[n] = h[n]
    <2>1. \A n \in 1..L : n \in 1..Len(r)
        BY <1>1
    <2> QED  BY <1>1, <1>2, <1>3, <2>1 DEF L, ReplaceStages
<1>5. SameSteps(L, g, h)
    BY <1>2, <1>3, <1>4 DEF SameSteps, ReplaceStages
<1>6. SameUpTo(L, g, h)
    BY <1>1, <1>5, StepwiseEqual
<1>7. g[L] = h[L]
    BY <1>1, <1>6 DEF SameUpTo
<1>8. L + 1 \in 1..Len(r) /\ (L + 1) - 1 = L
    BY <1>1
<1>9. h[L + 1] = h[L] \o (IF x = c THEN t ELSE <<x>>)
    BY <1>1, <1>3, <1>8 DEF ReplaceStages
<1> QED  BY <1>1, <1>2, <1>3, <1>7, <1>9 DEF r, L, ReplaceStages, Replaced

-----------------------------------------------------------------------------
\* What Drive reads from texts over S, and the states of the reader.
Tokens(S) == [literal : BOOLEAN, text : Seq(S)]
States(S) == [mode : {"word", "literal", "escaped"}, text : Seq(S), tokens : Seq(Tokens(S))]

\* A symbol takes the reader from state to state.
LEMMA ReadSymbolType ==
    ASSUME NEW S, NEW state \in States(S), NEW c \in S
    PROVE  ReadSymbol(state, c) \in States(S)
<1>1. Word(c) \in Tokens(S) /\ Literal(state.text) \in Tokens(S)
    BY DEF Word, Literal, Tokens, States
<1>2. /\ state.tokens \in Seq(Tokens(S)) /\ state.text \in Seq(S)
      /\ state.mode \in {"word", "literal", "escaped"}
    BY DEF States
<1>3. /\ Append(state.tokens, Word(c)) \in Seq(Tokens(S))
      /\ Append(state.tokens, Literal(state.text)) \in Seq(Tokens(S))
      /\ Append(state.text, c) \in Seq(S)
      /\ <<>> \in Seq(S)
    BY <1>1, <1>2
<1> QED  BY <1>2, <1>3 DEF ReadSymbol, States

\* The stages g that the reading of q goes through.
ReadStages(S, q, g) ==
    /\ g \in [0..Len(q) -> States(S)]
    /\ g[0] = Start
    /\ \A n \in 1..Len(q) : g[n] = ReadSymbol(g[n - 1], q[n])
    /\ Read(q) = g[Len(q)]

\* The stages exist, as those of Replace.
LEMMA ReadHasStages ==
    ASSUME NEW S, NEW q \in Seq(S)
    PROVE  \E g : ReadStages(S, q, g)
<1> DEFINE L == Len(q)
           V == States(S)
           step == [n \in 1..L |-> [v \in V |-> ReadSymbol(v, q[n])]]
           Stages(g) == g = [n \in 0..L |-> IF n = 0 THEN Start ELSE ReadSymbol(g[n - 1], q[n])]
           u == CHOOSE g : Stages(g)
<1>1. L \in Nat /\ Start \in V
    BY DEF Start, States, Tokens
<1>2. \A n \in 1..L : q[n] \in S
    OBVIOUS
<1>3. step \in [1..L -> [V -> V]]
    <2>1. \A n \in 1..L : \A v \in V : ReadSymbol(v, q[n]) \in V
        BY <1>2, ReadSymbolType
    <2> HIDE DEF V
    <2> QED  BY <2>1
<1>4. \A n \in 1..L, v \in V : step[n][v] = ReadSymbol(v, q[n])
    <2> HIDE DEF V
    <2> QED  OBVIOUS
<1>5. PICK g : Stepwise(L, V, Start, step, g)
    <2> HIDE DEF step, V, L
    <2> QED  BY <1>1, <1>3, StepwiseExists
<1>6. /\ g \in [0..L -> V]
      /\ g[0] = Start
      /\ \A n \in 1..L : g[n] = step[n][g[n - 1]]
    <2> HIDE DEF step, V, L
    <2> QED  BY <1>5 DEF Stepwise
<1>7. \A n \in 0..L : n # 0 => n \in 1..L
    BY <1>1
<1>8. \A n \in 1..L : g[n] = ReadSymbol(g[n - 1], q[n])
    <2>1. \A n \in 1..L : n - 1 \in 0..L
        BY <1>1
    <2> HIDE DEF step, V, L
    <2> QED  BY <1>4, <1>6, <2>1
<1>9. Stages(g)
    <2> HIDE DEF step, V, L
    <2> QED  BY <1>6, <1>7, <1>8
<1>10. Stages(u)
    <2> HIDE DEF Stages
    <2> QED  BY <1>9
<1>11. \A n \in 0..L : u[n] = IF n = 0 THEN Start ELSE ReadSymbol(u[n - 1], q[n])
    <2> HIDE DEF step, V, L, u
    <2> QED  BY <1>10
<1>12. u[0] = Start /\ \A n \in 1..L : u[n] = ReadSymbol(u[n - 1], q[n])
    <2>1. 0 \in 0..L /\ \A n \in 1..L : n \in 0..L /\ n # 0
        BY <1>1
    <2> HIDE DEF step, V, L, u
    <2> QED  BY <1>11, <2>1
<1>13. SameUpTo(L, u, g)
    <2>1. \A n \in 1..L : u[n - 1] = g[n - 1] => u[n] = g[n]
        <3> HIDE DEF step, V, L, u
        <3> QED  BY <1>8, <1>12
    <2>2. u[0] = g[0]
        <3> HIDE DEF u
        <3> QED  BY <1>6, <1>12
    <2> HIDE DEF step, V, L, u, Stages
    <2>3. SameSteps(L, u, g)
        BY <2>1, <2>2 DEF SameSteps
    <2> QED  BY <1>1, <2>3, StepwiseEqual
<1>14. Read(q) = u[L]
    BY DEF Read
<1>15. Read(q) = g[L]
    <2> HIDE DEF step, V, u, L
    <2> QED  BY <1>1, <1>13, <1>14 DEF SameUpTo
<1> QED  BY <1>6, <1>8, <1>15 DEF ReadStages

\* The reading of a text that ends with the symbol c.
LEMMA ReadAppend ==
    ASSUME NEW S
    PROVE  /\ Read(<<>>) = Start
           /\ \A q \in Seq(S) : Read(q) \in States(S)
           /\ \A q \in Seq(S), c \in S : Read(Append(q, c)) = ReadSymbol(Read(q), c)
<1>1. Read(<<>>) = Start
    <2>1. <<>> \in Seq(S) /\ Len(<<>>) = 0
        OBVIOUS
    <2>2. PICK g : ReadStages(S, <<>>, g)
        BY <2>1, ReadHasStages
    <2> QED  BY <2>1, <2>2 DEF ReadStages
<1>2. ASSUME NEW q \in Seq(S) PROVE Read(q) \in States(S)
    <2>1. Len(q) \in 0..Len(q)
        OBVIOUS
    <2>2. PICK g : ReadStages(S, q, g)
        BY ReadHasStages
    <2> QED  BY <2>1, <2>2 DEF ReadStages
<1>3. ASSUME NEW q \in Seq(S), NEW c \in S
      PROVE  Read(Append(q, c)) = ReadSymbol(Read(q), c)
    <2> DEFINE L == Len(q)
               r == Append(q, c)
    <2>1. r \in Seq(S) /\ Len(r) = L + 1 /\ L \in Nat /\ r[L + 1] = c
              /\ \A n \in 1..L : r[n] = q[n]
        OBVIOUS
    <2> HIDE DEF r
    <2>2. PICK g : ReadStages(S, q, g)
        BY ReadHasStages
    <2>3. PICK h : ReadStages(S, r, h)
        BY <2>1, ReadHasStages
    <2> HIDE DEF r, L
    <2>4. \A n \in 1..L : g[n - 1] = h[n - 1] => g[n] = h[n]
        <3>1. \A n \in 1..L : n \in 1..Len(r)
            BY <2>1
        <3> QED  BY <2>1, <2>2, <2>3, <3>1 DEF L, ReadStages
    <2>5. SameSteps(L, g, h)
        BY <2>2, <2>3, <2>4 DEF SameSteps, ReadStages
    <2>6. SameUpTo(L, g, h)
        BY <2>1, <2>5, StepwiseEqual
    <2>7. g[L] = h[L]
        BY <2>1, <2>6 DEF SameUpTo
    <2>8. L + 1 \in 1..Len(r) /\ (L + 1) - 1 = L
        BY <2>1
    <2>9. h[L + 1] = ReadSymbol(h[L], c)
        BY <2>1, <2>3, <2>8 DEF ReadStages
    <2> QED  BY <2>1, <2>2, <2>3, <2>7, <2>9 DEF r, L, ReadStages
<1> QED  BY <1>1, <1>2, <1>3

-----------------------------------------------------------------------------
(* Escaping and reading. S is any alphabet with the quote and the          *)
(* backslash.                                                              *)

\* Concatenation of one symbol is Append.
LEMMA ConcatOne ==
    ASSUME NEW S, NEW q \in Seq(S), NEW c \in S
    PROVE  q \o <<c>> = Append(q, c) /\ Append(q, c) \in Seq(S)
OBVIOUS

\* The same for a text of two.
LEMMA Pair ==
    ASSUME NEW S, NEW a \in S, NEW b \in S
    PROVE  /\ <<a>> \in Seq(S) /\ <<a, b>> \in Seq(S)
           /\ Append(<<a>>, b) = <<a, b>>
           /\ <<a>> \o <<b>> = <<a, b>>
<1>1. <<a>> \in Seq(S) /\ <<a, b>> \in Seq(S)
    OBVIOUS
<1>2. Append(<<a>>, b) = <<a, b>>
    <2>1. Append(<<a>>, b) \in Seq(S) /\ Len(Append(<<a>>, b)) = 2 /\ Len(<<a, b>>) = 2
        BY <1>1
    <2>2. Append(<<a>>, b)[1] = a /\ Append(<<a>>, b)[2] = b
        BY <1>1
    <2>3. \A i \in 1..2 : Append(<<a>>, b)[i] = <<a, b>>[i]
        <3>1. \A i \in 1..2 : i = 1 \/ i = 2
            OBVIOUS
        <3> QED  BY <2>2, <3>1
    <2> QED  BY <1>1, <2>1, <2>3, SeqEqual
<1> QED  BY <1>1, <1>2, ConcatOne

\* A text that is not empty is a shorter one and a last symbol.
LEMMA LastSymbol ==
    ASSUME NEW S, NEW n \in Nat, NEW s \in Seq(S), Len(s) = n + 1
    PROVE  \E f \in Seq(S), x \in S : Len(f) = n /\ s = Append(f, x)
<1> DEFINE f == [i \in 1..n |-> s[i]]
           x == s[n + 1]
<1>1. x \in S /\ \A i \in 1..n : s[i] \in S
    OBVIOUS
<1>2. f \in Seq(S) /\ Len(f) = n
    BY <1>1
<1>3. Append(f, x) \in Seq(S) /\ Len(Append(f, x)) = n + 1
    BY <1>1, <1>2
<1>4. \A i \in 1..(n + 1) : Append(f, x)[i] = s[i]
    BY <1>1, <1>2
<1>5. Append(f, x) = s
    BY <1>3, <1>4, SeqEqual
<1> QED  BY <1>1, <1>2, <1>5

\* What _escape should put for the symbol x.
EscapedSymbol(x) == IF x \in {Quote, Backslash} THEN <<Backslash, x>> ELSE <<x>>

\* _escape works symbol by symbol: no symbol is escaped twice.
LEMMA EscapeAppend ==
    ASSUME NEW S, Quote \in S, Backslash \in S
    PROVE  /\ Escape(<<>>) = <<>>
           /\ \A s \in Seq(S) : Escape(s) \in Seq(S)
           /\ \A s \in Seq(S), x \in S : Escape(Append(s, x)) = Escape(s) \o EscapedSymbol(x)
<1> DEFINE BB == <<Backslash, Backslash>>
           BQ == <<Backslash, Quote>>
<1>1. BB \in Seq(S) /\ BQ \in Seq(S)
    OBVIOUS
<1>2. Quote # Backslash
    BY DEF Quote, Backslash
<1>3. \A s : Escape(s) = Replace(Replace(s, Backslash, BB), Quote, BQ)
    BY DEF Escape
<1> HIDE DEF BB, BQ
<1>4. Escape(<<>>) = <<>>
    BY <1>1, <1>3, ReplaceType
<1>5. ASSUME NEW s \in Seq(S) PROVE Escape(s) \in Seq(S)
    BY <1>1, <1>3, ReplaceType
<1>6. ASSUME NEW s \in Seq(S), NEW x \in S
      PROVE  Escape(Append(s, x)) = Escape(s) \o EscapedSymbol(x)
    <2> DEFINE r == Replace(s, Backslash, BB)
    <2>1. r \in Seq(S)
        BY <1>1, ReplaceType
    <2>2. Replace(Append(s, x), Backslash, BB) = r \o Replaced(x, Backslash, BB)
        BY <1>1, ReplaceAppend
    <2>3. Escape(s) = Replace(r, Quote, BQ) /\ Escape(s) \in Seq(S)
        BY <1>3, <1>5
    <2>4. \A w \in Seq(S), y \in S :
              Replace(Append(w, y), Quote, BQ) = Replace(w, Quote, BQ) \o Replaced(y, Quote, BQ)
        BY <1>1, ReplaceAppend
    <2>5. Escape(Append(s, x)) = Replace(Replace(Append(s, x), Backslash, BB), Quote, BQ)
        BY <1>3
    <2> HIDE DEF r
    <2>6. CASE x = Backslash
        <3>1. r \o BB = Append(Append(r, Backslash), Backslash) /\ Append(r, Backslash) \in Seq(S)
            BY <2>1 DEF BB
        <3>2. Replaced(Backslash, Quote, BQ) = <<Backslash>> /\ Replaced(x, Backslash, BB) = BB
            BY <1>2, <2>6 DEF Replaced
        <3>3. Replace(Append(r, Backslash), Quote, BQ) = Escape(s) \o <<Backslash>>
            BY <2>1, <2>3, <2>4, <3>2
        <3>4. Replace(r \o BB, Quote, BQ) = (Escape(s) \o <<Backslash>>) \o <<Backslash>>
            BY <2>4, <3>1, <3>2, <3>3
        <3>5. (Escape(s) \o <<Backslash>>) \o <<Backslash>> = Escape(s) \o BB
            BY <2>3 DEF BB
        <3>6. EscapedSymbol(x) = BB
            BY <2>6 DEF EscapedSymbol, BB
        <3> QED  BY <2>2, <2>5, <3>2, <3>4, <3>5, <3>6
    <2>7. CASE x # Backslash
        <3>1. Replaced(x, Backslash, BB) = <<x>>
            BY <2>7 DEF Replaced
        <3>2. Replace(Append(s, x), Backslash, BB) = Append(r, x)
            BY <2>1, <2>2, <3>1, ConcatOne
        <3>3. Escape(Append(s, x)) = Escape(s) \o Replaced(x, Quote, BQ)
            BY <2>1, <2>3, <2>4, <2>5, <3>2
        <3>4. Replaced(x, Quote, BQ) = EscapedSymbol(x)
            BY <2>7 DEF EscapedSymbol, Replaced, BQ
        <3> QED  BY <3>3, <3>4
    <2> QED  BY <2>6, <2>7
<1> QED  BY <1>4, <1>5, <1>6

\* A state of the reader, by its parts.
State(mode, text, tokens) == [mode |-> mode, text |-> text, tokens |-> tokens]

\* What one symbol does to the state of the reader.
LEMMA ReadSymbolIs ==
    ASSUME NEW text, NEW tokens
    PROVE  /\ ReadSymbol(State("word", text, tokens), Quote) = State("literal", <<>>, tokens)
           /\ \A c : c # Quote => ReadSymbol(State("word", text, tokens), c)
                                   = State("word", text, Append(tokens, Word(c)))
           /\ ReadSymbol(State("literal", text, tokens), Backslash) = State("escaped", text, tokens)
           /\ ReadSymbol(State("literal", text, tokens), Quote)
                = State("word", text, Append(tokens, Literal(text)))
           /\ \A c : c \notin {Quote, Backslash} =>
                ReadSymbol(State("literal", text, tokens), c) = State("literal", Append(text, c), tokens)
           /\ \A c : ReadSymbol(State("escaped", text, tokens), c)
                     = State("literal", Append(text, c), tokens)
<1> USE DEF ReadSymbol, State
<1>0. Quote # Backslash
    BY DEF Quote, Backslash
<1>1. ReadSymbol(State("word", text, tokens), Quote) = State("literal", <<>>, tokens)
    OBVIOUS
<1>2. ASSUME NEW c, c # Quote
      PROVE  ReadSymbol(State("word", text, tokens), c) = State("word", text, Append(tokens, Word(c)))
    BY <1>2
<1>3. ReadSymbol(State("literal", text, tokens), Backslash) = State("escaped", text, tokens)
    BY <1>0
<1>4. ReadSymbol(State("literal", text, tokens), Quote)
          = State("word", text, Append(tokens, Literal(text)))
    BY <1>0
<1>5. ASSUME NEW c, c \notin {Quote, Backslash}
      PROVE  ReadSymbol(State("literal", text, tokens), c) = State("literal", Append(text, c), tokens)
    BY <1>5
<1>6. ASSUME NEW c
      PROVE  ReadSymbol(State("escaped", text, tokens), c) = State("literal", Append(text, c), tokens)
    OBVIOUS
<1> HIDE DEF ReadSymbol, State
<1> QED  BY <1>1, <1>2, <1>3, <1>4, <1>5, <1>6

\* Inside a literal, an escaped symbol is read as that symbol.
LEMMA ReadEscapedSymbol ==
    ASSUME NEW S, Quote \in S, Backslash \in S,
           NEW q \in Seq(S), NEW s \in Seq(S), NEW ts, NEW x \in S,
           Read(q) = State("literal", s, ts)
    PROVE  Read(q \o EscapedSymbol(x)) = State("literal", Append(s, x), ts)
<1>1. CASE x \in {Quote, Backslash}
    <2>1. q \o EscapedSymbol(x) = Append(Append(q, Backslash), x) /\ Append(q, Backslash) \in Seq(S)
        BY <1>1 DEF EscapedSymbol
    <2>2. Read(Append(q, Backslash)) = State("escaped", s, ts)
        BY ReadAppend, ReadSymbolIs
    <2>3. Read(Append(Append(q, Backslash), x)) = ReadSymbol(Read(Append(q, Backslash)), x)
        BY <2>1, ReadAppend
    <2> QED  BY <2>1, <2>2, <2>3, ReadSymbolIs
<1>2. CASE x \notin {Quote, Backslash}
    <2>1. q \o EscapedSymbol(x) = Append(q, x)
        BY <1>2 DEF EscapedSymbol
    <2>2. Read(Append(q, x)) = ReadSymbol(Read(q), x)
        BY ReadAppend
    <2> QED  BY <1>2, <2>1, <2>2, ReadSymbolIs
<1> QED  BY <1>1, <1>2

\* The step of the induction over the text of a literal.
LEMMA ReadInLiteralStep ==
    ASSUME NEW S, Quote \in S, Backslash \in S,
           NEW q \in Seq(S), NEW ts, NEW s \in Seq(S), NEW x \in S,
           Read(q \o Escape(s)) = State("literal", s, ts)
    PROVE  Read(q \o Escape(Append(s, x))) = State("literal", Append(s, x), ts)
<1> DEFINE e == Escape(s)
           y == EscapedSymbol(x)
<1>1. e \in Seq(S) /\ Escape(Append(s, x)) = e \o y
    BY EscapeAppend
<1>2. y \in Seq(S)
    BY DEF EscapedSymbol
<1> HIDE DEF e, y
<1>3. (q \o e) \o y = q \o (e \o y)
    BY <1>1, <1>2, ConcatAssociative
<1>4. q \o e \in Seq(S)
    BY <1>1, ConcatProperties
<1>5. Read(q \o e) = State("literal", s, ts)
    BY DEF e
<1> DEFINE r == q \o e
<1> HIDE DEF r
<1>6. r \in Seq(S) /\ Read(r) = State("literal", s, ts)
    BY <1>4, <1>5 DEF r
<1>7. Read(r \o y) = State("literal", Append(s, x), ts)
    BY <1>6, ReadEscapedSymbol DEF y
<1> QED  BY <1>1, <1>3, <1>7 DEF r

\* A literal is read up to where its text ends, and no further.
LEMMA ReadInLiteral ==
    ASSUME NEW S, Quote \in S, Backslash \in S,
           NEW q \in Seq(S), NEW ts, Read(q) = State("literal", <<>>, ts)
    PROVE  \A s \in Seq(S) : Read(q \o Escape(s)) = State("literal", s, ts)
<1> DEFINE P(s) == Read(q \o Escape(s)) = State("literal", s, ts)
           T == {n \in Nat : \A s \in Seq(S) : Len(s) = n => P(s)}
<1>1. 0 \in T
    <2>1. \A s \in Seq(S) : Len(s) = 0 => s = <<>>
        OBVIOUS
    <2>2. q \o Escape(<<>>) = q
        BY EscapeAppend
    <2>3. P(<<>>)
        BY <2>2
    <2> HIDE DEF P
    <2> QED  BY <2>1, <2>3
<1>2. ASSUME NEW n \in T PROVE n + 1 \in T
    <2>1. n \in Nat /\ \A s \in Seq(S) : Len(s) = n => P(s)
        OBVIOUS
    <2>2. ASSUME NEW s \in Seq(S), Len(s) = n + 1 PROVE P(s)
        <3>1. PICK f \in Seq(S), x \in S : Len(f) = n /\ s = Append(f, x)
            <4> HIDE DEF P, T
            <4> QED  BY <2>1, <2>2, LastSymbol
        <3>2. Read(q \o Escape(f)) = State("literal", f, ts)
            BY <2>1, <3>1
        <3>3. Read(q \o Escape(Append(f, x))) = State("literal", Append(f, x), ts)
            BY <3>2, ReadInLiteralStep
        <3> QED  BY <3>1, <3>3
    <2> HIDE DEF P
    <2> QED  BY <2>1, <2>2
<1>3. T = Nat
    <2>1. T \subseteq Nat
        OBVIOUS
    <2> HIDE DEF T
    <2> QED  BY <1>1, <1>2, <2>1, NatSetInduction
<1> QED
    <2> HIDE DEF P
    <2>1. \A s \in Seq(S) : Len(s) \in Nat /\ P(s)
        BY <1>3
    <2> QED  BY <2>1 DEF P

\* The reader has read the tokens ts and is not within a literal.
HasRead(q, ts) == Read(q).mode = "word" /\ Read(q).tokens = ts

\* Wherever the text q follows complete tokens, it is read as the tokens ts.
Reads(S, q, ts) ==
    /\ q \in Seq(S)
    /\ ts \in Seq(Tokens(S))
    /\ q = <<>> <=> ts = <<>>
    /\ \A p \in Seq(S), us \in Seq(Tokens(S)) : HasRead(p, us) => HasRead(p \o q, us \o ts)

\* HasRead in terms of the reader's state, in both directions.
LEMMA HasReadState ==
    ASSUME NEW S, NEW q \in Seq(S), NEW ts, HasRead(q, ts)
    PROVE  \E text \in Seq(S) : Read(q) = State("word", text, ts)
<1>1. Read(q) \in States(S)
    BY ReadAppend
<1>2. Read(q) = State("word", Read(q).text, ts) /\ Read(q).text \in Seq(S)
    BY <1>1 DEF States, HasRead, State
<1> QED  BY <1>2

LEMMA StateHasRead ==
    ASSUME NEW q, NEW text, NEW ts, Read(q) = State("word", text, ts)
    PROVE  HasRead(q, ts)
BY DEF HasRead, State

\* No clause is read as no tokens.
LEMMA ReadsNothing ==
    ASSUME NEW S
    PROVE  Reads(S, <<>>, <<>>)
<1>1. \A p \in Seq(S), us \in Seq(Tokens(S)) : p \o <<>> = p /\ us \o <<>> = us
    OBVIOUS
<1> QED  BY <1>1 DEF Reads

\* A word of the language is read as that word.
LEMMA ReadsWord ==
    ASSUME NEW S, NEW c \in S, c # Quote
    PROVE  Reads(S, <<c>>, <<Word(c)>>)
<1>1. Word(c) \in Tokens(S)
    BY DEF Word, Tokens
<1>2. ASSUME NEW p \in Seq(S), NEW us \in Seq(Tokens(S)), HasRead(p, us)
      PROVE  HasRead(p \o <<c>>, us \o <<Word(c)>>)
    <2>1. PICK text \in Seq(S) : Read(p) = State("word", text, us)
        BY <1>2, HasReadState
    <2>2. Read(Append(p, c)) = State("word", text, Append(us, Word(c)))
        BY <2>1, ReadAppend, ReadSymbolIs
    <2>3. p \o <<c>> = Append(p, c) /\ us \o <<Word(c)>> = Append(us, Word(c))
        BY <1>1, ConcatOne
    <2> QED  BY <2>2, <2>3, StateHasRead
<1>3. <<c>> \in Seq(S) /\ <<c>> # <<>> /\ <<Word(c)>> \in Seq(Tokens(S)) /\ <<Word(c)>> # <<>>
    BY <1>1
<1> QED  BY <1>2, <1>3 DEF Reads

\* A quoted text is read as the literal it was, whatever its symbols.
LEMMA ReadsLiteral ==
    ASSUME NEW S, Quote \in S, Backslash \in S, NEW s \in Seq(S)
    PROVE  Reads(S, Quoted(Escape(s)), <<Literal(s)>>)
<1>1. Literal(s) \in Tokens(S) /\ Escape(s) \in Seq(S)
    BY EscapeAppend DEF Literal, Tokens
<1>2. Quoted(Escape(s)) \in Seq(S) /\ Quoted(Escape(s)) # <<>>
    <2> DEFINE e == Escape(s)
    <2> HIDE DEF e
    <2>1. e \in Seq(S)
        BY <1>1 DEF e
    <2>2. Quoted(e) \in Seq(S) /\ Len(Quoted(e)) = Len(e) + 2 /\ Len(e) \in Nat
        BY <2>1 DEF Quoted
    <2>3. Quoted(e) # <<>>
        BY <2>2
    <2> QED  BY <2>2, <2>3 DEF e
<1>3. <<Literal(s)>> \in Seq(Tokens(S)) /\ <<Literal(s)>> # <<>>
    BY <1>1
<1>4. ASSUME NEW p \in Seq(S), NEW us \in Seq(Tokens(S)), HasRead(p, us)
      PROVE  HasRead(p \o Quoted(Escape(s)), us \o <<Literal(s)>>)
    <2> DEFINE q == Append(p, Quote)
               r == q \o Escape(s)
    <2>1. q \in Seq(S)
        OBVIOUS
    <2>2. PICK text \in Seq(S) : Read(p) = State("word", text, us)
        BY <1>4, HasReadState
    <2>3. Read(q) = State("literal", <<>>, us)
        BY <2>2, ReadAppend, ReadSymbolIs
    <2>4. p \o Quoted(Escape(s)) = Append(r, Quote)
        <3> DEFINE e == Escape(s)
        <3> HIDE DEF e
        <3>1. e \in Seq(S)
            BY <1>1 DEF e
        <3>2. p \o (<<Quote>> \o e \o <<Quote>>) = Append(Append(p, Quote) \o e, Quote)
            BY <3>1
        <3> QED  BY <3>2 DEF e, Quoted
    <2> HIDE DEF q
    <2>5. r \in Seq(S)
        BY <1>1, <2>1, ConcatProperties
    <2>6. Read(r) = State("literal", s, us)
        BY <2>1, <2>3, ReadInLiteral
    <2> HIDE DEF r
    <2>7. Read(Append(r, Quote)) = State("word", s, Append(us, Literal(s)))
        BY <2>5, <2>6, ReadAppend, ReadSymbolIs
    <2>8. us \o <<Literal(s)>> = Append(us, Literal(s))
        BY <1>1, ConcatOne
    <2> QED  BY <2>4, <2>7, <2>8, StateHasRead
<1> QED  BY <1>2, <1>3, <1>4 DEF Reads

\* Two pieces are read one after the other.
LEMMA ReadsConcat ==
    ASSUME NEW S, NEW q, NEW r, NEW ts, NEW us, Reads(S, q, ts), Reads(S, r, us)
    PROVE  Reads(S, q \o r, ts \o us)
<1>1. q \in Seq(S) /\ r \in Seq(S) /\ ts \in Seq(Tokens(S)) /\ us \in Seq(Tokens(S))
    BY DEF Reads
<1>2. q \o r \in Seq(S) /\ ts \o us \in Seq(Tokens(S))
    BY <1>1, ConcatProperties
<1>3. q \o r = <<>> <=> ts \o us = <<>>
    BY <1>1, ConcatEqualIffEmpty DEF Reads
<1>4. ASSUME NEW p \in Seq(S), NEW vs \in Seq(Tokens(S)), HasRead(p, vs)
      PROVE  HasRead(p \o (q \o r), vs \o (ts \o us))
    <2>1. HasRead(p \o q, vs \o ts)
        BY <1>4 DEF Reads
    <2>2. p \o q \in Seq(S) /\ vs \o ts \in Seq(Tokens(S))
        BY <1>1, ConcatProperties
    <2>3. HasRead((p \o q) \o r, (vs \o ts) \o us)
        BY <2>1, <2>2 DEF Reads
    <2>4. (p \o q) \o r = p \o (q \o r)
        BY <1>1, ConcatAssociative
    <2>5. (vs \o ts) \o us = vs \o (ts \o us)
        <3> DEFINE K == Tokens(S)
        <3>1. vs \in Seq(K) /\ ts \in Seq(K) /\ us \in Seq(K)
            BY <1>1
        <3> HIDE DEF K
        <3> QED  BY <3>1, ConcatAssociative
    <2> QED  BY <2>3, <2>4, <2>5
<1> QED  BY <1>2, <1>3, <1>4 DEF Reads

\* A clause that may be absent.
LEMMA ReadsClause ==
    ASSUME NEW S, NEW given \in BOOLEAN, NEW q, NEW ts, given => Reads(S, q, ts)
    PROVE  Reads(S, Clause(given, q), Clause(given, ts))
BY ReadsNothing DEF Clause

\* The clauses joined by " and ".
LEMMA ReadsAnd ==
    ASSUME NEW S, " and " \in S, NEW q, NEW r, NEW ts, NEW us,
           Reads(S, q, ts), Reads(S, r, us)
    PROVE  Reads(S, And(q, r), AndTokens(ts, us))
<1>1. (q = <<>> <=> ts = <<>>) /\ (r = <<>> <=> us = <<>>)
    BY DEF Reads
<1>2. Reads(S, q \o r, ts \o us)
    BY ReadsConcat
<1>3. Reads(S, <<" and ">>, <<Word(" and ")>>)
    BY ReadsWord DEF Quote
<1>4. Reads(S, (q \o <<" and ">>) \o r, (ts \o <<Word(" and ")>>) \o us)
    BY <1>3, ReadsConcat
<1> QED  BY <1>1, <1>2, <1>4 DEF And, AndTokens

-----------------------------------------------------------------------------
\* The symbols that build_drive_query itself puts into a query.
Language ==
    {Quote, Backslash, " and ", "name contains ", "fullText contains ", "mimeType = ",
     " in parents", "modifiedTime > ", "date", "T00:00:00", "trashed = false"}

\* _escape leaves the date of modified_after as it is; the code does not apply it.
LEMMA DateIsEscaped ==
    ASSUME NEW S, Language \subseteq S
    PROVE  Escape(<<"date", "T00:00:00">>) = <<"date", "T00:00:00">>
<1>1. Quote \in S /\ Backslash \in S /\ "date" \in S /\ "T00:00:00" \in S
    BY DEF Language
<1>2. EscapedSymbol("date") = <<"date">> /\ EscapedSymbol("T00:00:00") = <<"T00:00:00">>
    BY DEF EscapedSymbol, Quote, Backslash
<1>3. <<>> \in Seq(S) /\ Append(<<>>, "date") = <<"date">> /\ <<>> \o <<"date">> = <<"date">>
    OBVIOUS
<1>4. Escape(<<"date">>) = <<"date">>
    BY <1>1, <1>2, <1>3, EscapeAppend
<1>5. /\ <<"date">> \in Seq(S)
      /\ Append(<<"date">>, "T00:00:00") = <<"date", "T00:00:00">>
      /\ <<"date">> \o <<"T00:00:00">> = <<"date", "T00:00:00">>
    BY <1>1, Pair
<1> QED  BY <1>1, <1>2, <1>4, <1>5, EscapeAppend

\* A clause with a word and a literal, in either order.
LEMMA ReadsPair ==
    ASSUME NEW S, Language \subseteq S, NEW w \in S, w # Quote, NEW s \in Seq(S)
    PROVE  /\ Reads(S, <<w>> \o Quoted(Escape(s)), <<Word(w), Literal(s)>>)
           /\ Reads(S, Quoted(Escape(s)) \o <<w>>, <<Literal(s), Word(w)>>)
<1>1. Reads(S, <<w>>, <<Word(w)>>)
    BY ReadsWord
<1>2. Reads(S, Quoted(Escape(s)), <<Literal(s)>>)
    BY ReadsLiteral DEF Language
<1>3. Reads(S, <<w>> \o Quoted(Escape(s)), <<Word(w)>> \o <<Literal(s)>>)
    BY <1>1, <1>2, ReadsConcat
<1>4. Reads(S, Quoted(Escape(s)) \o <<w>>, <<Literal(s)>> \o <<Word(w)>>)
    BY <1>1, <1>2, ReadsConcat
<1>5. Word(w) \in Tokens(S) /\ Literal(s) \in Tokens(S)
    BY DEF Word, Literal, Tokens
<1>6. /\ <<Word(w)>> \o <<Literal(s)>> = <<Word(w), Literal(s)>>
      /\ <<Literal(s)>> \o <<Word(w)>> = <<Literal(s), Word(w)>>
    BY <1>5, Pair
<1> QED  BY <1>3, <1>4, <1>6

\* build_drive_query, for texts of any length over any symbols: Drive reads the
\* query as the question its filters ask. Every literal comes back as the caller
\* gave it, and no symbol of a literal becomes part of the query.
THEOREM QueriesAskTheirFilters ==
    ASSUME NEW S, NEW f \in Filters(Seq(S), Seq(S), Seq(S), Seq(S))
    PROVE  AsksItsFilters(f)
<1> DEFINE A == S \union Language
<1>1. Language \subseteq A /\ S \subseteq A
    OBVIOUS
<1>2. /\ f.name_contains \in Seq(S) /\ f.full_text \in Seq(S)
      /\ f.mime_type \in Seq(S) /\ f.in_folder \in Seq(S)
      /\ f.modified_after \in BOOLEAN /\ f.include_trashed \in BOOLEAN
    BY DEF Filters
<1> HIDE DEF A
<1>3. /\ f.name_contains \in Seq(A) /\ f.full_text \in Seq(A)
      /\ f.mime_type \in Seq(A) /\ f.in_folder \in Seq(A)
    BY <1>1, <1>2, SeqMonotonic
<1>4. " and " \in A /\ "trashed = false" \in A /\ <<"date", "T00:00:00">> \in Seq(A)
    <2>1. " and " \in A /\ "trashed = false" \in A /\ "date" \in A /\ "T00:00:00" \in A
        BY <1>1 DEF Language
    <2> QED  BY <2>1, Pair
<1> DEFINE contains(w, s) == Clause(s # <<>>, <<w>> \o Quoted(Escape(s)))
           means(w, s) == Clause(s # <<>>, <<Word(w), Literal(s)>>)
<1>5. ASSUME NEW w \in {"name contains ", "fullText contains ", "mimeType = "}, NEW s \in Seq(A)
      PROVE  Reads(A, contains(w, s), means(w, s))
    <2>1. w \in A /\ w # Quote
        BY <1>1 DEF Language, Quote
    <2>2. Reads(A, <<w>> \o Quoted(Escape(s)), <<Word(w), Literal(s)>>)
        BY <1>1, <2>1, ReadsPair
    <2> QED  BY <2>2, ReadsClause
<1> DEFINE name == contains("name contains ", f.name_contains)
           nameM == means("name contains ", f.name_contains)
           text == contains("fullText contains ", f.full_text)
           textM == means("fullText contains ", f.full_text)
           mime == contains("mimeType = ", f.mime_type)
           mimeM == means("mimeType = ", f.mime_type)
           folder == Clause(f.in_folder # <<>>, Quoted(Escape(f.in_folder)) \o <<" in parents">>)
           folderM == Clause(f.in_folder # <<>>, <<Literal(f.in_folder), Word(" in parents")>>)
           after == Clause(f.modified_after,
                           <<"modifiedTime > ">> \o Quoted(<<"date", "T00:00:00">>))
           afterM == Clause(f.modified_after,
                            <<Word("modifiedTime > "), Literal(<<"date", "T00:00:00">>)>>)
           trashed == Clause(~f.include_trashed, <<"trashed = false">>)
           trashedM == Clause(~f.include_trashed, <<Word("trashed = false")>>)
<1>6. Reads(A, name, nameM) /\ Reads(A, text, textM) /\ Reads(A, mime, mimeM)
    <2> HIDE DEF contains, means
    <2> QED  BY <1>3, <1>5
<1>7. Reads(A, folder, folderM)
    <2>1. " in parents" \in A /\ " in parents" # Quote
        BY <1>1 DEF Language, Quote
    <2>2. Reads(A, Quoted(Escape(f.in_folder)) \o <<" in parents">>,
                <<Literal(f.in_folder), Word(" in parents")>>)
        BY <1>1, <1>3, <2>1, ReadsPair
    <2> QED  BY <2>2, ReadsClause
<1>8. Reads(A, after, afterM)
    <2>1. "modifiedTime > " \in A /\ "modifiedTime > " # Quote
        BY <1>1 DEF Language, Quote
    <2>2. Reads(A, <<"modifiedTime > ">> \o Quoted(Escape(<<"date", "T00:00:00">>)),
                <<Word("modifiedTime > "), Literal(<<"date", "T00:00:00">>)>>)
        BY <1>1, <1>4, <2>1, ReadsPair
    <2>3. Reads(A, <<"modifiedTime > ">> \o Quoted(<<"date", "T00:00:00">>),
                <<Word("modifiedTime > "), Literal(<<"date", "T00:00:00">>)>>)
        BY <1>1, <2>2, DateIsEscaped
    <2> QED  BY <1>2, <2>3, ReadsClause
<1>9. Reads(A, trashed, trashedM)
    <2>1. Reads(A, <<"trashed = false">>, <<Word("trashed = false")>>)
        BY <1>4, ReadsWord DEF Quote
    <2> QED  BY <2>1, ReadsClause
<1>10. /\ Build(f) = And(And(And(And(And(name, text), mime), folder), after), trashed)
       /\ Meaning(f) = AndTokens(AndTokens(AndTokens(AndTokens(AndTokens(
                            nameM, textM), mimeM), folderM), afterM), trashedM)
    BY DEF Build, Meaning
<1> HIDE DEF name, nameM, text, textM, mime, mimeM, folder, folderM, after, afterM, trashed, trashedM
<1>11. Reads(A, And(name, text), AndTokens(nameM, textM))
    BY <1>4, <1>6, ReadsAnd
<1>12. Reads(A, And(And(name, text), mime), AndTokens(AndTokens(nameM, textM), mimeM))
    BY <1>4, <1>6, <1>11, ReadsAnd
<1>13. Reads(A, And(And(And(name, text), mime), folder),
             AndTokens(AndTokens(AndTokens(nameM, textM), mimeM), folderM))
    BY <1>4, <1>7, <1>12, ReadsAnd
<1>14. Reads(A, And(And(And(And(name, text), mime), folder), after),
             AndTokens(AndTokens(AndTokens(AndTokens(nameM, textM), mimeM), folderM), afterM))
    BY <1>4, <1>8, <1>13, ReadsAnd
<1>15. Reads(A, Build(f), Meaning(f))
    BY <1>4, <1>9, <1>10, <1>14, ReadsAnd
<1>16. HasRead(<<>>, <<>>) /\ <<>> \in Seq(A) /\ <<>> \in Seq(Tokens(A))
    BY ReadAppend DEF HasRead, Start
<1>17. HasRead(<<>> \o Build(f), <<>> \o Meaning(f))
    BY <1>15, <1>16 DEF Reads
<1>18. <<>> \o Build(f) = Build(f) /\ <<>> \o Meaning(f) = Meaning(f)
    BY <1>15, ConcatEmptySeq DEF Reads
<1> QED  BY <1>17, <1>18 DEF HasRead, AsksItsFilters

\* The texts that TLC enumerates are texts.
LEMMA TextsAreSequences == \A n \in Nat : Texts(n) \subseteq Seq(Symbols)
<1> SUFFICES ASSUME NEW n \in Nat, NEW s \in Texts(n) PROVE s \in Seq(Symbols)
    OBVIOUS
<1>1. PICK k \in 0..n : s \in [1..k -> Symbols]
    BY DEF Texts
<1> HIDE DEF Symbols
<1> QED  BY <1>1

\* A search on its way to Drive asks what its caller meant, for any bounds on the
\* texts: handle_drive_search_files sends what build_drive_query composed.
THEOREM SearchesAskTheirFilters == Spec => []SearchAsksItsFilters
<1>1. QueryMeansFilters
    <2>1. /\ {<<>>, <<Quote>>} \subseteq Seq(Symbols)
          /\ {<<>>, <<Backslash>>} \subseteq Seq(Symbols)
          /\ {<<>>} \subseteq Seq(Symbols)
        BY DEF Symbols
    <2>2. Texts(MaxShort) \subseteq Seq(Symbols) /\ Texts(MaxLong) \subseteq Seq(Symbols)
        BY TextsAreSequences, TextsAssumption
    <2> DEFINE A == Seq(Symbols)
    <2>3. ASSUME NEW names \in SUBSET A, NEW texts \in SUBSET A,
                 NEW types \in SUBSET A, NEW folders \in SUBSET A
          PROVE  Filters(names, texts, types, folders) \subseteq Filters(A, A, A, A)
        <3> HIDE DEF A
        <3> QED  BY DEF Filters
    <2>4. \A f \in Filters(A, A, A, A) : AsksItsFilters(f)
        BY QueriesAskTheirFilters
    <2> HIDE DEF A
    <2> QED  BY <2>1, <2>2, <2>3, <2>4 DEF QueryMeansFilters, A
<1>2. SearchAsksItsFilters
    BY <1>1 DEF SearchAsksItsFilters
<1> QED  BY <1>2, PTL
=============================================================================
