------------------------- MODULE EventStore_proofs -------------------------
(***************************************************************************)
(* The event store for any limits and any number of streams, events and    *)
(* replays: the index is what the deques hold, the limits are kept, and a  *)
(* replay sends exactly what followed its event.                           *)
(***************************************************************************)
EXTENDS EventStore, SequenceTheorems, TLAPS

\* Where history puts an event that is not stored yet.
Nowhere == CHOOSE s \in Streams : TRUE

\* The values the store's variables take.
StoreTypeOK ==
    /\ last \in 0..MaxEvents
    /\ home \in [Events -> Streams \union {Nowhere}]
    /\ \A i \in 1..last : home[i] \in Streams
    /\ textual \subseteq 1..last
    /\ order \in Seq(Streams)
    /\ deq \in [Streams -> Seq(Nat)]

\* A deque holds stored events of its own stream, oldest first,
Sorted(s) ==
    /\ \A k \in 1..Len(deq[s]) : deq[s][k] \in 1..last /\ home[deq[s][k]] = s
    /\ \A j, k \in 1..Len(deq[s]) : j < k => deq[s][j] < deq[s][k]

\* and none is missing from its oldest one on.
Gapless(s) ==
    \A i \in 1..last : home[i] = s /\ deq[s] # <<>> /\ deq[s][1] <= i =>
        \E k \in 1..Len(deq[s]) : deq[s][k] = i

StoreInv ==
    /\ StoreTypeOK
    /\ \A s \in Streams : Sorted(s) /\ Gapless(s)
    /\ WithinLimits
    /\ IndexIsDeques

\* What a replay has to send, as in ReplayIsExact.
Due(r) == {i \in textual : from[r] < i /\ i <= until[r] /\ home[i] = home[from[r]]}

\* Before it starts, a replay has sent nothing and iterates over nothing.
Idle(r) == from[r] = 0 /\ until[r] = 0 /\ got[r] = <<>> /\ iter[r] = "stored"

\* The deque it walks over is sorted and holds all it has to send; what precedes
\* the message it awaits the callback of was sent, and nothing else. As long as the iterator does
\* not say otherwise, it is the deque that is stored; and it was modified only by
\* a further event of its stream.
Walking(r) ==
    /\ at[r] \in 1..Len(walk[r])
    /\ walk[r][at[r]] \in textual
    /\ from[r] < walk[r][at[r]]
    /\ \A k \in 1..Len(walk[r]) : walk[r][k] \in 1..until[r] /\ home[walk[r][k]] = home[from[r]]
    /\ \A j, k \in 1..Len(walk[r]) : j < k => walk[r][j] < walk[r][k]
    /\ \A i \in Due(r) : \E k \in 1..Len(walk[r]) : walk[r][k] = i
    /\ \A i \in Due(r) : i < walk[r][at[r]] => \E m \in 1..Len(got[r]) : got[r][m] = i
    /\ \A m \in 1..Len(got[r]) : got[r][m] < walk[r][at[r]]
    /\ iter[r] = "stored" => walk[r] = deq[home[from[r]]]
    /\ iter[r] = "modified" => Log!Overtaken(r)

\* What was sent was due, and everything due before it was sent before it.
SentInOrder(r) ==
    /\ \A k \in 1..Len(got[r]) : got[r][k] \in Due(r)
    /\ \A k \in 1..Len(got[r]) : \A i \in Due(r) : i <= got[r][k] => \E m \in 1..k : got[r][m] = i

\* All of it was sent.
SentAll(r) == \A i \in Due(r) : \E m \in 1..Len(got[r]) : got[r][m] = i

ReplayInv(r) ==
    /\ until[r] <= last
    /\ pc[r] = "idle" => Idle(r)
    /\ pc[r] # "idle" => from[r] \in 1..last
    /\ pc[r] = "sending" => Walking(r)
    /\ pc[r] = "done" => SentAll(r)
    /\ SentInOrder(r)

ReplayTypeOK ==
    /\ pc \in [Readers -> {"idle", "sending", "done", "failed"}]
    /\ from \in [Readers -> Nat]
    /\ until \in [Readers -> Nat]
    /\ walk \in [Readers -> Seq(Nat)]
    /\ at \in [Readers -> Nat]
    /\ iter \in [Readers -> {"stored", "modified", "evicted"}]
    /\ got \in [Readers -> Seq(Nat)]

Inv == StoreInv /\ ReplayTypeOK /\ \A r \in Readers : ReplayInv(r)

-----------------------------------------------------------------------------
(* Sequences: what append and popleft do to positions and to ranges.       *)

\* A sequence and its range.
LEMMA InRange ==
    ASSUME NEW S, NEW d \in Seq(S)
    PROVE  \A x : x \in Range(d) <=> \E k \in 1..Len(d) : d[k] = x
<1>1. DOMAIN d = 1..Len(d)
    BY LenProperties
<1> QED  BY <1>1 DEF Range

\* The length and the elements of a sequence.
LEMMA Elements ==
    ASSUME NEW S, NEW d \in Seq(S)
    PROVE  Len(d) \in Nat /\ (d = <<>> <=> Len(d) = 0) /\ \A k \in 1..Len(d) : d[k] \in S
BY LenProperties, EmptySeq

\* Appending adds one position at the end.
LEMMA Appended ==
    ASSUME NEW S, NEW d \in Seq(S), NEW x \in S
    PROVE  /\ Append(d, x) \in Seq(S)
           /\ Len(Append(d, x)) = Len(d) + 1
           /\ \A k \in 1..Len(d) : Append(d, x)[k] = d[k]
           /\ Append(d, x)[Len(d) + 1] = x
           /\ Range(Append(d, x)) = Range(d) \union {x}
<1>1. /\ Append(d, x) \in Seq(S) /\ Len(Append(d, x)) = Len(d) + 1 /\ Len(d) \in Nat
      /\ \A k \in 1..Len(d) : Append(d, x)[k] = d[k]
      /\ Append(d, x)[Len(d) + 1] = x
    BY AppendProperties, LenProperties
<1>2. ASSUME NEW y PROVE y \in Range(Append(d, x)) <=> y \in Range(d) \union {x}
    <2>1. y \in Range(Append(d, x)) <=> \E k \in 1..Len(Append(d, x)) : Append(d, x)[k] = y
        BY <1>1, InRange
    <2>2. y \in Range(d) <=> \E k \in 1..Len(d) : d[k] = y
        BY InRange
    <2> QED  BY <1>1, <2>1, <2>2
<1> QED  BY <1>1, <1>2

\* Taking the head off shifts the positions by one.
LEMMA Shifted ==
    ASSUME NEW S, NEW d \in Seq(S), d # <<>>
    PROVE  /\ Tail(d) \in Seq(S)
           /\ Len(Tail(d)) = Len(d) - 1
           /\ \A k \in 1..(Len(d) - 1) : Tail(d)[k] = d[k + 1]
           /\ Head(d) = d[1]
           /\ Range(d) = Range(Tail(d)) \union {d[1]}
<1>1. /\ Tail(d) \in Seq(S) /\ Len(Tail(d)) = Len(d) - 1 /\ Len(d) \in Nat \ {0} /\ Head(d) = d[1]
      /\ \A k \in 1..(Len(d) - 1) : Tail(d)[k] = d[k + 1]
    BY HeadTailProperties, LenProperties, EmptySeq
<1>2. ASSUME NEW y PROVE y \in Range(d) <=> y \in Range(Tail(d)) \union {d[1]}
    <2>1. y \in Range(Tail(d)) <=> \E k \in 1..Len(Tail(d)) : Tail(d)[k] = y
        BY <1>1, InRange
    <2>2. y \in Range(d) <=> \E k \in 1..Len(d) : d[k] = y
        BY InRange
    <2>3. ASSUME NEW k \in 1..Len(d), d[k] = y PROVE y \in Range(Tail(d)) \union {d[1]}
        <3>1. CASE k = 1
            BY <2>3, <3>1
        <3>2. CASE k # 1
            <4>1. k - 1 \in 1..(Len(d) - 1) /\ Tail(d)[k - 1] = y
                BY <1>1, <2>3, <3>2
            <4> QED  BY <2>1, <4>1
        <3> QED  BY <3>1, <3>2
    <2> QED  BY <1>1, <2>1, <2>2, <2>3
<1> QED  BY <1>1, <1>2

-----------------------------------------------------------------------------
(* store_event.                                                            *)

\* What is left of a deque when room is made for one more event.
Kept(s) == IF Full(s) THEN Tail(deq[s]) ELSE deq[s]

\* It is sorted and gapless, has room, and lacks exactly the oldest event of a
\* full deque.
LEMMA KeptProperties ==
    ASSUME StoreInv, NEW s \in Streams
    PROVE  /\ Kept(s) \in Seq(Nat) /\ Len(Kept(s)) \in Nat /\ Len(Kept(s)) < MaxPerStream
           /\ \A k \in 1..Len(Kept(s)) : Kept(s)[k] \in 1..last /\ home[Kept(s)[k]] = s
           /\ \A j, k \in 1..Len(Kept(s)) : j < k => Kept(s)[j] < Kept(s)[k]
           /\ \A i \in 1..last : home[i] = s /\ Kept(s) # <<>> /\ Kept(s)[1] <= i =>
                 \E k \in 1..Len(Kept(s)) : Kept(s)[k] = i
           /\ Range(Kept(s)) = Range(deq[s]) \ (IF Full(s) THEN {Head(deq[s])} ELSE {})
<1> DEFINE d == deq[s]
<1>1. d \in Seq(Nat) /\ Len(d) \in Nat /\ (d = <<>> <=> Len(d) = 0) /\ Len(d) <= MaxPerStream
      /\ Sorted(s) /\ Gapless(s) /\ last \in Nat
    BY StoreAssumption, Elements DEF StoreInv, StoreTypeOK, WithinLimits
<1>2. CASE ~Full(s)
    <2>1. Kept(s) = deq[s] /\ Len(deq[s]) < MaxPerStream
        BY <1>1, <1>2, StoreAssumption DEF Kept, Full
    <2> QED  BY <1>1, <1>2, <2>1 DEF Sorted, Gapless
<1>3. CASE Full(s)
    <2>1. Kept(s) = Tail(d) /\ d # <<>> /\ Len(d) = MaxPerStream
        BY <1>1, <1>3, StoreAssumption DEF Kept, Full
    <2>2. /\ Tail(d) \in Seq(Nat) /\ Len(Tail(d)) = Len(d) - 1 /\ Head(d) = d[1]
          /\ \A k \in 1..(Len(d) - 1) : Tail(d)[k] = d[k + 1]
          /\ Range(d) = Range(Tail(d)) \union {d[1]}
        BY <1>1, <2>1, Shifted
    <2>3. \A x : x \in Range(Tail(d)) <=> \E k \in 1..Len(Tail(d)) : Tail(d)[k] = x
        BY <2>2, InRange
    <2> HIDE DEF d
    <2>4. \A k \in 1..Len(d) : d[k] \in 1..last /\ home[d[k]] = s
        BY <1>1 DEF Sorted, d
    <2>5. \A j, k \in 1..Len(d) : j < k => d[j] < d[k]
        BY <1>1 DEF Sorted, d
    <2>6. \A i \in 1..last : home[i] = s /\ d[1] <= i => \E k \in 1..Len(d) : d[k] = i
        BY <1>1, <2>1 DEF Gapless, d
    <2>7. d[1] \notin Range(Tail(d))
        <3> SUFFICES ASSUME NEW k \in 1..(Len(d) - 1), Tail(d)[k] = d[1] PROVE FALSE
            BY <2>2, <2>3
        <3>1. d[k + 1] = d[1] /\ k + 1 \in 1..Len(d) /\ 1 \in 1..Len(d) /\ 1 < k + 1
            BY <1>1, <2>2
        <3>2. d[1] < d[k + 1] /\ d[1] \in 1..last
            BY <2>4, <2>5, <3>1
        <3> QED  BY <1>1, <3>1, <3>2
    <2>8. \A k \in 1..Len(Tail(d)) : Tail(d)[k] \in 1..last /\ home[Tail(d)[k]] = s
        BY <1>1, <2>2, <2>4
    <2>9. \A j, k \in 1..Len(Tail(d)) : j < k => Tail(d)[j] < Tail(d)[k]
        BY <1>1, <2>2, <2>5
    <2>10. ASSUME NEW i \in 1..last, home[i] = s, Tail(d) # <<>>, Tail(d)[1] <= i
           PROVE  \E k \in 1..Len(Tail(d)) : Tail(d)[k] = i
        <3>1. Len(Tail(d)) \in Nat \ {0}
            BY <2>2, <2>10, Elements
        <3>2. 1 \in 1..(Len(d) - 1) /\ 1 \in 1..Len(d) /\ 2 \in 1..Len(d)
            BY <1>1, <2>2, <3>1
        <3>3. Tail(d)[1] = d[2] /\ d[1] < d[2] /\ d[1] \in 1..last /\ d[2] \in 1..last
            BY <2>2, <2>4, <2>5, <3>2
        <3>4. PICK k \in 1..Len(d) : d[k] = i
            BY <1>1, <2>6, <2>10, <3>3
        <3>5. k # 1
            BY <1>1, <2>10, <3>3, <3>4
        <3> QED  BY <1>1, <2>2, <3>4, <3>5
    <2>11. Len(Tail(d)) \in Nat /\ Len(Tail(d)) < MaxPerStream
        BY <1>1, <2>1, <2>2, StoreAssumption
    <2>12. Range(Tail(d)) = Range(d) \ {Head(d)}
        BY <2>2, <2>7
    <2> QED  BY <1>3, <2>1, <2>2, <2>8, <2>9, <2>10, <2>11, <2>12 DEF d
<1> QED  BY <1>2, <1>3

\* A stream that is pushed out is the head of the order, and never the one that
\* is stored to.
LEMMA EvictedProperties ==
    ASSUME StoreInv, NEW s \in Streams
    PROVE  /\ Evicted(s) \subseteq Streams \ {s}
           /\ Evicted(s) # {} => order # <<>> /\ Evicted(s) = {order[1]} /\ deq[s] = <<>>
           /\ s \notin Range(order) /\ Evicted(s) = {} => Len(order) < MaxStreams
           /\ s \in Range(order) => Evicted(s) = {}
<1>1. order \in Seq(Streams) /\ Len(order) \in Nat
    BY Elements DEF StoreInv, StoreTypeOK
<1>2. CASE s \notin Range(order) /\ Len(order) >= MaxStreams
    <2>1. order # <<>> /\ 1 \in 1..Len(order)
        BY <1>1, <1>2, Elements, StoreAssumption
    <2>2. Head(order) = order[1] /\ order[1] \in Streams
        BY <1>1, <2>1, Shifted, Elements
    <2>3. order[1] \in Range(order)
        BY <1>1, <2>1, InRange
    <2>4. Evicted(s) = {order[1]}
        BY <1>2, <2>2 DEF Evicted
    <2>5. deq[s] = <<>>
        BY <1>2 DEF StoreInv, WithinLimits
    <2> QED  BY <1>2, <2>1, <2>2, <2>3, <2>4, <2>5
<1>3. CASE ~(s \notin Range(order) /\ Len(order) >= MaxStreams)
    BY <1>1, <1>3, StoreAssumption DEF Evicted
<1> QED  BY <1>2, <1>3

\* The deques after a store: the new event at the end of its stream's, an
\* evicted one empty, the others as they were.
LEMMA DequesAfter ==
    ASSUME StoreInv, NEW s \in Streams, NEW m \in BOOLEAN, StoreEvent(s, m)
    PROVE  /\ last' = last + 1 /\ last' \in 1..MaxEvents
           /\ deq' \in [Streams -> Seq(Nat)]
           /\ deq'[s] = Append(Kept(s), last + 1)
           /\ \A t \in Evicted(s) : deq'[t] = <<>>
           /\ \A t \in Streams \ {s} : t \notin Evicted(s) => deq'[t] = deq[t]
           /\ home' \in [Events -> Streams \union {Nowhere}]
           /\ home'[last + 1] = s
           /\ \A i \in 1..last : home'[i] = home[i] /\ i \in Events
<1>1. last \in Nat /\ last \in 0..MaxEvents /\ last < MaxEvents /\ MaxEvents \in Nat
    BY StoreAssumption DEF StoreInv, StoreTypeOK, StoreEvent
<1>2. Kept(s) \in Seq(Nat)
    BY KeptProperties
<1>3. Append(Kept(s), last + 1) \in Seq(Nat) /\ <<>> \in Seq(Nat)
    BY <1>1, <1>2, Appended, EmptySeq
<1>4. deq' = [t \in Streams |-> CASE t = s -> Append(Kept(s), last + 1)
                                  [] t # s /\ t \in Evicted(s) -> <<>>
                                  [] OTHER -> deq[t]]
    BY DEF StoreEvent, Kept
<1>5. \A t \in Streams : deq[t] \in Seq(Nat)
    BY DEF StoreInv, StoreTypeOK
<1>6. \A t \in Streams : deq'[t] = IF t = s THEN Append(Kept(s), last + 1)
                                   ELSE IF t \in Evicted(s) THEN <<>> ELSE deq[t]
    BY <1>4
<1>7. Evicted(s) \subseteq Streams \ {s}
    BY EvictedProperties
<1>8. deq' \in [Streams -> Seq(Nat)]
    <2>1. \A t \in Streams : deq'[t] \in Seq(Nat)
        BY <1>3, <1>5, <1>6
    <2>2. deq' = [t \in Streams |-> deq'[t]]
        BY <1>4
    <2> QED  BY <2>1, <2>2
<1>9. home \in [Events -> Streams \union {Nowhere}]
    BY DEF StoreInv, StoreTypeOK
<1>10. last + 1 \in Events /\ \A i \in 1..last : i \in Events /\ i # last + 1
    BY <1>1 DEF Events
<1>11. home' = [home EXCEPT ![last + 1] = s] /\ last' = last + 1
    BY DEF StoreEvent
<1>12. last' \in 1..MaxEvents
    BY <1>1, <1>11
<1> QED  BY <1>6, <1>7, <1>8, <1>9, <1>10, <1>11, <1>12

\* Storing an event keeps every deque sorted and gapless.
LEMMA StoreKeepsDeques ==
    ASSUME StoreInv, NEW s \in Streams, NEW m \in BOOLEAN, StoreEvent(s, m), NEW t \in Streams
    PROVE  Sorted(t)' /\ Gapless(t)'
<1>1. last \in Nat /\ last' = last + 1
    BY DequesAfter DEF StoreInv, StoreTypeOK
<1>2. /\ \A i \in 1..last : home'[i] = home[i]
      /\ home'[last + 1] = s
    BY DequesAfter
<1>3. CASE t = s
    <2> DEFINE d == Kept(s)
               e == deq'[s]
    <2>1. /\ d \in Seq(Nat) /\ Len(d) \in Nat
          /\ \A k \in 1..Len(d) : d[k] \in 1..last /\ home[d[k]] = s
          /\ \A j, k \in 1..Len(d) : j < k => d[j] < d[k]
          /\ \A i \in 1..last : home[i] = s /\ d # <<>> /\ d[1] <= i => \E k \in 1..Len(d) : d[k] = i
          /\ (d = <<>> <=> Len(d) = 0)
        BY KeptProperties, Elements
    <2>2. e = Append(d, last + 1)
        BY DequesAfter
    <2>3. /\ e \in Seq(Nat) /\ Len(e) = Len(d) + 1
          /\ \A k \in 1..Len(d) : e[k] = d[k]
          /\ e[Len(d) + 1] = last + 1
        BY <1>1, <2>1, <2>2, Appended
    <2> HIDE DEF d, e
    <2>4. \A k \in 1..Len(e) : k \in 1..Len(d) \/ k = Len(d) + 1
        BY <2>1, <2>3
    <2>5. \A k \in 1..Len(e) : e[k] \in 1..last' /\ home'[e[k]] = s
        <3> TAKE k \in 1..Len(e)
        <3>1. CASE k \in 1..Len(d)
            <4>1. e[k] = d[k] /\ d[k] \in 1..last /\ home[d[k]] = s
                BY <2>1, <2>3, <3>1
            <4> QED  BY <1>1, <1>2, <4>1
        <3>2. CASE k = Len(d) + 1
            BY <1>1, <1>2, <2>3, <3>2
        <3> QED  BY <2>4, <3>1, <3>2
    <2>6. \A j, k \in 1..Len(e) : j < k => e[j] < e[k]
        <3> TAKE j, k \in 1..Len(e)
        <3> HAVE j < k
        <3>1. j \in 1..Len(d) /\ e[j] = d[j] /\ d[j] \in 1..last
            BY <2>1, <2>3
        <3>2. CASE k \in 1..Len(d)
            BY <2>1, <2>3, <3>1, <3>2
        <3>3. CASE k = Len(d) + 1
            BY <1>1, <2>3, <3>1, <3>3
        <3> QED  BY <2>4, <3>2, <3>3
    <2>7. ASSUME NEW i \in 1..last', home'[i] = s, e[1] <= i PROVE \E k \in 1..Len(e) : e[k] = i
        <3>1. CASE i = last + 1
            BY <2>1, <2>3, <3>1
        <3>2. CASE i \in 1..last /\ d # <<>>
            <4>1. 1 \in 1..Len(d) /\ e[1] = d[1] /\ home[i] = s
                BY <1>2, <2>1, <2>3, <2>7, <3>2
            <4>2. PICK k \in 1..Len(d) : d[k] = i
                BY <2>1, <2>7, <3>2, <4>1
            <4> QED  BY <2>1, <2>3, <4>2
        <3>3. CASE i \in 1..last /\ d = <<>>
            BY <1>1, <2>1, <2>3, <2>7, <3>3
        <3> QED  BY <1>1, <3>1, <3>2, <3>3
    <2> QED  BY <1>3, <2>5, <2>6, <2>7 DEF Sorted, Gapless, e
<1>4. CASE t # s /\ t \in Evicted(s)
    <2>1. deq'[t] = <<>> /\ Len(deq'[t]) = 0
        BY <1>4, DequesAfter, EmptySeq
    <2> QED  BY <2>1 DEF Sorted, Gapless
<1>5. CASE t # s /\ t \notin Evicted(s)
    <2>1. deq'[t] = deq[t]
        BY <1>5, DequesAfter
    <2>2. Sorted(t) /\ Gapless(t)
        BY DEF StoreInv
    <2>3. Sorted(t)'
        BY <1>1, <1>2, <2>1, <2>2 DEF Sorted
    <2>4. ASSUME NEW i \in 1..last', home'[i] = t PROVE i \in 1..last /\ home[i] = t
        BY <1>1, <1>2, <1>5, <2>4
    <2> QED  BY <2>1, <2>2, <2>3, <2>4 DEF Gapless
<1> QED  BY <1>3, <1>4, <1>5

\* Storing an event keeps the store within its limits.
LEMMA StoreKeepsLimits ==
    ASSUME StoreInv, NEW s \in Streams, NEW m \in BOOLEAN, StoreEvent(s, m)
    PROVE  order' \in Seq(Streams) /\ WithinLimits'
<1> DEFINE o == IF Evicted(s) = {} THEN order ELSE Tail(order)
<1>1. order \in Seq(Streams) /\ Len(order) \in Nat /\ Len(order) <= MaxStreams
    BY Elements DEF StoreInv, StoreTypeOK, WithinLimits
<1>2. order' = IF s \in Range(order) THEN order ELSE Append(o, s)
    BY DEF StoreEvent
<1>3. /\ o \in Seq(Streams) /\ Len(o) \in Nat /\ (s \notin Range(order) => Len(o) < MaxStreams)
      /\ \A t \in Range(order) : t \in Range(o) \/ t \in Evicted(s)
    <2>1. CASE Evicted(s) = {}
        BY <1>1, <2>1, EvictedProperties
    <2>2. CASE Evicted(s) # {}
        <3>1. order # <<>> /\ Evicted(s) = {order[1]}
            BY <2>2, EvictedProperties
        <3>2. /\ Tail(order) \in Seq(Streams) /\ Len(Tail(order)) = Len(order) - 1
              /\ Range(order) = Range(Tail(order)) \union {order[1]}
            BY <1>1, <3>1, Shifted
        <3>3. Len(Tail(order)) \in Nat
            BY <3>2, Elements
        <3> QED  BY <1>1, <2>2, <3>1, <3>2, <3>3, StoreAssumption
    <2> QED  BY <2>1, <2>2
<1> HIDE DEF o
<1>4. Append(o, s) \in Seq(Streams) /\ Len(Append(o, s)) = Len(o) + 1
      /\ Range(Append(o, s)) = Range(o) \union {s}
    BY <1>3, Appended
<1>5. order' \in Seq(Streams) /\ Len(order') <= MaxStreams
    BY <1>1, <1>2, <1>3, <1>4, StoreAssumption
<1>6. s \in Range(order') /\ \A t \in Range(order) : t \in Range(order') \/ t \in Evicted(s)
    BY <1>2, <1>3, <1>4
<1>7. ASSUME NEW t \in Streams
      PROVE  Len(deq'[t]) <= MaxPerStream /\ (deq'[t] # <<>> => t \in Range(order'))
    <2>1. CASE t = s
        <3>1. Kept(s) \in Seq(Nat) /\ Len(Kept(s)) \in Nat /\ Len(Kept(s)) < MaxPerStream
            BY KeptProperties
        <3>2. deq'[s] = Append(Kept(s), last + 1) /\ last + 1 \in Nat
            BY DequesAfter
        <3>3. Len(deq'[s]) = Len(Kept(s)) + 1
            BY <3>1, <3>2, Appended
        <3> QED  BY <1>6, <2>1, <3>1, <3>3, StoreAssumption
    <2>2. CASE t # s /\ t \in Evicted(s)
        <3>1. deq'[t] = <<>> /\ Len(deq'[t]) = 0
            BY <2>2, DequesAfter, EmptySeq
        <3> QED  BY <3>1, StoreAssumption
    <2>3. CASE t # s /\ t \notin Evicted(s)
        <3>1. deq'[t] = deq[t]
            BY <2>3, DequesAfter
        <3> QED  BY <1>6, <2>3, <3>1 DEF StoreInv, WithinLimits
    <2> QED  BY <2>1, <2>2, <2>3
<1> QED  BY <1>5, <1>7 DEF WithinLimits

\* Storing an event keeps the index equal to what the deques hold: an event is
\* in the deque of its own stream only.
LEMMA StoreKeepsIndex ==
    ASSUME StoreInv, NEW s \in Streams, NEW m \in BOOLEAN, StoreEvent(s, m)
    PROVE  IndexIsDeques'
<1>1. index = UNION {Range(deq[t]) : t \in Streams}
    BY DEF StoreInv, IndexIsDeques
<1>2. \A t \in Streams : \A x \in Range(deq[t]) : home[x] = t
    <2> TAKE t \in Streams
    <2>1. deq[t] \in Seq(Nat) /\ Sorted(t)
        BY DEF StoreInv, StoreTypeOK
    <2> QED  BY <2>1, InRange DEF Sorted
<1>3. index' = (index \ Dropped(s)) \union {last + 1}
    BY DEF StoreEvent
<1>4. Range(deq'[s]) = Range(Kept(s)) \union {last + 1}
    <2>1. deq'[s] = Append(Kept(s), last + 1) /\ last + 1 \in Nat /\ Kept(s) \in Seq(Nat)
        BY DequesAfter, KeptProperties
    <2> QED  BY <2>1, Appended
<1>5. Range(Kept(s)) = Range(deq[s]) \ (IF Full(s) THEN {Head(deq[s])} ELSE {})
    BY KeptProperties
<1>6. \A t \in Evicted(s) : Range(deq'[t]) = {}
    BY DequesAfter DEF Range
<1>7. Evicted(s) \subseteq Streams \ {s}
    BY EvictedProperties
<1>8. \A t \in Streams \ {s} : t \notin Evicted(s) => Range(deq'[t]) = Range(deq[t])
    BY DequesAfter
<1>9. Full(s) => Head(deq[s]) \in Range(deq[s])
    <2> SUFFICES ASSUME Full(s) PROVE Head(deq[s]) \in Range(deq[s])
        OBVIOUS
    <2>1. deq[s] \in Seq(Nat) /\ deq[s] # <<>>
        BY StoreAssumption, Elements DEF StoreInv, StoreTypeOK, Full
    <2> QED  BY <2>1, Shifted
<1>10. ASSUME NEW x PROVE x \in index' <=> \E t \in Streams : x \in Range(deq'[t])
    <2>1. CASE x = last + 1
        BY <1>3, <1>4, <2>1
    <2>2. CASE x # last + 1 /\ x \notin index
        BY <1>1, <1>3, <1>4, <1>5, <1>6, <1>8, <2>2
    <2>3. ASSUME x # last + 1, NEW t \in Streams, x \in Range(deq[t])
          PROVE  x \in index' <=> \E u \in Streams : x \in Range(deq'[u])
        <3>1. x \in index /\ \A u \in Streams : x \in Range(deq[u]) => u = t
            BY <1>1, <1>2, <2>3
        <3>2. x \in Dropped(s) <=> t \in Evicted(s) \/ (Full(s) /\ x = Head(deq[s]))
            BY <1>7, <2>3, <3>1 DEF Dropped
        <3>3. x \in index' <=> ~(t \in Evicted(s) \/ (Full(s) /\ x = Head(deq[s])))
            BY <1>3, <2>3, <3>1, <3>2
        <3>4. \A u \in Streams : x \in Range(deq'[u]) => u = t
            BY <1>4, <1>5, <1>6, <1>8, <2>3, <3>1
        <3>5. CASE t = s
            BY <1>4, <1>5, <1>7, <2>3, <3>3, <3>4, <3>5
        <3>6. CASE t # s /\ t \in Evicted(s)
            BY <1>6, <3>3, <3>4, <3>6
        <3>7. CASE t # s /\ t \notin Evicted(s)
            <4>1. ~(Full(s) /\ x = Head(deq[s]))
                BY <1>9, <3>1, <3>7
            <4> QED  BY <1>8, <2>3, <3>3, <3>7, <4>1
        <3> QED  BY <3>5, <3>6, <3>7
    <2> QED  BY <1>1, <2>1, <2>2, <2>3
<1> QED  BY <1>10 DEF IndexIsDeques

\* store_event keeps the store's invariant.
LEMMA StoreKeepsStore ==
    ASSUME StoreInv, NEW s \in Streams, NEW m \in BOOLEAN, StoreEvent(s, m)
    PROVE  StoreInv'
<1>1. last \in Nat /\ last' = last + 1 /\ last' \in 1..MaxEvents /\ textual \subseteq 1..last
      /\ MaxEvents \in Nat
    BY DequesAfter, StoreAssumption DEF StoreInv, StoreTypeOK
<1>2. textual' \subseteq 1..last'
    BY <1>1 DEF StoreEvent
<1>3. \A i \in 1..last' : home'[i] \in Streams
    <2>1. home'[last + 1] = s /\ \A i \in 1..last : home'[i] = home[i] /\ home[i] \in Streams
        BY DequesAfter DEF StoreInv, StoreTypeOK
    <2>2. \A i \in 1..last' : i \in 1..last \/ i = last + 1
        BY <1>1
    <2> QED  BY <2>1, <2>2
<1>4. StoreTypeOK'
    BY <1>1, <1>2, <1>3, DequesAfter, StoreKeepsLimits DEF StoreTypeOK, Events, Nowhere
<1> QED  BY <1>4, StoreKeepsDeques, StoreKeepsLimits, StoreKeepsIndex DEF StoreInv

-----------------------------------------------------------------------------
(* replay_events_after.                                                    *)

\* What a replay has to send does not change with what is stored later.
LEMMA DueIsSettled ==
    ASSUME Inv, NEW s \in Streams, NEW m \in BOOLEAN, StoreEvent(s, m), NEW r \in Readers
    PROVE  Due(r)' = Due(r)
<1>1. last \in Nat /\ textual \subseteq 1..last /\ \A i \in 1..last : home'[i] = home[i]
    BY DequesAfter DEF Inv, StoreInv, StoreTypeOK
<1>2. from[r] \in Nat /\ until[r] \in Nat /\ until[r] <= last
      /\ (from[r] \in 1..last \/ until[r] = 0)
    BY DEF Inv, ReplayTypeOK, ReplayInv, Idle
<1>3. UNCHANGED <<from, until>> /\ textual \subseteq textual' /\ textual' \subseteq textual \union {last + 1}
    BY DEF StoreEvent, replayVars
<1>4. ASSUME NEW i PROVE i \in Due(r)' <=> i \in Due(r)
    <2>1. i \in Due(r) <=> /\ i \in textual /\ from[r] < i /\ i <= until[r]
                          /\ home[i] = home[from[r]]
        BY DEF Due
    <2>2. i \in Due(r)' <=> /\ i \in textual' /\ from[r] < i /\ i <= until[r]
                           /\ home'[i] = home'[from[r]]
        BY <1>3 DEF Due
    <2>3. CASE i \notin textual'
        BY <1>3, <2>1, <2>2, <2>3
    <2>4. CASE i = last + 1
        BY <1>1, <1>2, <2>1, <2>2, <2>4
    <2>5. CASE i \in textual
        BY <1>1, <1>2, <1>3, <2>1, <2>2, <2>5
    <2> QED  BY <1>3, <2>3, <2>4, <2>5
<1> QED  BY <1>4

\* store_event keeps the invariant of every replay, whichever stream it changes.
LEMMA StoreKeepsReplays ==
    ASSUME Inv, NEW s \in Streams, NEW m \in BOOLEAN, StoreEvent(s, m)
    PROVE  ReplayTypeOK' /\ \A r \in Readers : ReplayInv(r)'
<1>1. UNCHANGED <<pc, from, walk, at, until, got>>
    BY DEF StoreEvent, replayVars
<1>2. iter' = [r \in Readers |-> IterAfter(r, s)]
    BY DEF StoreEvent
<1>3. iter \in [Readers -> {"stored", "modified", "evicted"}]
    BY DEF Inv, ReplayTypeOK
<1>4. iter' \in [Readers -> {"stored", "modified", "evicted"}]
    BY <1>2, <1>3 DEF IterAfter
<1>5. ReplayTypeOK'
    BY <1>1, <1>4 DEF Inv, ReplayTypeOK
<1>6. ASSUME NEW r \in Readers PROVE ReplayInv(r)'
    <2>1. ReplayInv(r) /\ Due(r)' = Due(r)
        BY DueIsSettled DEF Inv
    <2>2. last \in Nat /\ last' = last + 1 /\ until[r] \in Nat
        BY DequesAfter DEF Inv, StoreInv, StoreTypeOK, ReplayTypeOK
    <2>3. until'[r] <= last' /\ (pc'[r] # "idle" => from'[r] \in 1..last')
        BY <1>1, <2>1, <2>2 DEF ReplayInv
    <2>4. (pc'[r] = "idle" => Idle(r)') /\ SentInOrder(r)' /\ (pc'[r] = "done" => SentAll(r)')
        <3>1. pc[r] = "idle" => iter'[r] = iter[r]
            BY <1>2 DEF IterAfter
        <3> QED  BY <1>1, <2>1, <3>1 DEF ReplayInv, Idle, SentInOrder, SentAll
    <2>5. ASSUME pc[r] = "sending" PROVE Walking(r)'
        <3>1. Walking(r) /\ from[r] \in 1..last /\ until[r] <= last
            BY <2>1, <2>5 DEF ReplayInv
        <3>2. textual \subseteq textual' /\ \A i \in 1..last : home'[i] = home[i] /\ home[i] \in Streams
            BY DequesAfter DEF StoreEvent, Inv, StoreInv, StoreTypeOK
        <3>3. \A k \in 1..Len(walk[r]) : walk[r][k] \in 1..until[r] /\ walk[r][k] \in 1..last
                                         /\ home[walk[r][k]] = home[from[r]]
            BY <2>2, <3>1 DEF Walking
        <3>4. iter'[r] = "stored" => walk[r] = deq'[home'[from[r]]]
            <4> SUFFICES ASSUME iter'[r] = "stored" PROVE walk[r] = deq'[home'[from[r]]]
                OBVIOUS
            <4>1. iter[r] = "stored" /\ home[from[r]] # s /\ home[from[r]] \notin Evicted(s)
                BY <1>2, <2>5 DEF IterAfter
            <4>2. deq'[home[from[r]]] = deq[home[from[r]]]
                BY <3>1, <3>2, <4>1, DequesAfter DEF Inv
            <4> QED  BY <3>1, <3>2, <4>1, <4>2 DEF Walking
        <3>5. \A k \in 1..Len(walk[r]) : walk[r][k] \in 1..until[r] /\ home'[walk[r][k]] = home'[from[r]]
            BY <3>1, <3>2, <3>3
        <3>6. iter'[r] = "modified" => Log!Overtaken(r)'
            <4> SUFFICES ASSUME iter'[r] = "modified"
                         PROVE  \E j \in (until[r] + 1)..last' : home'[j] = home'[from[r]]
                BY <1>1 DEF Log!Overtaken
            <4>1. CASE iter[r] = "modified"
                <5>1. PICK j \in (until[r] + 1)..last : home[j] = home[from[r]]
                    BY <3>1, <4>1 DEF Walking, Log!Overtaken
                <5>2. j \in 1..last /\ j \in (until[r] + 1)..last'
                    BY <2>2
                <5> QED  BY <3>1, <3>2, <5>1, <5>2
            <4>2. CASE iter[r] # "modified"
                <5>1. home[from[r]] = s
                    BY <1>2, <1>3, <2>5, <4>2 DEF IterAfter
                <5>2. home' = [home EXCEPT ![last + 1] = s] /\ last < MaxEvents
                    BY DEF StoreEvent
                <5>3. last + 1 \in DOMAIN home
                    BY <2>2, <5>2, StoreAssumption DEF Inv, StoreInv, StoreTypeOK, Events
                <5>4. home'[last + 1] = s
                    BY <5>2, <5>3
                <5>5. last + 1 \in (until[r] + 1)..last'
                    BY <2>2, <3>1
                <5> QED  BY <3>1, <3>2, <5>1, <5>4, <5>5
            <4> QED  BY <4>1, <4>2
        <3> QED  BY <1>1, <2>1, <3>1, <3>2, <3>4, <3>5, <3>6 DEF Walking
    <2> QED  BY <1>1, <2>3, <2>4, <2>5 DEF ReplayInv
<1> QED  BY <1>5, <1>6

\* A step of one replay leaves the others alone.
LEMMA OtherReplays ==
    ASSUME Inv, NEW r \in Readers, NEW q \in Readers, q # r, UNCHANGED <<storeVars, iter>>,
           pc'[q] = pc[q], from'[q] = from[q], walk'[q] = walk[q], at'[q] = at[q],
           until'[q] = until[q], got'[q] = got[q]
    PROVE  ReplayInv(q)'
<1>1. UNCHANGED <<last, home, textual, deq>>
    BY DEF storeVars
<1>2. Due(q)' = Due(q)
    BY <1>1 DEF Due
<1>3. ReplayInv(q)
    BY DEF Inv
<1>4. Idle(q) => Idle(q)'
    BY DEF Idle
<1>5. Walking(q) => Walking(q)'
    BY <1>1, <1>2 DEF Walking, Log!Overtaken
<1>6. (SentInOrder(q) => SentInOrder(q)') /\ (SentAll(q) => SentAll(q)')
    BY <1>2 DEF SentInOrder, SentAll
<1> QED  BY <1>1, <1>3, <1>4, <1>5, <1>6 DEF ReplayInv

\* A replay begins on the deque of its event's stream, which holds the event and
\* everything due.
LEMMA StartKeepsReplay ==
    ASSUME Inv, NEW r \in Readers, NEW i \in Events, ReplayStart(r, i)
    PROVE  ReplayTypeOK' /\ ReplayInv(r)'
<1> DEFINE d == deq[home[i]]
           left == UNION {Messages(d, p) : p \in {q \in 1..Len(d) : d[q] = i}}
<1>1. /\ pc[r] = "idle" /\ i \in index
      /\ walk' = [walk EXCEPT ![r] = d]
      /\ Advance(r, left)
      /\ from' = [from EXCEPT ![r] = i]
      /\ until' = [until EXCEPT ![r] = last]
      /\ UNCHANGED <<iter, got>> /\ UNCHANGED <<last, home, textual, order, deq, index>>
    BY DEF ReplayStart, storeVars
<1>2. /\ ReplayTypeOK /\ StoreTypeOK /\ last \in Nat /\ textual \subseteq 1..last
      /\ got[r] = <<>>
    BY <1>1 DEF Inv, StoreInv, StoreTypeOK, ReplayInv, Idle
<1>2a. iter'[r] = "stored"
    BY <1>1 DEF Inv, ReplayInv, Idle
<1>3. home[i] \in Streams /\ i \in Range(d)
    <2>1. PICK t \in Streams : i \in Range(deq[t])
        BY <1>1 DEF Inv, StoreInv, IndexIsDeques
    <2>2. deq[t] \in Seq(Nat) /\ Sorted(t)
        BY DEF Inv, StoreInv, StoreTypeOK
    <2>3. home[i] = t
        BY <2>1, <2>2, InRange DEF Sorted
    <2> QED  BY <2>1, <2>3
<1>4. /\ d \in Seq(Nat) /\ Len(d) \in Nat /\ (d = <<>> <=> Len(d) = 0)
      /\ \A k \in 1..Len(d) : d[k] \in 1..last /\ home[d[k]] = home[i]
      /\ \A j, k \in 1..Len(d) : j < k => d[j] < d[k]
      /\ \A j \in 1..last : home[j] = home[i] /\ d # <<>> /\ d[1] <= j => \E k \in 1..Len(d) : d[k] = j
    BY <1>3, Elements DEF Inv, StoreInv, StoreTypeOK, Sorted, Gapless
<1>5. PICK q \in 1..Len(d) : d[q] = i
    BY <1>3, <1>4, InRange
<1>6. \A k : k \in left <=> k \in (q + 1)..Len(d) /\ d[k] \in textual
    <2>1. \A p \in 1..Len(d) : d[p] = i => p = q
        BY <1>4, <1>5
    <2> QED  BY <1>5, <2>1 DEF Messages
<1> HIDE DEF d, left
<1>7. i \in 1..last /\ from'[r] = i /\ until'[r] = last /\ walk'[r] = d /\ got'[r] = <<>>
      /\ Len(got'[r]) = 0
    BY <1>1, <1>2, <1>4, <1>5, EmptySeq DEF ReplayTypeOK
<1>8. \A j : j \in Due(r)' <=> j \in textual /\ i < j /\ j <= last /\ home[j] = home[i]
    BY <1>1, <1>7 DEF Due
\* what is due is a message behind the event's position
<1>9. ASSUME NEW j \in Due(r)' PROVE \E k \in left : d[k] = j
    <2>1. j \in textual /\ j \in 1..last /\ i < j /\ home[j] = home[i]
        BY <1>2, <1>8
    <2>2. d # <<>> /\ 1 \in 1..Len(d) /\ d[1] \in 1..last /\ d[1] <= i
        BY <1>2, <1>4, <1>5
    <2>3. d[1] <= j
        BY <1>2, <1>7, <2>1, <2>2
    <2>4. PICK k \in 1..Len(d) : d[k] = j
        BY <1>4, <2>1, <2>2, <2>3
    <2>5. q < k
        <3>1. k < q => d[k] < d[q]
            BY <1>4
        <3> QED  BY <1>2, <1>5, <1>7, <2>1, <2>4, <3>1
    <2> QED  BY <1>4, <1>6, <2>1, <2>4, <2>5
<1>10. left \subseteq 1..Len(d) /\ \A k \in left : i < d[k] /\ d[k] \in textual /\ d[k] \in 1..last
    BY <1>2, <1>4, <1>5, <1>6
<1>11. SentInOrder(r)' /\ until'[r] <= last' /\ from'[r] \in 1..last'
    BY <1>1, <1>2, <1>7 DEF SentInOrder
<1>12. /\ from' \in [Readers -> Nat] /\ until' \in [Readers -> Nat]
       /\ walk' \in [Readers -> Seq(Nat)] /\ iter' = iter /\ got' = got
    BY <1>1, <1>2, <1>4, <1>7 DEF ReplayTypeOK
<1>13. CASE left = {} /\ pc' = [pc EXCEPT ![r] = "done"] /\ UNCHANGED at
    <2>1. pc'[r] = "done" /\ SentAll(r)'
        BY <1>2, <1>9, <1>13 DEF ReplayTypeOK, SentAll
    <2>2. ReplayTypeOK'
        BY <1>2, <1>13, <1>12 DEF ReplayTypeOK
    <2> QED  BY <1>11, <2>1, <2>2 DEF ReplayInv
<1>14. ASSUME NEW k \in left, \A j \in left : k <= j, pc' = [pc EXCEPT ![r] = "sending"],
              at' = [at EXCEPT ![r] = k]
       PROVE  ReplayTypeOK' /\ ReplayInv(r)'
    <2>1. k \in 1..Len(d) /\ k \in Nat
        BY <1>4, <1>10
    <2>2. ReplayTypeOK'
        BY <1>2, <1>14, <1>12, <2>1 DEF ReplayTypeOK
    <2>3. pc'[r] = "sending" /\ at'[r] = k
        BY <1>2, <1>14 DEF ReplayTypeOK
    <2>4. \A j \in Due(r)' : ~(j < d[k])
        <3> SUFFICES ASSUME NEW j \in Due(r)', j < d[k] PROVE FALSE
            OBVIOUS
        <3>1. PICK n \in left : d[n] = j
            BY <1>9
        <3>2. k <= n /\ n \in 1..Len(d)
            BY <1>10, <1>14, <3>1
        <3>3. d[k] <= d[n] /\ d[k] \in 1..last /\ d[n] \in 1..last
            BY <1>2, <1>4, <2>1, <3>2
        <3> QED  BY <1>2, <3>1, <3>3
    <2>5. \A j \in Due(r)' : \E n \in 1..Len(d) : d[n] = j
        BY <1>9, <1>10
    <2>6. \A n \in 1..Len(d) : d[n] \in 1..until'[r] /\ home'[d[n]] = home'[from'[r]]
        BY <1>1, <1>4, <1>7
    <2>7. iter'[r] = "stored" => walk'[r] = deq'[home'[from'[r]]]
        BY <1>1, <1>7 DEF d
    <2>8. at'[r] \in 1..Len(walk'[r]) /\ walk'[r][at'[r]] \in textual' /\ from'[r] < walk'[r][at'[r]]
        BY <1>1, <1>7, <1>10, <2>1, <2>3
    <2>9. Walking(r)'
        BY <1>2a, <1>4, <1>7, <2>3, <2>4, <2>5, <2>6, <2>7, <2>8 DEF Walking
    <2> QED  BY <1>11, <2>2, <2>3, <2>9 DEF ReplayInv
<1> QED  BY <1>1, <1>13, <1>14 DEF Advance

\* A replay sends the message it stands at, and goes on behind it.
LEMMA SendKeepsReplay ==
    ASSUME Inv, NEW r \in Readers, ReplaySend(r)
    PROVE  ReplayTypeOK' /\ ReplayInv(r)'
<1> DEFINE w == walk[r]
           p == at[r]
           g == got[r]
           h == got'[r]
<1>1. /\ pc[r] = "sending" /\ got' = [got EXCEPT ![r] = Append(g, w[p])]
      /\ UNCHANGED <<iter, from, walk, until>> /\ UNCHANGED <<last, home, textual, order, deq, index>>
    BY DEF ReplaySend, storeVars
<1>2. ReplayTypeOK /\ ReplayInv(r) /\ Walking(r) /\ last \in Nat /\ textual \subseteq 1..last
    BY <1>1 DEF Inv, StoreInv, StoreTypeOK, ReplayInv
<1>3. /\ w \in Seq(Nat) /\ Len(w) \in Nat /\ p \in 1..Len(w) /\ w[p] \in Nat
      /\ g \in Seq(Nat) /\ Len(g) \in Nat /\ from[r] \in Nat /\ until[r] \in Nat
    BY <1>2, Elements DEF ReplayTypeOK, Walking
<1>4. /\ \A k \in 1..Len(w) : w[k] \in 1..until[r] /\ home[w[k]] = home[from[r]]
      /\ \A j, k \in 1..Len(w) : j < k => w[j] < w[k]
      /\ \A i \in Due(r) : \E k \in 1..Len(w) : w[k] = i
      /\ \A i \in Due(r) : i < w[p] => \E m \in 1..Len(g) : g[m] = i
      /\ w[p] \in textual /\ from[r] < w[p]
      /\ (iter[r] = "stored" => w = deq[home[from[r]]])
      /\ (iter[r] = "modified" => Log!Overtaken(r))
      /\ \A m \in 1..Len(g) : g[m] < w[p]
    BY <1>2 DEF Walking
<1>5. h = Append(g, w[p]) /\ got' \in [Readers -> Seq(Nat)]
    BY <1>1, <1>2, <1>3, Appended DEF ReplayTypeOK
<1>6. h \in Seq(Nat) /\ Len(h) = Len(g) + 1 /\ (\A k \in 1..Len(g) : h[k] = g[k]) /\ h[Len(g) + 1] = w[p]
    BY <1>3, <1>5, Appended
<1>7. Due(r)' = Due(r) /\ Due(r) \subseteq Nat
    <2>1. Due(r)' = Due(r)
        BY <1>1 DEF Due
    <2>2. textual \subseteq Nat
        BY <1>2
    <2> QED  BY <2>1, <2>2 DEF Due
<1>8. w[p] \in Due(r)
    BY <1>3, <1>4 DEF Due
<1>8a. \A k \in 1..Len(w) : w[k] \in Nat
    BY <1>3, Elements
<1>8b. \A j, k \in 1..Len(w) : j < k => w[j] < w[k]
    BY <1>4
<1>8c. \A i \in Due(r) : i \in Nat
    BY <1>7
<1> HIDE DEF w, p, g, h
<1>9. \A k \in 1..Len(h) : k \in 1..Len(g) \/ k = Len(g) + 1
    BY <1>3, <1>6
<1>10. \A i \in Due(r) : i <= w[p] => \E m \in 1..Len(h) : h[m] = i
    <2> TAKE i \in Due(r)
    <2> HAVE i <= w[p]
    <2>1. CASE i = w[p]
        <3>1. Len(g) + 1 \in 1..Len(h)
            BY <1>3, <1>6
        <3> QED  BY <1>6, <2>1, <3>1
    <2>2. CASE i < w[p]
        <3>1. PICK m \in 1..Len(g) : g[m] = i
            BY <1>4, <2>2
        <3>2. m \in 1..Len(h) /\ h[m] = i
            BY <1>3, <1>6, <3>1
        <3> QED  BY <3>2
    <2>3. i \in Nat /\ w[p] \in Nat
        BY <1>3, <1>8c
    <2>4. i = w[p] \/ i < w[p]
        BY <2>3
    <2> QED  BY <2>1, <2>2, <2>4
<1>11. SentInOrder(r)'
    <2>1. /\ \A k \in 1..Len(g) : g[k] \in Due(r)
          /\ \A k \in 1..Len(g) : \A i \in Due(r) : i <= g[k] => \E m \in 1..k : g[m] = i
        BY <1>2 DEF ReplayInv, SentInOrder, g
    <2>2. \A k \in 1..Len(h) : h[k] \in Due(r)
        BY <1>6, <1>8, <1>9, <2>1
    <2>3. ASSUME NEW k \in 1..Len(h), NEW i \in Due(r), i <= h[k] PROVE \E m \in 1..k : h[m] = i
        <3>1. CASE k \in 1..Len(g)
            <4>1. PICK m \in 1..k : g[m] = i
                BY <1>6, <2>1, <2>3, <3>1
            <4>2. m \in 1..Len(g)
                BY <1>3, <3>1
            <4> QED  BY <1>6, <4>1, <4>2
        <3>2. CASE k = Len(g) + 1
            BY <1>6, <1>10, <2>3, <3>2
        <3> QED  BY <1>9, <3>1, <3>2
    <2> QED  BY <1>7, <2>2, <2>3 DEF SentInOrder, h
<1>12. until'[r] <= last' /\ from'[r] \in 1..last'
    BY <1>1, <1>2 DEF ReplayInv
\* what is due and not yet sent is a message behind the position
<1>13. ASSUME NEW i \in Due(r), ~\E m \in 1..Len(h) : h[m] = i
       PROVE  \E k \in Messages(w, p) : w[k] = i
    <2>1. i \in textual /\ ~(i <= w[p])
        BY <1>10, <1>13 DEF Due
    <2>2. PICK k \in 1..Len(w) : w[k] = i
        BY <1>4
    <2>3. i \in Nat /\ w[k] \in Nat /\ (k < p => w[k] < w[p])
        BY <1>3, <1>8a, <1>8b, <1>8c
    <2>4. p < k
        BY <1>3, <2>1, <2>2, <2>3
    <2> QED  BY <1>3, <2>1, <2>2, <2>4 DEF Messages
<1>14. CASE iter[r] = "modified" /\ pc' = [pc EXCEPT ![r] = "failed"] /\ UNCHANGED at
    <2>1. pc'[r] = "failed" /\ ReplayTypeOK'
        BY <1>1, <1>2, <1>5, <1>14 DEF ReplayTypeOK
    <2> QED  BY <1>11, <1>12, <2>1 DEF ReplayInv
<1>15. CASE Messages(w, p) = {} /\ pc' = [pc EXCEPT ![r] = "done"] /\ UNCHANGED at
    <2>1. pc'[r] = "done" /\ ReplayTypeOK'
        BY <1>1, <1>2, <1>5, <1>15 DEF ReplayTypeOK
    <2>2. SentAll(r)'
        BY <1>7, <1>13, <1>15 DEF SentAll, h
    <2> QED  BY <1>11, <1>12, <2>1, <2>2 DEF ReplayInv
<1>16. ASSUME NEW k \in Messages(w, p), \A j \in Messages(w, p) : k <= j,
              pc' = [pc EXCEPT ![r] = "sending"], at' = [at EXCEPT ![r] = k]
       PROVE  ReplayTypeOK' /\ ReplayInv(r)'
    <2>1. k \in 1..Len(w) /\ k \in Nat /\ p < k /\ w[k] \in textual
        BY <1>3 DEF Messages
    <2>2. pc'[r] = "sending" /\ at'[r] = k /\ ReplayTypeOK'
        BY <1>1, <1>2, <1>5, <1>16, <2>1 DEF ReplayTypeOK
    <2>3. from[r] < w[k]
        BY <1>3, <1>4, <2>1
    <2>4. \A i \in Due(r) : i < w[k] => \E m \in 1..Len(h) : h[m] = i
        <3> SUFFICES ASSUME NEW i \in Due(r), i < w[k], ~\E m \in 1..Len(h) : h[m] = i PROVE FALSE
            OBVIOUS
        <3>1. PICK n \in Messages(w, p) : w[n] = i
            BY <1>13
        <3>2. k <= n /\ n \in 1..Len(w)
            BY <1>3, <1>16 DEF Messages
        <3>3. w[k] \in Nat /\ w[n] \in Nat
            BY <1>8a, <2>1, <3>2
        <3>4. k = n \/ w[k] < w[n]
            BY <1>3, <1>8b, <2>1, <3>2
        <3> QED  BY <3>1, <3>3, <3>4
    <2>4a. \A m \in 1..Len(h) : h[m] < w[k]
        <3>1. w[p] < w[k] /\ w[k] \in Nat /\ w[p] \in Nat
            BY <1>3, <1>8a, <1>8b, <2>1
        <3>2. ASSUME NEW m \in 1..Len(g) PROVE h[m] < w[k]
            <4>1. g[m] \in Nat
                BY <1>3, Elements
            <4>2. g[m] < w[p] /\ h[m] = g[m]
                BY <1>4, <1>6
            <4> QED  BY <3>1, <4>1, <4>2
        <3> QED  BY <1>6, <1>9, <3>1, <3>2
    <2>5. Walking(r)'
        BY <1>1, <1>4, <1>7, <2>1, <2>2, <2>3, <2>4, <2>4a DEF Walking, w, h, Log!Overtaken
    <2> QED  BY <1>11, <1>12, <2>2, <2>5 DEF ReplayInv
<1>17. \/ iter[r] = "modified" /\ pc' = [pc EXCEPT ![r] = "failed"] /\ UNCHANGED at
       \/ Advance(r, Messages(w, p))
    BY DEF ReplaySend, w, p
<1> QED  BY <1>14, <1>15, <1>16, <1>17 DEF Advance

-----------------------------------------------------------------------------
(* The theorems.                                                           *)

\* The initial states satisfy the invariant.
LEMMA InitInv == Init => Inv
<1> SUFFICES ASSUME Init PROVE Inv
    OBVIOUS
<1>1. <<>> \in Seq(Nat) /\ <<>> \in Seq(Streams) /\ Len(<<>>) = 0
    BY EmptySeq
<1>2. StoreTypeOK
    BY <1>1, StoreAssumption DEF Init, StoreTypeOK, Nowhere
<1>3. \A s \in Streams : deq[s] = <<>>
    BY DEF Init
<1>4. \A s \in Streams : Sorted(s) /\ Gapless(s)
    BY <1>1, <1>3 DEF Sorted, Gapless
<1>5. WithinLimits
    BY <1>1, <1>3, StoreAssumption DEF Init, WithinLimits
<1>6. IndexIsDeques
    <2>1. \A s \in Streams : Range(deq[s]) = {}
        BY <1>3 DEF Range
    <2> QED  BY <2>1 DEF Init, IndexIsDeques
<1>7. ReplayTypeOK
    BY <1>1 DEF Init, ReplayTypeOK
<1>8. \A r \in Readers : ReplayInv(r)
    BY <1>1 DEF Init, ReplayInv, Idle, SentInOrder
<1> QED  BY <1>2, <1>4, <1>5, <1>6, <1>7, <1>8 DEF Inv, StoreInv

\* The steps of a replay leave the store's invariant alone.
LEMMA StoreUnchanged == StoreInv /\ UNCHANGED storeVars => StoreInv'
BY DEF storeVars, StoreInv, StoreTypeOK, Sorted, Gapless, WithinLimits, IndexIsDeques

\* Every step keeps the invariant.
LEMMA InvStep == Inv /\ [Next]_vars => Inv'
<1> SUFFICES ASSUME Inv, [Next]_vars PROVE Inv'
    OBVIOUS
<1>1. ASSUME NEW s \in Streams, NEW m \in BOOLEAN, StoreEvent(s, m) PROVE Inv'
    <2>1. StoreInv'
        BY <1>1, StoreKeepsStore DEF Inv
    <2> QED  BY <1>1, <2>1, StoreKeepsReplays DEF Inv
<1>2. ASSUME NEW r \in Readers, NEW i \in Events, ReplayStart(r, i) PROVE Inv'
    <2>1. StoreInv' /\ UNCHANGED <<storeVars, iter>>
        BY <1>2, StoreUnchanged DEF Inv, ReplayStart
    <2>2. ReplayTypeOK' /\ ReplayInv(r)'
        BY <1>2, StartKeepsReplay
    <2>3. ASSUME NEW q \in Readers, q # r PROVE ReplayInv(q)'
        <3>1. /\ pc'[q] = pc[q] /\ from'[q] = from[q] /\ walk'[q] = walk[q] /\ at'[q] = at[q]
              /\ until'[q] = until[q] /\ got'[q] = got[q]
            BY <1>2, <2>3 DEF ReplayStart, Advance, Inv, ReplayTypeOK
        <3> QED  BY <2>1, <2>3, <3>1, OtherReplays
    <2> QED  BY <2>1, <2>2, <2>3 DEF Inv
<1>3. ASSUME NEW r \in Readers, ReplaySend(r) PROVE Inv'
    <2>1. StoreInv' /\ UNCHANGED <<storeVars, iter>>
        BY <1>3, StoreUnchanged DEF Inv, ReplaySend
    <2>2. ReplayTypeOK' /\ ReplayInv(r)'
        BY <1>3, SendKeepsReplay
    <2>3. ASSUME NEW q \in Readers, q # r PROVE ReplayInv(q)'
        <3>1. /\ pc'[q] = pc[q] /\ from'[q] = from[q] /\ walk'[q] = walk[q] /\ at'[q] = at[q]
              /\ until'[q] = until[q] /\ got'[q] = got[q]
            BY <1>3, <2>3 DEF ReplaySend, Advance, Inv, ReplayTypeOK
        <3> QED  BY <2>1, <2>3, <3>1, OtherReplays
    <2> QED  BY <2>1, <2>2, <2>3 DEF Inv
<1>4. CASE UNCHANGED vars
    <2>1. UNCHANGED storeVars /\ UNCHANGED <<last, home, textual, deq>>
          /\ UNCHANGED <<pc, from, walk, at, until, got, iter>>
        BY <1>4 DEF vars, storeVars, replayVars
    <2>2. StoreInv' /\ ReplayTypeOK'
        BY <2>1, StoreUnchanged DEF Inv, ReplayTypeOK
    <2>3. ASSUME NEW r \in Readers PROVE ReplayInv(r)'
        <3>1. ReplayInv(r)
            BY DEF Inv
        <3>2. Due(r)' = Due(r)
            BY <2>1 DEF Due
        <3>3. Walking(r) => Walking(r)'
            BY <2>1, <3>2 DEF Walking, Log!Overtaken
        <3> QED  BY <2>1, <3>1, <3>2, <3>3 DEF ReplayInv, Idle, SentInOrder, SentAll
    <2> QED  BY <2>2, <2>3 DEF Inv
<1> QED  BY <1>1, <1>2, <1>3, <1>4 DEF Next

\* The invariant holds of every reachable state.
LEMMA Invariant == Spec => []Inv
BY InitInv, InvStep, PTL DEF Spec

\* The index holds exactly the events of the deques, for any limits: eviction of
\* an event and of a stream each take out what they must and nothing else.
THEOREM IndexAgrees == Spec => []IndexIsDeques
<1>1. Inv => IndexIsDeques
    BY DEF Inv, StoreInv
<1> QED  BY <1>1, Invariant, PTL

\* The store stays within max_events_per_stream and _MAX_STREAMS.
THEOREM LimitsHold == Spec => []WithinLimits
<1>1. Inv => WithinLimits
    BY DEF Inv, StoreInv
<1> QED  BY <1>1, Invariant, PTL

\* A replay sends the messages that followed its event, in order and without a
\* gap, whatever is stored or evicted while it awaits its callbacks; all of them
\* when it ends normally.
THEOREM ReplaysAreExact == Spec => []ReplayIsExact
<1>1. Inv => ReplayIsExact
    <2> SUFFICES ASSUME Inv, NEW r \in Readers
                 PROVE  /\ \A k \in 1..Len(got[r]) : \A i \in Due(r) : i <= got[r][k] =>
                              \E m \in 1..k : got[r][m] = i
                        /\ Range(got[r]) \subseteq (IF from[r] = 0 THEN {} ELSE Due(r))
                        /\ pc[r] = "done" => Due(r) \subseteq Range(got[r])
        BY DEF ReplayIsExact, Due
    <2>1. ReplayInv(r) /\ got[r] \in Seq(Nat) /\ last \in Nat
        BY DEF Inv, ReplayTypeOK, StoreInv, StoreTypeOK
    <2>2. \A x : x \in Range(got[r]) <=> \E k \in 1..Len(got[r]) : got[r][k] = x
        BY <2>1, InRange
    <2>3. from[r] = 0 => pc[r] = "idle" /\ got[r] = <<>> /\ Len(got[r]) = 0
        BY <2>1, EmptySeq DEF ReplayInv, Idle
    <2>4. SentInOrder(r) /\ (pc[r] = "done" => SentAll(r))
        BY <2>1 DEF ReplayInv
    <2>5. Range(got[r]) \subseteq Due(r)
        BY <2>2, <2>4 DEF SentInOrder
    <2>6. from[r] = 0 => Range(got[r]) = {}
        BY <2>2, <2>3
    <2>7. pc[r] = "done" => Due(r) \subseteq Range(got[r])
        BY <2>2, <2>4 DEF SentAll
    <2> QED  BY <2>4, <2>5, <2>6, <2>7 DEF SentInOrder
<1> QED  BY <1>1, Invariant, PTL

-----------------------------------------------------------------------------
(* EventStore implements EventLog: the deques, the index and the iterators *)
(* are only a way to find the next message.                                *)

\* store_event appends to the log, whatever it drops.
LEMMA StoreIsRecord ==
    ASSUME NEW s \in Streams, NEW m \in BOOLEAN, StoreEvent(s, m)
    PROVE  Log!Record(s, m)
BY DEF StoreEvent, replayVars, Log!Record

\* A message behind all that was sent was not sent.
LEMMA NotSent ==
    ASSUME NEW g \in Seq(Nat), NEW x \in Nat, \A m \in 1..Len(g) : g[m] < x
    PROVE  x \notin Range(g)
<1> SUFFICES ASSUME x \in Range(g) PROVE FALSE
    OBVIOUS
<1>1. PICK m \in 1..Len(g) : g[m] = x
    BY InRange
<1> QED  BY <1>1

\* A replay that begins is done at once if nothing is due.
LEMMA StartIsBegin ==
    ASSUME Inv, NEW r \in Readers, NEW i \in Events, ReplayStart(r, i)
    PROVE  i \in 1..last /\ Log!Begin(r, i)
<1>1. /\ pc[r] = "idle"
      /\ from' = [from EXCEPT ![r] = i]
      /\ until' = [until EXCEPT ![r] = last]
      /\ UNCHANGED <<last, home, textual, got>>
    BY DEF ReplayStart, storeVars
<1>2. ReplayTypeOK /\ ReplayTypeOK' /\ ReplayInv(r) /\ ReplayInv(r)'
    BY StartKeepsReplay DEF Inv
<1>3. \/ pc' = [pc EXCEPT ![r] = "done"]
      \/ pc' = [pc EXCEPT ![r] = "sending"]
    BY DEF ReplayStart, Advance
<1>4. from'[r] = i /\ until'[r] = last /\ got'[r] = <<>> /\ Len(got'[r]) = 0
    BY <1>1, <1>2, EmptySeq DEF ReplayTypeOK, ReplayInv, Idle
<1>5. Due(r)' = Log!Following(i, last)
    BY <1>1, <1>4 DEF Due, Log!Following
<1>6. pc'[r] \in {"done", "sending"} /\ i \in 1..last
    <2>1. pc'[r] \in {"done", "sending"}
        BY <1>2, <1>3 DEF ReplayTypeOK
    <2> QED  BY <1>1, <1>2, <1>4, <2>1 DEF ReplayInv
<1>7. pc'[r] = "done" => Log!Following(i, last) = {}
    BY <1>2, <1>4, <1>5 DEF ReplayInv, SentAll
<1>8. pc'[r] = "sending" => Log!Following(i, last) # {}
    <2> SUFFICES ASSUME pc'[r] = "sending" PROVE Due(r)' # {}
        BY <1>5
    <2> DEFINE x == walk'[r][at'[r]]
    <2>1. Walking(r)'
        BY <1>2 DEF ReplayInv
    <2>2. /\ at'[r] \in 1..Len(walk'[r])
          /\ x \in textual' /\ from'[r] < x /\ x \in 1..until'[r] /\ home'[x] = home'[from'[r]]
        BY <2>1 DEF Walking
    <2>3. last \in Nat /\ until'[r] = last
        BY <1>4 DEF Inv, StoreInv, StoreTypeOK
    <2> HIDE DEF x
    <2>4. x <= until'[r]
        BY <2>2, <2>3
    <2> QED  BY <2>2, <2>4 DEF Due
<1>9. pc' = [pc EXCEPT ![r] = IF Log!Following(i, last) = {} THEN "done" ELSE "sending"]
    BY <1>2, <1>3, <1>7, <1>8 DEF ReplayTypeOK
<1> QED  BY <1>1, <1>6, <1>9 DEF Log!Begin

\* The next message behind the position is the next one due.
LEMMA SendIsDeliver ==
    ASSUME Inv, NEW r \in Readers, ReplaySend(r)
    PROVE  Log!Deliver(r)
<1> DEFINE j == walk[r][at[r]]
<1>1. /\ pc[r] = "sending"
      /\ got' = [got EXCEPT ![r] = Append(@, j)]
      /\ UNCHANGED <<last, home, textual, from, until>>
    BY DEF ReplaySend, storeVars
<1>2. /\ ReplayTypeOK /\ ReplayInv(r) /\ Walking(r)
      /\ last \in Nat /\ textual \subseteq 1..last
    BY <1>1 DEF Inv, StoreInv, StoreTypeOK, ReplayInv
<1>3. ReplayTypeOK' /\ ReplayInv(r)'
    BY SendKeepsReplay
<1>4. Due(r)' = Due(r) /\ Log!Left(r) = Due(r) \ Range(got[r])
    BY <1>1 DEF Due, Log!Left, Log!Following, Range, Log!Range
<1>5. j \in Log!Left(r)
    <2>1. /\ at[r] \in 1..Len(walk[r])
          /\ j \in textual /\ from[r] < j /\ j \in 1..until[r] /\ home[j] = home[from[r]]
          /\ \A m \in 1..Len(got[r]) : got[r][m] < j
        BY <1>2 DEF Walking
    <2>2. got[r] \in Seq(Nat) /\ until[r] \in Nat
        BY <1>2 DEF ReplayTypeOK
    <2> HIDE DEF j
    <2>3. j \in Nat /\ j <= until[r]
        BY <2>1, <2>2
    <2>4. j \in Due(r) /\ j \notin Range(got[r])
        BY <2>1, <2>2, <2>3, NotSent DEF Due
    <2> QED  BY <1>4, <2>4
<1>6. /\ \A i \in Due(r) : i < j => \E m \in 1..Len(got[r]) : got[r][m] = i
      /\ iter[r] = "modified" => Log!Overtaken(r)
    BY <1>2 DEF Walking
<1>7. got[r] \in Seq(Nat) /\ Due(r) \subseteq Nat
    <2>1. textual \subseteq Nat
        BY <1>2
    <2> QED  BY <1>2, <2>1 DEF ReplayTypeOK, Due
<1> HIDE DEF j
<1>8. j \in Nat /\ \A k \in Log!Left(r) : j <= k
    <2>1. j \in Nat
        BY <1>4, <1>5, <1>7
    <2>2. ASSUME NEW k \in Log!Left(r) PROVE j <= k
        <3>1. k \in Due(r) /\ k \in Nat /\ k \notin Range(got[r])
            BY <1>4, <1>7
        <3>2. ~(k < j)
            BY <1>6, <1>7, <3>1, InRange
        <3> QED  BY <2>1, <3>1, <3>2
    <2> QED  BY <2>1, <2>2
<1>9. \A x : x \in Range(got'[r]) <=> x \in Range(got[r]) \/ x = j
    <2>1. got'[r] = Append(got[r], j)
        BY <1>1, <1>2 DEF ReplayTypeOK
    <2> QED  BY <1>7, <1>8, <2>1, Appended, InRange
<1>10. pc'[r] = "done" => Log!Left(r) = {j}
    <2> SUFFICES ASSUME pc'[r] = "done" PROVE \A x \in Log!Left(r) : x = j
        BY <1>5
    <2>1. got'[r] \in Seq(Nat) /\ \A i \in Due(r) : \E m \in 1..Len(got'[r]) : got'[r][m] = i
        BY <1>3, <1>4 DEF ReplayInv, SentAll, ReplayTypeOK
    <2>2. \A i \in Due(r) : i \in Range(got'[r])
        BY <2>1, InRange
    <2> QED  BY <1>4, <1>9, <2>2
<1>11. pc'[r] = "sending" => Log!Left(r) # {j}
    <2> SUFFICES ASSUME pc'[r] = "sending" PROVE \E x \in Log!Left(r) : x # j
        OBVIOUS
    <2>1. Walking(r)'
        BY <1>3 DEF ReplayInv
    <2> DEFINE x == walk'[r][at'[r]]
    <2>2. /\ at'[r] \in 1..Len(walk'[r])
          /\ x \in textual' /\ from'[r] < x /\ x \in 1..until'[r] /\ home'[x] = home'[from'[r]]
          /\ \A m \in 1..Len(got'[r]) : got'[r][m] < x
        BY <2>1 DEF Walking
    <2>3. got'[r] \in Seq(Nat) /\ until'[r] \in Nat
        BY <1>3 DEF ReplayTypeOK
    <2> HIDE DEF x
    <2>4. x \in Nat /\ x <= until'[r]
        BY <2>2, <2>3
    <2>5. x \in Due(r)' /\ x \notin Range(got'[r])
        BY <2>2, <2>3, <2>4, NotSent DEF Due
    <2> QED  BY <1>4, <1>9, <2>5
<1>12. \/ pc' = [pc EXCEPT ![r] = IF Log!Left(r) = {j} THEN "done" ELSE "sending"]
       \/ Log!Overtaken(r) /\ pc' = [pc EXCEPT ![r] = "failed"]
    <2>1. CASE iter[r] = "modified" /\ pc' = [pc EXCEPT ![r] = "failed"]
        BY <1>6, <2>1
    <2>2. CASE pc' = [pc EXCEPT ![r] = "done"]
        BY <1>2, <1>10, <2>2 DEF ReplayTypeOK
    <2>3. CASE pc' = [pc EXCEPT ![r] = "sending"]
        BY <1>2, <1>11, <2>3 DEF ReplayTypeOK
    <2> QED  BY <2>1, <2>2, <2>3 DEF ReplaySend, Advance
<1> QED  BY <1>1, <1>5, <1>8, <1>12 DEF Log!Deliver

\* To a session that resumes, the store is an append-only log: dropped events and
\* evicted streams do not disturb a replay that has begun, every message is sent
\* once, and a replay is given up only after a further event of its stream.
THEOREM StoreImplementsLog == Spec => ImplementsLog
<1>1. Init => Log!Init
    BY DEF Init, Events, Log!Init
<1>2. Inv /\ [Next]_vars => [Log!Next]_(Log!logVars)
    <2> SUFFICES ASSUME Inv, [Next]_vars PROVE Log!Next \/ UNCHANGED Log!logVars
        OBVIOUS
    <2>1. ASSUME NEW s \in Streams, NEW m \in BOOLEAN, StoreEvent(s, m) PROVE Log!Next
        BY <2>1, StoreIsRecord DEF Log!Next
    <2>2. ASSUME NEW r \in Readers, NEW i \in Events, ReplayStart(r, i) PROVE Log!Next
        BY <2>2, StartIsBegin DEF Log!Next
    <2>3. ASSUME NEW r \in Readers, ReplaySend(r) PROVE Log!Next
        BY <2>3, SendIsDeliver DEF Log!Next
    <2>4. CASE UNCHANGED vars
        BY <2>4 DEF vars, storeVars, replayVars, Log!logVars
    <2> QED  BY <2>1, <2>2, <2>3, <2>4 DEF Next
<1> QED  BY <1>1, <1>2, Invariant, PTL DEF Spec, ImplementsLog, Log!Spec
=============================================================================
