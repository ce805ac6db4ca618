----------------------------- MODULE EventStore -----------------------------
(***************************************************************************)
(* The in-memory store of MCP server events (event_store.py): per stream a *)
(* bounded deque, a bounded number of streams, an index of event ids, and  *)
(* the replay of what followed an event. store_event runs without an await *)
(* and is one step; a replay awaits its callback for every event, and the  *)
(* store may change in between. The iterator of a deque raises             *)
(* RuntimeError once the deque was modified; a deque that was evicted with *)
(* its stream is not modified any more.                                    *)
(***************************************************************************)
EXTENDS Integers, Sequences, Functions

CONSTANTS
    Streams,     \* stream ids
    Readers,     \* concurrent replays
    MaxPerStream,\* max_events_per_stream
    MaxStreams,  \* _MAX_STREAMS
    MaxEvents    \* bound: events stored in a run

ASSUME StoreAssumption ==
    MaxPerStream \in Nat \ {0} /\ MaxStreams \in Nat \ {0} /\ MaxEvents \in Nat

VARIABLES
    last,     \* events stored so far; the n-th has id n (a fresh uuid4)
    home,     \* history: the stream an event was stored to
    textual,  \* events that carry a message
    order,    \* the keys of self.streams, oldest first
    deq,      \* the deque of each stream, empty when there is none
    index,    \* the keys of self.event_index
    pc,       \* where a replay is
    from,     \* its last_event_id
    walk,     \* the deque it iterates over, as it was when the loop began
    at,       \* the position in it of the message whose callback is awaited
    iter,     \* that deque by now: still as stored, modified, or evicted
    until,    \* history: the last event stored when it began
    got       \* what it sent

storeVars  == <<last, home, textual, order, deq, index>>
replayVars == <<pc, from, walk, at, until, got>>
vars == <<storeVars, replayVars, iter>>

Events == 1..MaxEvents

Init ==
    /\ last = 0
    /\ home = [i \in Events |-> CHOOSE s \in Streams : TRUE]
    /\ textual = {}
    /\ order = <<>>
    /\ deq = [s \in Streams |-> <<>>]
    /\ index = {}
    /\ pc = [r \in Readers |-> "idle"]
    /\ from = [r \in Readers |-> 0]
    /\ walk = [r \in Readers |-> <<>>]
    /\ at = [r \in Readers |-> 0]
    /\ iter = [r \in Readers |-> "stored"]
    /\ until = [r \in Readers |-> 0]
    /\ got = [r \in Readers |-> <<>>]

Full(s) == Len(deq[s]) = MaxPerStream

\* Mutant: the number of streams is not checked.
EvictedMutant(s) == {}

\* A new stream pushes out the one that was created first.
Evicted(s) ==
    IF s \notin Range(order) /\ Len(order) >= MaxStreams THEN {Head(order)} ELSE {}

\* Mutants: the entries of an evicted stream, or the one that falls out of a
\* full deque, stay in the index.
KeepEvictedMutant(s) == IF Full(s) THEN {Head(deq[s])} ELSE {}

KeepOldestMutant(s) == UNION {Range(deq[v]) : v \in Evicted(s)}

\* What leaves the index: the evicted stream's entries, and the oldest entry of
\* a full deque.
Dropped(s) ==
    (UNION {Range(deq[v]) : v \in Evicted(s)})
        \union (IF Full(s) THEN {Head(deq[s])} ELSE {})

\* Mutant: the deque of an evicted stream is cleared.
IterAfterMutant(r, s) ==
    IF pc[r] # "sending" \/ iter[r] # "stored" THEN iter[r]
    ELSE IF home[from[r]] \in {s} \union Evicted(s) THEN "modified" ELSE "stored"

\* What an event stored to s does to the deque that replay r iterates over.
IterAfter(r, s) ==
    IF pc[r] # "sending" \/ iter[r] # "stored" THEN iter[r]
    ELSE IF home[from[r]] = s THEN "modified"
    ELSE IF home[from[r]] \in Evicted(s) THEN "evicted" ELSE "stored"

\* store_event
StoreEvent(s, hasMessage) ==
    /\ last < MaxEvents
    /\ LET id == last + 1 IN
       /\ last' = id
       /\ home' = [home EXCEPT ![id] = s]
       /\ textual' = IF hasMessage THEN textual \union {id} ELSE textual
       /\ order' = IF s \in Range(order) THEN order
                   ELSE Append(IF Evicted(s) = {} THEN order ELSE Tail(order), s)
       /\ deq' = [t \in Streams |->
                    CASE t = s -> Append(IF Full(s) THEN Tail(deq[s]) ELSE deq[s], id)
                      [] t # s /\ t \in Evicted(s) -> <<>>
                      [] OTHER -> deq[t]]
       /\ index' = (index \ Dropped(s)) \union {id}
    /\ iter' = [r \in Readers |-> IterAfter(r, s)]
    /\ UNCHANGED replayVars

\* Where the messages of the deque d behind position p are.
Messages(d, p) == {k \in (p + 1)..Len(d) : d[k] \in textual}

\* The loop goes on to the first of the messages that are left and awaits its
\* callback, or ends.
Advance(r, left) ==
    \/ /\ left = {}
       /\ pc' = [pc EXCEPT ![r] = "done"]
       /\ UNCHANGED at
    \/ \E k \in left :
          /\ \A j \in left : k <= j
          /\ pc' = [pc EXCEPT ![r] = "sending"]
          /\ at' = [at EXCEPT ![r] = k]

\* replay_events_after up to its first await. For an id that is not in the
\* index it returns None and nothing happens; one that is not in its deque is
\* never found by the loop.
ReplayStart(r, i) ==
    /\ pc[r] = "idle"
    /\ i \in index
    /\ LET d == deq[home[i]]
       IN  /\ walk' = [walk EXCEPT ![r] = d]
           /\ Advance(r, UNION {Messages(d, p) : p \in {q \in 1..Len(d) : d[q] = i}})
    /\ from' = [from EXCEPT ![r] = i]
    /\ until' = [until EXCEPT ![r] = last]
    /\ UNCHANGED <<storeVars, iter, got>>

\* send_callback returns: the iterator raises when the deque was modified in
\* the meantime, and goes on to the next message otherwise.
ReplaySend(r) ==
    /\ pc[r] = "sending"
    /\ got' = [got EXCEPT ![r] = Append(@, walk[r][at[r]])]
    /\ \/ /\ iter[r] = "modified"
          /\ pc' = [pc EXCEPT ![r] = "failed"]
          /\ UNCHANGED at
       \/ /\ iter[r] # "modified"
          /\ Advance(r, Messages(walk[r], at[r]))
    /\ UNCHANGED <<storeVars, iter, from, walk, until>>

Next ==
    \/ \E s \in Streams, hasMessage \in BOOLEAN : StoreEvent(s, hasMessage)
    \/ \E r \in Readers : (\E i \in Events : ReplayStart(r, i)) \/ ReplaySend(r)

Spec == Init /\ [][Next]_vars

-----------------------------------------------------------------------------
(* Properties.                                                             *)

\* The index holds exactly the events of the deques: an id that can be replayed
\* from is in its stream, and no forgotten event keeps memory.
IndexIsDeques == index = UNION {Range(deq[s]) : s \in Streams}

\* The store stays within its limits: the deques that exist are those of the
\* ordered streams, at most MaxStreams of them and each at most MaxPerStream.
WithinLimits ==
    /\ Len(order) <= MaxStreams
    /\ \A s \in Streams : Len(deq[s]) <= MaxPerStream /\ (deq[s] # <<>> => s \in Range(order))

\* A replay sends, in order and without a gap or an event of another stream,
\* the messages that were stored after the given event and before it began;
\* all of them when it ends normally.
ReplayIsExact ==
    \A r \in Readers :
        LET due == {i \in textual : from[r] < i /\ i <= until[r] /\ home[i] = home[from[r]]}
        IN  /\ \A k \in 1..Len(got[r]) : \A i \in due : i <= got[r][k] =>
                  \E m \in 1..k : got[r][m] = i
            /\ Range(got[r]) \subseteq (IF from[r] = 0 THEN {} ELSE due)
            /\ pc[r] = "done" => due \subseteq Range(got[r])

\* To a session that resumes, the store is the log of EventLog: its limits decide
\* which events can be resumed from, but once a replay has begun, nothing that is
\* dropped or evicted shows. It fails only after a further event of its stream.
Log == INSTANCE EventLog
ImplementsLog == Log!Spec

\* A replay from a stored event delivers the events after it and returns.
ReplayNeverFails == \A r \in Readers : pc[r] # "failed"
=============================================================================
