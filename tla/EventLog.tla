------------------------------ MODULE EventLog ------------------------------
(***************************************************************************)
(* What the event store promises to the sessions that resume: a log that   *)
(* is only appended to, without deques, limits or an index. A replay       *)
(* delivers the messages that its stream got between the given event and   *)
(* the moment it began, one after the other, and ends when it delivered    *)
(* the last one. It may be given up only after a further event of its own  *)
(* stream. EventStore implements it (EventStore!Log).                      *)
(***************************************************************************)
EXTENDS Naturals, Sequences, Functions

CONSTANTS Streams, Readers, MaxEvents

VARIABLES last, home, textual, pc, from, until, got

logVars == <<last, home, textual, pc, from, until, got>>

Init ==
    /\ last = 0
    /\ home = [i \in 1..MaxEvents |-> CHOOSE s \in Streams : TRUE]
    /\ textual = {}
    /\ pc = [r \in Readers |-> "idle"]
    /\ from = [r \in Readers |-> 0]
    /\ until = [r \in Readers |-> 0]
    /\ got = [r \in Readers |-> <<>>]

\* store_event: the next event, of this stream, with or without a message.
Record(s, hasMessage) ==
    /\ last < MaxEvents
    /\ last' = last + 1
    /\ home' = [home EXCEPT ![last + 1] = s]
    /\ textual' = IF hasMessage THEN textual \union {last + 1} ELSE textual
    /\ UNCHANGED <<pc, from, until, got>>

\* The messages of i's stream after i and up to the event n.
Following(i, n) == {j \in textual : i < j /\ j <= n /\ home[j] = home[i]}

\* What replay r has yet to deliver.
Left(r) == Following(from[r], until[r]) \ Range(got[r])

\* replay_events_after: everything that follows i is due from now on.
Begin(r, i) ==
    /\ pc[r] = "idle"
    /\ i \in 1..last
    /\ from' = [from EXCEPT ![r] = i]
    /\ until' = [until EXCEPT ![r] = last]
    /\ pc' = [pc EXCEPT ![r] = IF Following(i, last) = {} THEN "done" ELSE "sending"]
    /\ UNCHANGED <<last, home, textual, got>>

\* The stream of replay r got an event after the replay began.
Overtaken(r) == \E j \in (until[r] + 1)..last : home[j] = home[from[r]]

\* The next message is delivered: the replay ends with the last one, goes on, or
\* is given up when it was overtaken.
Deliver(r) ==
    /\ pc[r] = "sending"
    /\ \E j \in Left(r) :
          /\ \A k \in Left(r) : j <= k
          /\ got' = [got EXCEPT ![r] = Append(@, j)]
          /\ \/ pc' = [pc EXCEPT ![r] = IF Left(r) = {j} THEN "done" ELSE "sending"]
             \/ Overtaken(r) /\ pc' = [pc EXCEPT ![r] = "failed"]
    /\ UNCHANGED <<last, home, textual, from, until>>

Next ==
    \/ \E s \in Streams, hasMessage \in BOOLEAN : Record(s, hasMessage)
    \/ \E r \in Readers : (\E i \in 1..last : Begin(r, i)) \/ Deliver(r)

Spec == Init /\ [][Next]_logVars
=============================================================================
