---------------------------- MODULE SlackWebhook ----------------------------
(***************************************************************************)
(* POST /webhooks/slack (webhooks_router.py, signature.py): a signed event *)
(* is checked for freshness, claimed with SET NX EX under its event_id and *)
(* appended to the stream events:slack. Slack sends an event again until   *)
(* it gets a 200, the network may delay or repeat a request, and any       *)
(* number of handlers, in several processes, run at the same time.         *)
(*                                                                         *)
(* The other outcomes of the handler (503 unconfigured, 401 unsigned, 400  *)
(* malformed, the echo of a challenge) return before Redis is touched; no  *)
(* variable of this module changes in them.                                *)
(***************************************************************************)
EXTENDS Integers, FiniteSets

CONSTANTS
    Events,       \* events Slack has to deliver
    Anonymous,    \* those without an event_id
    Handlers,     \* concurrent runs of slack_webhook
    MaxAge,       \* _MAX_AGE_SECONDS
    DedupTTL,     \* _DEDUP_TTL_SECONDS
    Skew,         \* how far Slack's clock may be from the gateway's
    RetryWindow,  \* how long after the first attempt Slack may send again
    CmdTimeout,   \* socket_timeout of the Redis client (create_redis)
    MaxClock,     \* bound: the last instant explored
    MaxEntries,   \* bound: no more copies of an event once it has so many
    MaxFaults,    \* bound: Redis errors and crashes
    NoEvent

\* The last condition is what makes the claim outlive every acceptable copy of
\* its event; the code has 3600 > 300 + 5 with Slack's retries within minutes.
ASSUME WindowAssumption ==
    /\ Anonymous \subseteq Events
    /\ NoEvent \notin Events
    /\ MaxAge \in Nat /\ Skew \in Nat /\ RetryWindow \in Nat /\ CmdTimeout \in Nat
    /\ DedupTTL \in Nat /\ MaxClock \in Nat /\ MaxEntries \in Nat /\ MaxFaults \in Nat
    /\ DedupTTL > RetryWindow + Skew + MaxAge + CmdTimeout

VARIABLES
    clock,     \* the gateway's time
    first,     \* when Slack first sent an event, Never before that
    sent,      \* signed requests on their way, for ever: <<event, timestamp>>
    expires,   \* when the claim webhook:slack:{id} expires, Never if not made
    pc,        \* where a handler is
    event,     \* the event it handles
    since,     \* when it issued its Redis command
    entries,   \* entries of events:slack, by event
    answered,  \* events that some request got a 200 for
    faults     \* Redis errors and crashes so far

vars == <<clock, first, sent, expires, pc, event, since, entries, answered, faults>>

Never == -1

Init ==
    /\ clock = 0
    /\ first = [e \in Events |-> Never]
    /\ sent = {}
    /\ expires = [e \in Events |-> Never]
    /\ pc = [h \in Handlers |-> "idle"]
    /\ event = [h \in Handlers |-> NoEvent]
    /\ since = [h \in Handlers |-> 0]
    /\ entries = [e \in Events |-> 0]
    /\ answered = {}
    /\ faults = 0

\* Slack sends an event that nobody answered yet, signed with its own clock.
SlackSend(e, ts) ==
    /\ e \notin answered
    /\ first[e] # Never => clock <= first[e] + RetryWindow
    /\ ts - clock <= Skew /\ clock - ts <= Skew
    /\ first' = [first EXCEPT ![e] = IF @ = Never THEN clock ELSE @]
    /\ sent' = sent \union {<<e, ts>>}
    /\ UNCHANGED <<clock, expires, pc, event, since, entries, answered, faults>>

\* is_timestamp_fresh
Fresh(ts) == clock - ts <= MaxAge /\ ts - clock <= MaxAge

\* Mutant: the handler goes on with a body it could not parse.
ReceiveMutant(h, e, ts) ==
    /\ pc[h] = "idle"
    /\ <<e, ts>> \in sent /\ entries[e] < MaxEntries
    /\ Fresh(ts)
    /\ pc' = [pc EXCEPT ![h] = "append"]
    /\ since' = [since EXCEPT ![h] = clock]
    /\ UNCHANGED <<clock, first, sent, expires, event, entries, answered, faults>>

\* A copy of a request passes the checks; its handler issues the first command,
\* SET NX, or XADD when there is no event_id to claim.
Receive(h, e, ts) ==
    /\ pc[h] = "idle"
    /\ <<e, ts>> \in sent /\ entries[e] < MaxEntries
    /\ Fresh(ts)
    /\ pc' = [pc EXCEPT ![h] = IF e \in Anonymous THEN "append" ELSE "claim"]
    /\ event' = [event EXCEPT ![h] = e]
    /\ since' = [since EXCEPT ![h] = clock]
    /\ UNCHANGED <<clock, first, sent, expires, entries, answered, faults>>

Finish(h) ==
    /\ pc' = [pc EXCEPT ![h] = "idle"]
    /\ event' = [event EXCEPT ![h] = NoEvent]
    /\ since' = [since EXCEPT ![h] = 0]

Claimed(e) == expires[e] # Never /\ clock < expires[e]

InTime(h) == clock <= since[h] + CmdTimeout

\* Mutant: the claim lives as long as a request stays fresh.
ClaimMutant(h) ==
    /\ pc[h] = "claim" /\ InTime(h)
    /\ ~Claimed(event[h])
    /\ expires' = [expires EXCEPT ![event[h]] = clock + MaxAge]
    /\ pc' = [pc EXCEPT ![h] = "append"]
    /\ UNCHANGED <<clock, first, sent, event, since, entries, answered, faults>>

\* SET NX EX creates the claim, and XADD is next,
Claim(h) ==
    /\ pc[h] = "claim" /\ InTime(h)
    /\ ~Claimed(event[h])
    /\ expires' = [expires EXCEPT ![event[h]] = clock + DedupTTL]
    /\ pc' = [pc EXCEPT ![h] = "append"]
    /\ UNCHANGED <<clock, first, sent, event, since, entries, answered, faults>>

\* or finds one, and the answer is 200 "duplicate".
Duplicate(h) ==
    /\ pc[h] = "claim" /\ InTime(h)
    /\ Claimed(event[h])
    /\ answered' = answered \union {event[h]}
    /\ Finish(h)
    /\ UNCHANGED <<clock, first, sent, expires, entries, faults>>

\* Mutant: XADD is not awaited and its failure goes unnoticed.
AppendMutant(h) ==
    /\ pc[h] = "append"
    /\ answered' = answered \union {event[h]}
    /\ Finish(h)
    /\ UNCHANGED <<clock, first, sent, expires, entries, faults>>

\* XADD events:slack, and the answer is 200.
Append(h) ==
    /\ pc[h] = "append"
    /\ entries' = [entries EXCEPT ![event[h]] = @ + 1]
    /\ answered' = answered \union {event[h]}
    /\ Finish(h)
    /\ UNCHANGED <<clock, first, sent, expires, faults>>

\* A command fails, applied or not, or the process dies: no 200 for Slack, and
\* nobody takes the claim back.
Fail(h) ==
    /\ pc[h] # "idle"
    /\ faults < MaxFaults
    /\ faults' = faults + 1
    /\ \/ UNCHANGED <<expires, entries>>
       \/ /\ pc[h] = "claim" /\ InTime(h) /\ ~Claimed(event[h])
          /\ expires' = [expires EXCEPT ![event[h]] = clock + DedupTTL]
          /\ UNCHANGED entries
       \/ /\ pc[h] = "append"
          /\ entries' = [entries EXCEPT ![event[h]] = @ + 1]
          /\ UNCHANGED expires
    /\ Finish(h)
    /\ UNCHANGED <<clock, first, sent, answered>>

\* A command that takes longer than the socket timeout raises: that is Fail.
Tick ==
    /\ clock < MaxClock
    /\ clock' = clock + 1
    /\ UNCHANGED <<first, sent, expires, pc, event, since, entries, answered, faults>>

Next ==
    \/ \E e \in Events, ts \in (clock - Skew)..(clock + Skew) : SlackSend(e, ts)
    \/ \E h \in Handlers :
          \/ \E m \in sent : Receive(h, m[1], m[2])
          \/ Claim(h) \/ Duplicate(h) \/ Append(h) \/ Fail(h)
    \/ Tick

Spec == Init /\ [][Next]_vars

-----------------------------------------------------------------------------
(* Properties.                                                             *)

\* The values the variables take; a handler inside slack_webhook has an event.
TypeOK ==
    /\ clock \in Nat
    /\ first \in [Events -> Nat \union {Never}]
    /\ sent \subseteq Events \X Int
    /\ expires \in [Events -> Nat \union {Never}]
    /\ pc \in [Handlers -> {"idle", "claim", "append"}]
    /\ event \in [Handlers -> Events \union {NoEvent}]
    /\ \A h \in Handlers : pc[h] # "idle" => event[h] \in Events
    /\ since \in [Handlers -> Nat]
    /\ entries \in [Events -> Nat]
    /\ answered \subseteq Events
    /\ faults \in Nat

\* Idempotency: an event with an id is appended at most once, however often and
\* however late its requests arrive and whatever fails (_DEDUP_TTL_SECONDS
\* against _MAX_AGE_SECONDS).
AtMostOnce == \A e \in Events \ Anonymous : entries[e] <= 1

\* An event Slack was told to forget is in the stream, or its XADD is under way:
\* no 200 is given for an event that is dropped.
AnsweredIsKept ==
    \A e \in answered : entries[e] > 0 \/ \E h \in Handlers : pc[h] = "append" /\ event[h] = e

\* ... which holds as long as nothing fails: then a duplicate is answered only
\* while the XADD of the claim's owner is done or under way.
KeptUnlessFailed == faults = 0 => AnsweredIsKept
=============================================================================
