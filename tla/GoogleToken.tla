----------------------------- MODULE GoogleToken -----------------------------
(***************************************************************************)
(* The shared Google token (integrations/google/token_store.py): one Redis *)
(* record with the refresh token, the last access token and the time it    *)
(* expires. Each process seeds it when it starts; each Drive call reads    *)
(* it, and refreshes it at Google and writes it back when it is about to   *)
(* expire. Nothing serialises the processes or the calls.                  *)
(*                                                                         *)
(* An access token is represented by the time at which Google stops        *)
(* accepting it. The gateway does not know that time: it adds expires_in   *)
(* to its own clock once the reply has arrived.                            *)
(***************************************************************************)
EXTENDS Integers

CONSTANTS
    Calls,        \* concurrent runs of get_valid_google_token
    Processes,    \* gateway processes
    Configured,   \* those started with GOOGLE_SHARED_REFRESH_TOKEN
    Lifetime,     \* expires_in
    Margin,       \* the 60 seconds before expires_at
    HttpTimeout,  \* the longest a refresh takes (HttpClient timeout)
    CmdTimeout,   \* the longest a Redis command takes (socket_timeout)
    MaxClock      \* bound: the last instant explored

\* httpx allows 10 s for each of pool, connect, write and read, 40 in all, within
\* the margin of 60; expires_in is 3600, far above that and a Redis command.
ASSUME TokenAssumption ==
    /\ Lifetime \in Nat /\ Margin \in Nat /\ HttpTimeout \in Nat /\ CmdTimeout \in Nat
    /\ MaxClock \in Nat
    /\ Margin >= HttpTimeout
    /\ Lifetime > HttpTimeout + CmdTimeout

VARIABLES
    clock,    \* time
    record,   \* token:google:shared
    pc,       \* where a call is
    since,    \* when it sent the command or request it waits for
    copy,     \* the record it read, with the new token once it has one
    left,     \* history: how long the token it returned last was still valid
    boot      \* where a process is in seed_shared_token_if_absent

callVars == <<pc, since, copy, left>>
vars == <<clock, record, callVars, boot>>

None == -1   \* no access token
NoRecord == [exists |-> FALSE, access |-> None, expires_at |-> 0]
Seed     == [exists |-> TRUE, access |-> None, expires_at |-> 0]

Init ==
    /\ clock = 0
    /\ record = NoRecord
    /\ pc = [c \in Calls |-> "idle"]
    /\ since = [c \in Calls |-> 0]
    /\ copy = [c \in Calls |-> NoRecord]
    /\ left = [c \in Calls |-> 1]
    /\ boot = [p \in Processes |-> "down"]

Go(c, p) ==
    /\ pc' = [pc EXCEPT ![c] = p]
    /\ since' = [since EXCEPT ![c] = clock]

\* The call returns an access token.
Serve(c, token) ==
    /\ left' = [left EXCEPT ![c] = token - clock]
    /\ copy' = [copy EXCEPT ![c] = NoRecord]

\* A Drive tool asks for the token: store.get is on its way.
Begin(c) ==
    /\ pc[c] = "idle"
    /\ \E p \in Processes : boot[p] = "up"
    /\ Go(c, "get")
    /\ UNCHANGED <<clock, record, copy, left, boot>>

\* Redis reads the record.
Read(c) ==
    /\ pc[c] = "get"
    /\ copy' = [copy EXCEPT ![c] = record]
    /\ pc' = [pc EXCEPT ![c] = "check"]
    /\ UNCHANGED <<clock, record, since, left, boot>>

\* Mutant: no margin before the expiry the gateway computed.
FreshMutant(r) == r.expires_at > clock

Fresh(r) == r.expires_at - Margin > clock

\* Mutant: a missing record is taken for an expired one.
CheckMutant(c) ==
    /\ pc[c] = "check"
    /\ Go(c, "post")
    /\ UNCHANGED <<clock, record, copy, left, boot>>

\* The reply arrives. Without a record the call raises "User has not authorized
\* Google"; a token that is not about to expire is returned; otherwise a refresh
\* is sent to Google.
Check(c) ==
    /\ pc[c] = "check"
    /\ \/ ~copy[c].exists /\ Go(c, "idle") /\ UNCHANGED <<copy, left>>
       \/ copy[c].exists /\ Fresh(copy[c]) /\ Go(c, "idle") /\ Serve(c, copy[c].access)
       \/ copy[c].exists /\ ~Fresh(copy[c]) /\ Go(c, "post") /\ UNCHANGED <<copy, left>>
    /\ UNCHANGED <<clock, record, boot>>

\* Google issues an access token.
Issue(c) ==
    /\ pc[c] = "post"
    /\ pc' = [pc EXCEPT ![c] = "reply"]
    /\ copy' = [copy EXCEPT ![c].access = clock + Lifetime]
    /\ UNCHANGED <<clock, record, since, left, boot>>

\* Its reply arrives, and the copy goes back to the store.
Reply(c) ==
    /\ pc[c] = "reply"
    /\ copy' = [copy EXCEPT ![c].expires_at = clock + Lifetime]
    /\ Go(c, "set")
    /\ UNCHANGED <<clock, record, left, boot>>

\* Redis writes the record, whatever it holds by now.
Write(c) ==
    /\ pc[c] = "set"
    /\ record' = copy[c]
    /\ pc' = [pc EXCEPT ![c] = "return"]
    /\ UNCHANGED <<clock, since, copy, left, boot>>

Return(c) ==
    /\ pc[c] = "return"
    /\ Go(c, "idle")
    /\ Serve(c, copy[c].access)
    /\ UNCHANGED <<clock, record, boot>>

\* The call raises: Redis fails, Google refuses the refresh (OAuthRefreshError
\* when the grant is revoked) or cannot be reached.
Raise(c) ==
    /\ pc[c] # "idle"
    /\ Go(c, "idle")
    /\ copy' = [copy EXCEPT ![c] = NoRecord]
    /\ UNCHANGED <<clock, record, left, boot>>

\* seed_shared_token_if_absent reads the record, if it has a token to seed,
SeedCheck(p) ==
    /\ boot[p] = "down"
    /\ boot' = [boot EXCEPT ![p] = IF p \notin Configured \/ record.exists THEN "up" ELSE "seeding"]
    /\ UNCHANGED <<clock, record, callVars>>

\* and writes an expired one when there was none.
SeedWrite(p) ==
    /\ boot[p] = "seeding"
    /\ record' = Seed
    /\ boot' = [boot EXCEPT ![p] = "up"]
    /\ UNCHANGED <<clock, callVars>>

\* A process restarts.
Restart(p) ==
    /\ boot[p] # "down"
    /\ boot' = [boot EXCEPT ![p] = "down"]
    /\ UNCHANGED <<clock, record, callVars>>

\* How long a call may wait where it is.
Patience(p) ==
    CASE p \in {"get", "check", "set", "return"} -> CmdTimeout
      [] p \in {"post", "reply"} -> HttpTimeout

\* Time passes, up to the timeout of every call; then the call has to go on or
\* to raise.
Tick ==
    /\ clock < MaxClock
    /\ \A c \in Calls : pc[c] # "idle" => clock < since[c] + Patience(pc[c])
    /\ clock' = clock + 1
    /\ UNCHANGED <<record, callVars, boot>>

CallStep(c) ==
    \/ Read(c) \/ Check(c) \/ Issue(c) \/ Reply(c) \/ Write(c) \/ Return(c) \/ Raise(c)

Next ==
    \/ \E c \in Calls : Begin(c) \/ CallStep(c)
    \/ \E p \in Processes : SeedCheck(p) \/ SeedWrite(p) \/ Restart(p)
    \/ Tick

Spec == Init /\ [][Next]_vars

-----------------------------------------------------------------------------
(* Properties.                                                             *)

\* The values the variables take; a call refreshes only what it has read.
TypeOK ==
    /\ clock \in Nat
    /\ record \in [exists : BOOLEAN, access : Nat \union {None}, expires_at : Nat]
    /\ pc \in [Calls -> {"idle", "get", "check", "post", "reply", "set", "return"}]
    /\ since \in [Calls -> Nat]
    /\ copy \in [Calls -> [exists : BOOLEAN, access : Nat \union {None}, expires_at : Nat]]
    /\ \A c \in Calls : pc[c] \in {"post", "reply", "set", "return"} => copy[c].exists
    /\ left \in [Calls -> Int]
    /\ boot \in [Processes -> {"down", "seeding", "up"}]

\* A call never returns a token that Google has already stopped accepting, nor
\* the empty token of a fresh seed: the margin covers what the refresh and the
\* write took after the token was issued.
ServedIsValid == \A c \in Calls : left[c] > 0
=============================================================================
