------------------------------ MODULE ToolCalls ------------------------------
(***************************************************************************)
(* A call of a Drive or Slack tool: the dispatch with its scope check      *)
(* (mcp/server.py), the tool's handler (tools.py of both integrations),    *)
(* the HTTP client with its retries (drive_client.py, slack_client.py) and *)
(* the usage record (shared/usage.py).                                     *)
(*                                                                         *)
(* What a call sends or gets back is abstracted to how the code reacts to  *)
(* it; one action stands for what happens between two awaits. A call that  *)
(* ended keeps its history until its place is used again.                  *)
(***************************************************************************)
EXTENDS DriveQuery

CONSTANTS
    Calls,       \* concurrent tool calls
    Anonymous,   \* those whose session has no user id, or a registry without Redis
    MaxRetries,  \* GOOGLE_DRIVE_MAX_RETRIES, SLACK_MAX_RETRIES: attempts in all
    MaxFaults    \* bound: failures of the usage record

ASSUME RetriesAssumption ==
    MaxRetries \in Nat \ {0} /\ MaxFaults \in Nat /\ Anonymous \subseteq Calls

VARIABLES
    pc,        \* where a call is
    tool,      \* the tool it runs
    attempt,   \* number of the attempt
    part,      \* number of the request within the attempt
    outcome,   \* how its handler ended: an "ok" or "error" result, "raised", "cancelled"
    posted,    \* history: messages Slack posted for it
    broken,    \* history: attempts that ended in a server error
    metered,   \* history: usage records written for it
    faults     \* failures of the usage record so far

historyVars == <<posted, broken, metered>>
vars == <<pc, tool, attempt, part, outcome, historyVars, faults>>

DriveTools == {"drive-search-files", "drive-get-file-content", "drive-list-recent"}
SlackTools == {"slack-send-message", "slack-search-messages"}
Tools == DriveTools \union SlackTools
AllScopes == {"mcp:google:read", "mcp:slack:read"}

\* TOOL_SCOPE
Required(t) == IF t \in DriveTools THEN "mcp:google:read" ELSE "mcp:slack:read"

\* get_file_content sends two requests in an attempt: metadata, then content.
Parts(t) == IF t = "drive-get-file-content" THEN 2 ELSE 1

Init ==
    /\ pc = [c \in Calls |-> "idle"]
    /\ tool = [c \in Calls |-> "drive-search-files"]
    /\ attempt = [c \in Calls |-> 1]
    /\ part = [c \in Calls |-> 1]
    /\ outcome = [c \in Calls |-> "none"]
    /\ posted = [c \in Calls |-> 0]
    /\ broken = [c \in Calls |-> 0]
    /\ metered = [c \in Calls |-> 0]
    /\ faults = 0

-----------------------------------------------------------------------------
(* The ends of a handler.                                                  *)

\* The handler returns a result, and track_usage goes on to record it.
Answer(c, result) ==
    /\ outcome' = [outcome EXCEPT ![c] = result]
    /\ pc' = [pc EXCEPT ![c] = "meter"]

\* An exception leaves the handler and track_usage, which records nothing.
Raise(c) ==
    /\ outcome' = [outcome EXCEPT ![c] = "raised"]
    /\ pc' = [pc EXCEPT ![c] = "idle"]

\* _call: a known tool for which the session has the scope; the others are
\* "Unknown tool" and change nothing. Arguments that do not validate are
\* answered at once, otherwise the upstream token is looked up.
Dispatch(c, t, scopes) ==
    /\ pc[c] = "idle"
    /\ Required(t) \in scopes
    /\ tool' = [tool EXCEPT ![c] = t]
    /\ attempt' = [attempt EXCEPT ![c] = 1]
    /\ part' = [part EXCEPT ![c] = 1]
    /\ posted' = [posted EXCEPT ![c] = 0]
    /\ broken' = [broken EXCEPT ![c] = 0]
    /\ metered' = [metered EXCEPT ![c] = 0]
    /\ \/ Answer(c, "error")
       \/ pc' = [pc EXCEPT ![c] = "token"] /\ outcome' = [outcome EXCEPT ![c] = "none"]
    /\ UNCHANGED faults

\* The shared token is found; or there is none, which is an answer; or the store,
\* the decryption or the refresh raises.
Token(c) ==
    /\ pc[c] = "token"
    /\ \/ pc' = [pc EXCEPT ![c] = "send"] /\ UNCHANGED outcome
       \/ Answer(c, "error")
       \/ Raise(c)
    /\ UNCHANGED <<tool, attempt, part, historyVars, faults>>

-----------------------------------------------------------------------------
(* The HTTP clients.                                                       *)

\* A reply as the code tells replies apart: "ok"; 429; 500, 502 or 503; another
\* error status; a timeout or another transport error; a body that does not
\* have the expected fields; and ok = false, which only Slack sends.
Replies == {"ok", "429", "5xx", "status", "transport", "malformed", "not ok"}

Sends(t, r) == r = "not ok" => t \in SlackTools

\* Mutant: a timeout is retried as well.
IsRetryableMutant(r) == r \in {"429", "5xx", "transport"}

\* _is_retryable, the same in both clients.
IsRetryable(r) == r \in {"429", "5xx"}

\* The tools turn few exceptions into results: the search those of HTTP, the
\* Slack tools SlackAPIError.
Caught(t, r) ==
    \/ t = "drive-search-files" /\ r \in {"429", "5xx", "status", "transport"}
    \/ t \in SlackTools /\ r = "not ok"

\* How many messages a request posts: one when the reply says so; none or one
\* when the server failed or the reply did not arrive or is unreadable.
MayPost(t, r) ==
    {n \in {0, 1} :
        /\ n = 1 => t = "slack-send-message" /\ r \in {"ok", "5xx", "transport", "malformed"}
        /\ t = "slack-send-message" /\ r = "ok" => n = 1}

Send(c) ==
    /\ pc[c] = "send"
    /\ pc' = [pc EXCEPT ![c] = "reply"]
    /\ UNCHANGED <<tool, attempt, part, outcome, historyVars, faults>>

\* Mutant: every attempt may be followed by another one.
MayRetryMutant(c, r) == IsRetryable(r)

\* stop_after_attempt
MayRetry(c, r) == IsRetryable(r) /\ attempt[c] < MaxRetries

\* The reply r arrives: the next request of the attempt, the result, another
\* attempt after a pause, or an exception for the tool.
Reply(c, r) ==
    /\ pc[c] = "reply" /\ Sends(tool[c], r)
    /\ \E n \in MayPost(tool[c], r) : posted' = [posted EXCEPT ![c] = @ + n]
    /\ broken' = [broken EXCEPT ![c] = IF r = "5xx" THEN @ + 1 ELSE @]
    /\ IF r = "ok" /\ part[c] < Parts(tool[c])
       THEN /\ part' = [part EXCEPT ![c] = @ + 1]
            /\ pc' = [pc EXCEPT ![c] = "send"]
            /\ UNCHANGED outcome
       ELSE /\ UNCHANGED part
            /\ \/ r = "ok" /\ Answer(c, "ok")
               \/ r # "ok" /\ MayRetry(c, r)
                  /\ pc' = [pc EXCEPT ![c] = "pause"] /\ UNCHANGED outcome
               \/ r # "ok" /\ ~MayRetry(c, r) /\ Caught(tool[c], r) /\ Answer(c, "error")
               \/ r # "ok" /\ ~MayRetry(c, r) /\ ~Caught(tool[c], r) /\ Raise(c)
    /\ UNCHANGED <<tool, attempt, metered, faults>>

\* Mutant: the last attempt that the pause was for is not made.
RetryMutant(c) ==
    /\ pc[c] = "pause" /\ attempt[c] + 1 < MaxRetries
    /\ attempt' = [attempt EXCEPT ![c] = @ + 1]
    /\ part' = [part EXCEPT ![c] = 1]
    /\ pc' = [pc EXCEPT ![c] = "send"]
    /\ UNCHANGED <<tool, outcome, historyVars, faults>>

\* wait_exponential is over: the next attempt starts from the first request.
Retry(c) ==
    /\ pc[c] = "pause"
    /\ attempt' = [attempt EXCEPT ![c] = @ + 1]
    /\ part' = [part EXCEPT ![c] = 1]
    /\ pc' = [pc EXCEPT ![c] = "send"]
    /\ UNCHANGED <<tool, outcome, historyVars, faults>>

-----------------------------------------------------------------------------
(* track_usage.                                                            *)

\* record_usage, when there is a user to record it for, and the result goes to the
\* caller.
Meter(c) ==
    /\ pc[c] = "meter"
    /\ metered' = [metered EXCEPT ![c] = IF c \in Anonymous THEN @ ELSE @ + 1]
    /\ pc' = [pc EXCEPT ![c] = "idle"]
    /\ UNCHANGED <<tool, attempt, part, outcome, posted, broken, faults>>

\* Mutant: a record that failed is written again.
MeterErrorMutant(c) ==
    /\ pc[c] = "meter" /\ c \notin Anonymous
    /\ faults < MaxFaults
    /\ faults' = faults + 1
    /\ \E n \in {0, 1} : metered' = [metered EXCEPT ![c] = @ + n]
    /\ UNCHANGED <<pc, tool, attempt, part, outcome, posted, broken>>

\* Counting the tokens fails, or the XADD does, applied or not; the exception is
\* logged and the result goes to the caller.
MeterError(c) ==
    /\ pc[c] = "meter" /\ c \notin Anonymous
    /\ faults < MaxFaults
    /\ faults' = faults + 1
    /\ \E n \in {0, 1} : metered' = [metered EXCEPT ![c] = @ + n]
    /\ pc' = [pc EXCEPT ![c] = "idle"]
    /\ UNCHANGED <<tool, attempt, part, outcome, posted, broken>>

-----------------------------------------------------------------------------

\* The task of a call is cancelled at one of its awaits: the session ends, or the
\* client gives the call up. The request or the XADD under way may have taken
\* effect; CancelledError passes every `except Exception`, track_usage's too.
Cancel(c) ==
    /\ pc[c] \in {"token", "reply", "pause"} \/ (pc[c] = "meter" /\ c \notin Anonymous)
    /\ outcome' = [outcome EXCEPT ![c] = "cancelled"]
    /\ pc' = [pc EXCEPT ![c] = "idle"]
    /\ \E n \in IF pc[c] = "reply" THEN MayPost(tool[c], "transport") ELSE {0} :
          posted' = [posted EXCEPT ![c] = @ + n]
    /\ \E n \in IF pc[c] = "meter" THEN {0, 1} ELSE {0} :
          metered' = [metered EXCEPT ![c] = @ + n]
    /\ UNCHANGED <<tool, attempt, part, broken, faults>>

CallStep(c) ==
    \/ Token(c) \/ Send(c) \/ (\E r \in Replies : Reply(c, r)) \/ Retry(c)
    \/ Meter(c) \/ MeterError(c)

Next ==
    \E c \in Calls :
        \/ \E t \in Tools, scopes \in SUBSET AllScopes : Dispatch(c, t, scopes)
        \/ CallStep(c) \/ Cancel(c)

Spec == Init /\ [][Next]_vars

\* Every await of a call ends: requests and Redis commands by their timeouts, and
\* the pause by itself. No call has to be cancelled.
FairSpec == Spec /\ \A c \in Calls : WF_vars(CallStep(c))

-----------------------------------------------------------------------------
(* Properties.                                                             *)

\* The values the variables take.
TypeOK ==
    /\ pc \in [Calls -> {"idle", "token", "send", "reply", "pause", "meter"}]
    /\ tool \in [Calls -> Tools]
    /\ attempt \in [Calls -> 1..MaxRetries]
    /\ part \in [Calls -> 1..2]
    /\ outcome \in [Calls -> {"none", "ok", "error", "raised", "cancelled"}]
    /\ posted \in [Calls -> Nat]
    /\ broken \in [Calls -> Nat]
    /\ metered \in [Calls -> Nat]
    /\ faults \in 0..MaxFaults

\* A call reports success only after its message was posted, and posts it twice
\* only when Slack answered an earlier attempt with a server error: what may
\* have been posted without an answer is not sent again.
PostedOnce ==
    \A c \in Calls :
        /\ posted[c] <= 1 + broken[c]
        /\ tool[c] = "slack-send-message" /\ outcome[c] = "ok" => posted[c] >= 1

\* A result given to a user has one usage record, and an exception none, however
\* many attempts the call took: a failure of the record may cost it but never adds
\* one. A call without a user leaves none; a cancelled one at most the one that was
\* being written.
MeteredOnce ==
    \A c \in Calls :
        /\ metered[c] <= 1
        /\ c \in Anonymous \/ outcome[c] \in {"none", "raised"} => metered[c] = 0
        /\ pc[c] = "idle" /\ outcome[c] \in {"ok", "error"} /\ faults = 0 /\ c \notin Anonymous
              => metered[c] = 1

\* A search on its way to Drive asks what its caller meant, whatever the caller
\* put into the filters: handle_drive_search_files sends what build_drive_query
\* composed.
SearchAsksItsFilters ==
    \A c \in Calls : pc[c] = "reply" /\ tool[c] = "drive-search-files" => QueryMeansFilters

\* Every call ends, whatever the upstream answers: the attempts are bounded, and
\* every pause is followed by one.
CallsEnd == \A c \in Calls : pc[c] # "idle" ~> pc[c] = "idle"
=============================================================================
