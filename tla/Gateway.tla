------------------------------- MODULE Gateway -------------------------------
(***************************************************************************)
(* A request on its way through the gateway: the stack of middlewares      *)
(* (main.py), the guards in it, and the application behind them: the MCP   *)
(* sessions with the identity they capture (mcp/server.py), the admin      *)
(* report (usage_router.py) and the public routes. Composed with the       *)
(* lifespan of the processes that serve it (Lifespan).                     *)
(*                                                                         *)
(* Up to the limiter no middleware awaits anything but the next one, so    *)
(* what they answer is a function of the request (Refusal); a refused      *)
(* request leaves nothing behind but its line in the request log. How long *)
(* a session lasts and in which context its task runs is the MCP library's *)
(* doing: the task is started inside the request that opens the session    *)
(* and keeps a copy of its context.                                        *)
(***************************************************************************)
EXTENDS Lifespan, FiniteSets

CONSTANTS
    Slots,      \* concurrent requests
    Sessions,   \* session ids; uuid4 yields each of them at most once
    Claims,     \* valid tokens, with their claims: sub, scope and client roles
    Called,     \* the names that callers give to tools/call and prompts/get
    NoSession, Idle

VARIABLES
    flight,     \* a request that passed the guards, and where it is
    session,    \* a session: its process and the context it captured
    listed,     \* history: the tools and prompts a session was told of
    unlogged    \* history: the answers, but to preflights, without a line in the log

vars == <<lifeVars, flight, session, listed, unlogged>>

-----------------------------------------------------------------------------
(* Scopes and tools.                                                       *)

\* _ROLE_SCOPE_MAP
RoleScope == [r \in {"drive-user", "slack-user", "admin-user"} |->
    CASE r = "drive-user" -> "mcp:google:read"
      [] r = "slack-user" -> "mcp:slack:read"
      [] OTHER -> "mcp:admin:read"]

\* The scopes a token gives: those of its scope claim and those of its roles.
Scopes(t) ==
    Claims[t].scope \union {RoleScope[r] : r \in Claims[t].roles \intersect DOMAIN RoleScope}

\* _GROUPS and _PROMPT_GROUPS, and the names the registries hold a handler for.
\* (The mutant declares a tool without one.)
DriveNames  == {"drive-search-files", "drive-get-file-content", "drive-list-recent"}
JobNames    == {"drive-export-large-file", "wait-for-job"}
SlackNames  == {"slack-send-message", "slack-search-messages"}
PromptNames == {"drive-find-document"}
GroupsMutant == {[names |-> DriveNames \union {"drive-delete-file"}, scope |-> "mcp:google:read"],
                 [names |-> JobNames, scope |-> "mcp:google:read"],
                 [names |-> SlackNames, scope |-> "mcp:slack:read"]}
Groups == {[names |-> DriveNames, scope |-> "mcp:google:read"],
           [names |-> JobNames, scope |-> "mcp:google:read"],
           [names |-> SlackNames, scope |-> "mcp:slack:read"]}
PromptGroups == {[names |-> PromptNames, scope |-> "mcp:google:read"]}
Registry == DriveNames \union JobNames \union SlackNames \union PromptNames

\* visible_tools and visible_prompts
Visible(groups, scopes) == UNION {g.names : g \in {h \in groups : h.scope \in scopes}}

\* Mutant: _get_prompt does not test the scope.
CallableMutant(n, scopes) ==
    n \in Registry /\ \A g \in Groups : n \in g.names => g.scope \in scopes

\* The test of _call, by TOOL_SCOPE, and of _get_prompt, by PROMPT_SCOPE; a name
\* without an entry needs no scope, but then it has no handler either. A name
\* stands for the request that fits it: no prompt has the name of a tool.
Callable(n, scopes) ==
    n \in Registry /\ \A g \in Groups \union PromptGroups : n \in g.names => g.scope \in scopes

-----------------------------------------------------------------------------
(* The middlewares.                                                        *)

\* A request as the code tells requests apart. Tokens that TokenValidator turns
\* down with ValueError are "rejected"; one it cannot even parse is "garbled". A
\* request without an Origin counts as allowed. The operation "stream" is GET /mcp/,
\* with or without the Last-Event-ID of a stream to resume. What a request without a session
\* asks for, the token of a request for a public path, and a second initialize in
\* a session make no difference to the state.
Tokens == DOMAIN Claims
BypassPaths ==
    {"/openapi.json", "/oauth/authorize", "/health", "/.well-known", "/docs", "/webhooks"}
Paths == {"/mcp/", "/admin/usage", "/health"}
Ops == {"initialize", "tools", "prompts", "delete", "stream"} \union Called
Requests ==
    {q \in [path : Paths, preflight : BOOLEAN, origin : {"allowed", "foreign"},
            auth : {"none", "rejected", "garbled"} \union Tokens,
            session : Sessions \union {NoSession}, op : Ops] :
        /\ q.path # "/mcp/" => q.session = NoSession /\ q.origin = "allowed"
        /\ q.session = NoSession <=> q.op = "initialize"
        /\ q.path \in BypassPaths => q.auth = "none"}

\* Mutants: the limiter is added after the guard, or the guard after the logger.
LimiterOutside ==
    <<"SecurityHeaders", "CORS", "request_logging", "OriginGuard", "RateLimiter", "AccessGuard">>
GuardOutside ==
    <<"SecurityHeaders", "CORS", "OriginGuard", "AccessGuard", "request_logging", "RateLimiter">>

\* From the outside to the inside: the last one added comes first.
Stack ==
    <<"SecurityHeaders", "CORS", "request_logging", "OriginGuard", "AccessGuard", "RateLimiter">>

\* OriginGuardMiddleware looks at MCP requests only, AccessGuard at all but the
\* public ones.
ForeignOrigin(q) == q.path = "/mcp/" /\ q.origin = "foreign"
Guarded(q) == q.path \notin BypassPaths

\* What a middleware does with a request by itself: an answer, an exception that
\* nobody catches, or "pass". RateLimiter asks Redis first (Limit).
Verdict(m, q) ==
    CASE m = "CORS" /\ q.preflight -> "preflight"
      [] m = "OriginGuard" /\ ForeignOrigin(q) -> "403"
      [] m = "AccessGuard" /\ Guarded(q) /\ q.auth \in {"none", "rejected"} -> "401"
      [] m = "AccessGuard" /\ Guarded(q) /\ q.auth = "garbled" -> "raise"
      [] OTHER -> "pass"

Position(m) == CHOOSE i \in 1..Len(Stack) : Stack[i] = m

\* The place of the first middleware that does not pass the request on.
Stops(q) == {i \in 1..Len(Stack) : Verdict(Stack[i], q) # "pass"}
Refusal(q) == CHOOSE i \in Stops(q) : \A k \in Stops(q) : i <= k

\* The requests that no middleware stops before the limiter.
Admitted == {q \in Requests : Stops(q) = {}}

\* The answers of the middlewares to the others, and the place each comes from.
RefusalOf(q) ==
    LET v == Verdict(Stack[Refusal(q)], q)
    IN  [answer |-> IF v = "raise" THEN "500" ELSE v, place |-> Refusal(q)]
Refusals == {RefusalOf(q) : q \in Requests \ Admitted}

\* RateLimiterMiddleware.dispatch: only /mcp, and only with the user that
\* AccessGuard put into the request's state before.
Limited(q) ==
    q.path = "/mcp/" /\ q.auth \in Tokens /\ Position("AccessGuard") < Position("RateLimiter")

-----------------------------------------------------------------------------
(* Requests.                                                               *)

\* What a session is: its process, whether it goes on, and the token of the request
\* that opened it, which gave the context variables their values.
Contexts == [proc : Procs, open : BOOLEAN, token : Tokens]

ASSUME NoSessionAssumption == NoSession \notin Contexts

Init ==
    /\ LifeInit
    /\ flight = [r \in Slots |-> Idle]
    /\ session = [s \in Sessions |-> NoSession]
    /\ listed = [s \in Sessions |-> {}]
    /\ unlogged = {}

Opens(q) == q.path = "/mcp/" /\ q.session = NoSession

\* An answer leaves from place i of the stack: request_logging writes its line when
\* the answer comes back through it, and none for an exception. (Nobody asks for one
\* of a preflight, which CORS answers.)
Logged(a, i) == a # "500" /\ i > Position("request_logging")
Answer(a, i) ==
    unlogged' = IF Logged(a, i) \/ a = "preflight" THEN unlogged ELSE unlogged \union {a}

\* A middleware answers a request itself; no state is kept of it.
Refuse(p, f) ==
    /\ step[p] = "serving"
    /\ Answer(f.answer, f.place)
    /\ UNCHANGED <<lifeVars, flight, session, listed>>

\* A request gets past the guards. (The bound on Sessions leaves an id for every
\* request that opens one.)
Arrive(r, p, q) ==
    /\ step[p] = "serving"
    /\ flight[r] = Idle
    /\ Opens(q) => Cardinality({i \in Slots : flight[i] # Idle /\ Opens(flight[i].q)})
                      < Cardinality({s \in Sessions : session[s] = NoSession})
    /\ flight' = [flight EXCEPT ![r] =
          [q |-> q, proc |-> p, counted |-> FALSE, at |-> IF Limited(q) THEN "limit" ELSE "app"]]
    /\ UNCHANGED <<lifeVars, session, listed, unlogged>>

At(r, place) == flight[r] # Idle /\ flight[r].at = place
Move(r, place) == flight' = [flight EXCEPT ![r].at = place]
Leave(r) == flight' = [flight EXCEPT ![r] = Idle]

\* The application answers.
Respond(r) == Leave(r) /\ Answer("answer", Len(Stack) + 1)

\* check_rate_limit counts the request and lets it in or refuses it with 429; when
\* Redis fails the request goes on as if it had been counted.
Limit(r) ==
    /\ At(r, "limit")
    /\ \/ /\ flight' = [flight EXCEPT ![r].at = "app", ![r].counted = TRUE]
          /\ UNCHANGED unlogged
       \/ Leave(r) /\ Answer("429", Position("RateLimiter"))
    /\ UNCHANGED <<lifeVars, session, listed>>

\* The public routes answer; the report needs the scope in the request's own
\* token, and then reads the usage stream.
Route(r) ==
    /\ At(r, "app")
    /\ LET q == flight[r].q
       IN  \/ q.path \in BypassPaths /\ Respond(r)
           \/ /\ q.path = "/admin/usage"
              /\ IF "mcp:admin:read" \in Scopes(q.auth)
                 THEN Move(r, "report") /\ UNCHANGED unlogged ELSE Respond(r)
    /\ UNCHANGED <<lifeVars, session, listed>>

\* The session of a request, when this process has it.
Found(r) ==
    LET s == flight[r].q.session
    IN  s # NoSession /\ session[s] # NoSession /\ session[s].open
           /\ session[s].proc = flight[r].proc

\* A request without a session id opens one, whose task captures the user and
\* the scopes of this request; anything but initialize is then refused, and
\* the session stays.
OpenSession(r, s) ==
    /\ At(r, "app")
    /\ Opens(flight[r].q)
    /\ session[s] = NoSession
    /\ session' = [session EXCEPT ![s] =
          [proc |-> flight[r].proc, open |-> TRUE, token |-> flight[r].q.auth]]
    /\ Respond(r)
    /\ UNCHANGED <<lifeVars, listed>>

\* Mutant: an id that was never given out is refused, one whose session ended is
\* looked up and waited for.
SessionNotFoundMutant(r) ==
    /\ At(r, "app")
    /\ flight[r].q.path = "/mcp/" /\ flight[r].q.session # NoSession
    /\ session[flight[r].q.session] = NoSession
    /\ Respond(r)
    /\ UNCHANGED <<lifeVars, session, listed>>

\* A session id that this process does not know: 404.
SessionNotFound(r) ==
    /\ At(r, "app")
    /\ flight[r].q.path = "/mcp/" /\ flight[r].q.session # NoSession
    /\ ~Found(r)
    /\ Respond(r)
    /\ UNCHANGED <<lifeVars, session, listed>>

\* current_user_scopes as the session's task sees it: that of the request which
\* opened the session, whatever token the request at hand carries.
Context(r) == Scopes(session[flight[r].q.session].token)

\* A request that waits in the event stream of its session.
Streaming(r) == At(r, "stream")

\* The handlers of the MCP server, in the session's task, and what the library does
\* itself: it ends a session, and opens an event stream unless the session has one.
\* A name that is unknown or denied is refused in the same words.
Serve(r) ==
    /\ At(r, "app")
    /\ flight[r].q.path = "/mcp/" /\ Found(r)
    /\ LET s == flight[r].q.session
           op == flight[r].q.op
       IN  \/ /\ op \in {"tools", "prompts"} /\ Respond(r)
              /\ listed' = [listed EXCEPT ![s] = @ \union
                    Visible(IF op = "tools" THEN Groups ELSE PromptGroups, Context(r))]
              /\ UNCHANGED session
           \/ /\ op = "stream"
              /\ \/ Move(r, "stream") /\ Answer("answer", Len(Stack) + 1)
                 \/ (\E o \in Slots : Streaming(o) /\ flight[o].q.session = s) /\ Respond(r)
              /\ UNCHANGED <<session, listed>>
           \/ /\ op = "delete" /\ Respond(r)
              /\ session' = [session EXCEPT ![s].open = FALSE]
              /\ UNCHANGED listed
           \/ /\ op \in Called
              /\ Move(r, IF Callable(op, Context(r)) THEN "tool" ELSE "denied")
              /\ UNCHANGED <<session, listed, unlogged>>
    /\ UNCHANGED lifeVars

\* The tool returns (ToolCalls and ExportJobs say how) or the prompt is rendered,
\* the report is read, the refusal is sent.
Finish(r) ==
    /\ At(r, "tool") \/ At(r, "report") \/ At(r, "denied")
    /\ Respond(r)
    /\ UNCHANGED <<lifeVars, session, listed>>

\* Nobody catches an error of Redis while the report is read.
ReportFails(r) ==
    /\ At(r, "report")
    /\ Leave(r) /\ Answer("500", Len(Stack) + 1)
    /\ UNCHANGED <<lifeVars, session, listed>>

\* The client leaves its event stream, or the session ends under it. The answer
\* was logged when the stream began.
StreamEnds(r) ==
    /\ Streaming(r)
    /\ Leave(r)
    /\ UNCHANGED <<lifeVars, session, listed, unlogged>>

RequestStep(r) ==
    \/ Limit(r) \/ Route(r) \/ (\E s \in Sessions : OpenSession(r, s)) \/ SessionNotFound(r)
    \/ Serve(r) \/ Finish(r) \/ ReportFails(r) \/ StreamEnds(r)

\* Where a request may wait without a limit: in an event stream, and in a tool that
\* uses jobs_redis, which has no socket timeout.
Unlimited(r) == Streaming(r) \/ (At(r, "tool") /\ flight[r].q.op \in JobNames)

-----------------------------------------------------------------------------
(* Processes.                                                              *)

Served(p) == {r \in Slots : flight[r] # Idle /\ flight[r].proc = p}

\* The sessions of a process live in its memory.
DropSessions(p) ==
    session' = [s \in Sessions |->
        IF session[s] # NoSession /\ session[s].proc = p
        THEN [session[s] EXCEPT !.open = FALSE] ELSE session[s]]

\* The server waits for the requests in flight before it ends the lifespan, and
\* manager.run() ends the sessions.
Stop(p) ==
    /\ Served(p) = {}
    /\ Shutdown(p)
    /\ DropSessions(p)
    /\ UNCHANGED <<flight, listed, unlogged>>

Crash(p) ==
    /\ step[p] # "down"
    /\ Gone(p)
    /\ DropSessions(p)
    /\ flight' = [r \in Slots |-> IF r \in Served(p) THEN Idle ELSE flight[r]]
    /\ UNCHANGED <<listed, unlogged>>

\* A step of the lifespan or the worker that the requests do not notice.
Quietly(A) == A /\ UNCHANGED <<flight, session, listed, unlogged>>

Next ==
    \/ \E r \in Slots :
          \/ \E p \in Procs, q \in Admitted : Arrive(r, p, q)
          \/ RequestStep(r)
    \/ \E p \in Procs :
          \/ Quietly(StartStep(p)) \/ Quietly(WorkerStep(p)) \/ Quietly(StopStep(p))
          \/ (\E f \in Refusals : Refuse(p, f))
          \/ Stop(p) \/ Crash(p)

Spec == Init /\ [][Next]_vars

\* The event loop runs every ready task. A request whose await has a limit, by the
\* timeout of a Redis or HTTP client or of its own, goes on; so does the finally
\* clause of the lifespan, whose other awaits only close connections. Nothing is
\* asked of a start, of the worker, or of a request that waits without a limit.
FairSpec ==
    /\ Spec
    /\ \A r \in Slots : WF_vars(~Unlimited(r) /\ RequestStep(r))
    /\ \A p \in Procs : WF_vars(Quietly(StopStep(p)))

-----------------------------------------------------------------------------
(* Properties.                                                             *)

\* The values the variables take.
TypeOK ==
    /\ LifeTypeOK
    /\ \A r \in Slots : flight[r] # Idle =>
          /\ flight[r].q \in Requests /\ flight[r].proc \in Procs
          /\ flight[r].counted \in BOOLEAN
          /\ flight[r].at \in {"limit", "app", "report", "tool", "denied", "stream"}
    /\ \A s \in Sessions : session[s] # NoSession => session[s] \in Contexts
    /\ listed \in [Sessions -> SUBSET Registry]
    /\ unlogged \subseteq {"401", "403", "429", "500", "answer"}

\* A request that reaches a protected route has been through every guard: it
\* carries a valid token, an MCP request comes from no foreign origin and was
\* counted against its own user (unless the limiter could not ask Redis). This
\* rests on the order in which main.py adds the middlewares.
PassedTheGuards ==
    \A r \in Slots : flight[r] # Idle =>
        LET q == flight[r].q
        IN  /\ q.path \notin BypassPaths => q.auth \in Tokens
            /\ q.path = "/mcp/" => q.origin # "foreign"
            /\ q.path = "/mcp/" /\ flight[r].at # "limit" => flight[r].counted

\* Every answer leaves a line in the request log, those of the guards and of the
\* limiter included; only a preflight and an exception that nobody catches, of a
\* garbled token or of a report, leave none. It rests on the place of
\* request_logging in the stack, and is not what src/README.md says of a 401.
AnswersAreLogged == unlogged \subseteq {"500"}

\* The names that a session with these scopes is shown.
Seen(scopes) == Visible(Groups, scopes) \union Visible(PromptGroups, scopes)

\* Within a session filter and gate agree: only what its context sees is ever
\* listed, what runs could have been listed, and what is refused could not. The
\* context is that of the token which opened the session, so that a caller who
\* comes with a later token is treated by the scopes of the earlier one, whatever
\* server.py says of "a caller without the scope".
CallableIsListable ==
    /\ \A s \in Sessions : session[s] # NoSession => listed[s] \subseteq Seen(Scopes(session[s].token))
    /\ \A r \in Slots :
          /\ At(r, "tool") => flight[r].q.op \in Seen(Context(r))
          /\ At(r, "denied") => flight[r].q.op \notin Seen(Context(r))

\* Nothing uses a client that is closed or not yet open: neither a request in
\* flight, nor the task of a session, nor the worker, also while it ends.
UseIsOpen ==
    \A p \in Procs :
        /\ worker[p] \in {"running", "cancelled"} => WorkerNeeds \subseteq open[p]
        /\ Served(p) # {} => "redis" \in open[p]
        /\ (\E s \in Sessions : session[s] # NoSession /\ session[s].proc = p /\ session[s].open)
               => open[p] = Clients

\* Every request is answered, unless its process dies, or it has come to one of the
\* two places where the code lets it wait without a limit.
RequestsEnd == \A r \in Slots : flight[r] # Idle ~> flight[r] = Idle \/ Unlimited(r)
=============================================================================
