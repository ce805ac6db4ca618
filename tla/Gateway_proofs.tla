---------------------------- MODULE Gateway_proofs ----------------------------
(***************************************************************************)
(* Proofs about Gateway and the lifespan it is composed with, for any      *)
(* number of processes, requests, sessions, tokens and exceptions.         *)
(***************************************************************************)
EXTENDS Gateway, TLAPS

-----------------------------------------------------------------------------
(* What the guards let through.                                            *)

\* The places of the middlewares whose order matters to the limiter and the log.
LEMMA Places ==
    /\ Position("AccessGuard") = 5 /\ Position("RateLimiter") = 6
    /\ Position("request_logging") = 3
BY DEF Position, Stack

\* A request that no middleware stops has passed both guards, and the limiter
\* sees its user.
LEMMA AdmittedIsChecked ==
    ASSUME NEW q \in Admitted
    PROVE  /\ q \in Requests
           /\ q.path \notin BypassPaths => q.auth \in Tokens
           /\ q.path = "/mcp/" => q.origin # "foreign" /\ Limited(q)
<1>1. q \in Requests /\ Stops(q) = {}
    BY DEF Admitted
<1>2. Verdict("OriginGuard", q) = "pass" /\ Verdict("AccessGuard", q) = "pass"
    <2>1. /\ 4 \in 1..Len(Stack) /\ Stack[4] = "OriginGuard"
          /\ 5 \in 1..Len(Stack) /\ Stack[5] = "AccessGuard"
        BY DEF Stack
    <2> QED  BY <1>1, <2>1 DEF Stops
<1>3. q.path \notin BypassPaths => q.auth \in Tokens
    BY <1>1, <1>2 DEF Verdict, Guarded, Requests
<1>4. q.path = "/mcp/" => q.origin # "foreign"
    BY <1>2 DEF Verdict, ForeignOrigin
<1>5. q.path = "/mcp/" => Limited(q)
    BY <1>3, Places DEF Limited, BypassPaths
<1> QED  BY <1>1, <1>3, <1>4, <1>5

\* Only CORS and the two guards stop a request, and CORS only a preflight.
LEMMA StoppedAt ==
    ASSUME NEW q, NEW i \in Stops(q)
    PROVE  i \in {2, 4, 5} /\ (i = 2 => q.preflight)
<1>1. /\ i \in 1..6 /\ Verdict(Stack[i], q) # "pass"
    BY DEF Stops, Stack
<1>2. /\ Stack[1] = "SecurityHeaders" /\ Stack[2] = "CORS" /\ Stack[3] = "request_logging"
      /\ Stack[6] = "RateLimiter"
    BY DEF Stack
<1>3. /\ Verdict("SecurityHeaders", q) = "pass" /\ Verdict("request_logging", q) = "pass"
      /\ Verdict("RateLimiter", q) = "pass"
      /\ Verdict("CORS", q) # "pass" => q.preflight
    BY DEF Verdict
<1>4. i # 1 /\ i # 3 /\ i # 6
    BY <1>1, <1>2, <1>3
<1>5. i = 2 => q.preflight
    BY <1>1, <1>2, <1>3
<1> QED  BY <1>1, <1>4, <1>5

\* A request that is not admitted is stopped somewhere, and first at Refusal(q).
LEMMA RefusalStops ==
    ASSUME NEW q, Stops(q) # {}
    PROVE  Refusal(q) \in Stops(q)
<1>1. \E i \in Stops(q) : \A k \in Stops(q) : i <= k
    <2>1. \A k \in Stops(q) : k \in {2, 4, 5}
        BY StoppedAt
    <2>2. CASE 2 \in Stops(q)
        BY <2>1, <2>2
    <2>3. CASE 2 \notin Stops(q) /\ 4 \in Stops(q)
        BY <2>1, <2>3
    <2>4. CASE 2 \notin Stops(q) /\ 4 \notin Stops(q)
        BY <2>1, <2>4
    <2> QED  BY <2>2, <2>3, <2>4
<1> QED  BY <1>1 DEF Refusal

-----------------------------------------------------------------------------
(* The inductive invariant.                                                *)

\* What a lifespan holds at each of its steps.
Holds(p) ==
    /\ step[p] \in {"down", "redis"} => open[p] = {} /\ worker[p] = "none"
    /\ step[p] \in {"clients", "google", "slack", "jobs"} => worker[p] = "none"
    /\ step[p] \in {"google", "slack", "jobs"} => open[p] = Clients \ {"jobs_redis"}
    /\ step[p] = "clients" => open[p] = {"redis"}
    /\ step[p] = "serving" => open[p] = Clients /\ worker[p] \in {"running", "failed"}
    /\ step[p] = "cancel" =>
          /\ worker[p] \in {"none", "running", "failed"}
          /\ worker[p] # "none" => open[p] = Clients
    /\ step[p] = "await" => open[p] = Clients /\ worker[p] # "none"
    /\ worker[p] = "cancelled" => step[p] = "await"
    /\ step[p] = "close" => worker[p] \in {"none", "ended"}
    /\ step[p] = "ended" =>
          /\ worker[p] \in {"none", "ended", "failed"}
          /\ ~closeError[p] /\ worker[p] # "failed" => open[p] = {}

\* The lifespan's share of the invariant.
LifeOK == LifeTypeOK /\ \A p \in Procs : Holds(p)

Flights == [q : Requests, proc : Procs, counted : BOOLEAN,
            at : {"limit", "app", "report", "tool", "denied", "stream"}]

\* The scopes in the context of a session.
ScopesOf(s) == Scopes(session[s].token)

\* A request in flight was admitted and is served by a process that is up; past
\* the limiter an MCP request is counted; a call runs a name that its session sees,
\* and is denied one that it does not.
FlightOK(r) == flight[r] # Idle =>
    /\ flight[r].q \in Admitted
    /\ flight[r].q.path = "/mcp/" /\ flight[r].at # "limit" => flight[r].counted
    /\ step[flight[r].proc] = "serving"
    /\ flight[r].at \in {"tool", "denied"} =>
          /\ flight[r].q.session \in Sessions /\ session[flight[r].q.session] # NoSession
          /\ flight[r].at = "tool" <=> flight[r].q.op \in Seen(ScopesOf(flight[r].q.session))

FlightsOK == flight \in [Slots -> Flights \union {Idle}] /\ \A r \in Slots : FlightOK(r)

\* A session goes on in a process that is up, and listed what its context sees.
SessionOK(s) ==
    /\ session[s] = NoSession => listed[s] = {}
    /\ session[s] # NoSession =>
          /\ session[s].open => step[session[s].proc] = "serving"
          /\ listed[s] \subseteq Seen(ScopesOf(s))

SessionsOK ==
    /\ session \in [Sessions -> Contexts \union {NoSession}]
    /\ listed \in [Sessions -> SUBSET Registry]
    /\ \A s \in Sessions : SessionOK(s)

Inv == LifeOK /\ FlightsOK /\ SessionsOK

-----------------------------------------------------------------------------
(* The steps of a lifespan.                                                *)

\* The other lifespans keep what they hold.
LEMMA LifeFrame ==
    ASSUME LifeOK, NEW p \in Procs, LifeTypeOK', Holds(p)',
           \A o \in Procs \ {p} : /\ step'[o] = step[o] /\ open'[o] = open[o]
                                  /\ worker'[o] = worker[o] /\ closeError'[o] = closeError[o]
    PROVE  LifeOK'
<1>1. ASSUME NEW o \in Procs PROVE Holds(o)'
    <2>1. CASE o = p
        BY <2>1
    <2>2. CASE o # p
        BY <2>2 DEF LifeOK, Holds
    <2> QED  BY <2>1, <2>2
<1> QED  BY <1>1 DEF LifeOK

USE LifespanAssumption DEF LifeTypeOK, Steps, StartSteps, StopSteps, Goto, Raise

LEMMA ClientsAre ==
    Clients = {"jobs_redis", "drive_client", "slack_client", "http_client", "redis"}
<1>1. Len(CloseOrder) = 5 /\ 1..5 = {1, 2, 3, 4, 5}
    BY DEF CloseOrder
<1>2. /\ CloseOrder[1] = "jobs_redis" /\ CloseOrder[2] = "drive_client"
      /\ CloseOrder[3] = "slack_client" /\ CloseOrder[4] = "http_client"
      /\ CloseOrder[5] = "redis"
    BY DEF CloseOrder
<1> QED  BY <1>1, <1>2 DEF Clients

\* Every step of a lifespan, a crash included.
LEMMA LifeStepOK ==
    ASSUME LifeOK, NEW p \in Procs,
           StartStep(p) \/ WorkerStep(p) \/ StopStep(p) \/ Shutdown(p) \/ Gone(p)
    PROVE  LifeOK'
<1> USE ClientsAre
<1>0. Holds(p) /\ LifeTypeOK
    BY DEF LifeOK
<1>1. CASE Start(p)
    BY <1>0, <1>1, LifeFrame DEF Start, Holds
<1>2. CASE Connect(p)
    <2>1. LifeTypeOK'
        BY <1>0, <1>2 DEF Connect
    <2>2. Holds(p)'
        BY <1>0, <1>2 DEF Connect, Holds
    <2> QED  BY <1>0, <1>2, <2>1, <2>2, LifeFrame DEF Connect
<1>3. CASE Build(p)
    <2>1. LifeTypeOK'
        BY <1>0, <1>3 DEF Build
    <2>2. Holds(p)'
        BY <1>0, <1>3 DEF Build, Holds
    <2> QED  BY <1>0, <1>3, <2>1, <2>2, LifeFrame DEF Build
<1>4. CASE Seed(p)
    <2>1. LifeTypeOK'
        BY <1>0, <1>4 DEF Seed
    <2>2. Holds(p)'
        BY <1>0, <1>4 DEF Seed, Holds
    <2> QED  BY <1>0, <1>4, <2>1, <2>2, LifeFrame DEF Seed
<1>5. CASE Launch(p)
    <2>1. LifeTypeOK'
        BY <1>0, <1>5 DEF Launch
    <2>2. Holds(p)'
        BY <1>0, <1>5 DEF Launch, Holds
    <2> QED  BY <1>0, <1>5, <2>1, <2>2, LifeFrame DEF Launch
<1>6. CASE WorkerFails(p)
    <2>1. LifeTypeOK'
        BY <1>0, <1>6 DEF WorkerFails
    <2>2. Holds(p)'
        BY <1>0, <1>6 DEF WorkerFails, Holds
    <2> QED  BY <1>0, <1>6, <2>1, <2>2, LifeFrame DEF WorkerFails
<1>7. CASE Shutdown(p)
    BY <1>0, <1>7, LifeFrame DEF Shutdown, Holds
<1>8. CASE CancelWorker(p)
    <2>1. LifeTypeOK'
        BY <1>0, <1>8 DEF CancelWorker
    <2>2. Holds(p)'
        BY <1>0, <1>8 DEF CancelWorker, Holds
    <2> QED  BY <1>0, <1>8, <2>1, <2>2, LifeFrame DEF CancelWorker
<1>9. CASE WorkerEnds(p)
    <2>1. LifeTypeOK'
        BY <1>0, <1>9 DEF WorkerEnds
    <2>2. Holds(p)'
        BY <1>0, <1>9 DEF WorkerEnds, Holds
    <2> QED  BY <1>0, <1>9, <2>1, <2>2, LifeFrame DEF WorkerEnds
<1>10. CASE AwaitWorker(p)
    BY <1>0, <1>10, LifeFrame DEF AwaitWorker, Holds
<1>11. CASE Close(p)
    <2>1. LifeTypeOK'
        BY <1>0, <1>11 DEF Close
    <2>2. Holds(p)'
        BY <1>0, <1>11 DEF Close, Holds
    <2> QED  BY <1>0, <1>11, <2>1, <2>2, LifeFrame DEF Close
<1>12. CASE CloseRaises(p)
    <2>1. LifeTypeOK'
        BY <1>0, <1>12 DEF CloseRaises
    <2>2. Holds(p)'
        BY <1>0, <1>12 DEF CloseRaises, Holds
    <2> QED  BY <1>0, <1>12, <2>1, <2>2, LifeFrame DEF CloseRaises
<1>13. CASE Gone(p)
    <2>1. LifeTypeOK'
        BY <1>0, <1>13 DEF Gone
    <2>2. Holds(p)'
        BY <1>0, <1>13 DEF Gone, Holds
    <2> QED  BY <1>0, <1>13, <2>1, <2>2, LifeFrame DEF Gone
<1>14. CASE WorkerSwallows(p)
    <2>1. LifeTypeOK'
        BY <1>0, <1>14 DEF WorkerSwallows
    <2>2. Holds(p)'
        BY <1>0, <1>14 DEF WorkerSwallows, Holds
    <2> QED  BY <1>0, <1>14, <2>1, <2>2, LifeFrame DEF WorkerSwallows
<1>15. CASE StartStep(p)
    BY <1>1, <1>2, <1>3, <1>4, <1>5, <1>15 DEF StartStep
<1>16. CASE WorkerStep(p)
    BY <1>6, <1>9, <1>14, <1>16 DEF WorkerStep
<1>17. CASE StopStep(p)
    BY <1>8, <1>10, <1>11, <1>12, <1>13, <1>17 DEF StopStep, Exit
<1> QED  BY <1>7, <1>13, <1>15, <1>16, <1>17

\* Only Stop and a crash take a process out of service.
LEMMA StaysUp ==
    ASSUME LifeOK, NEW p \in Procs, StartStep(p) \/ WorkerStep(p) \/ StopStep(p),
           NEW o \in Procs, step[o] = "serving"
    PROVE  step'[o] = "serving"
<1>1. step \in [Procs -> Steps] /\ Holds(p)
    BY DEF LifeOK
<1>2. CASE StartStep(p)
    BY <1>1, <1>2 DEF StartStep, Start, Connect, Build, Seed, Launch
<1>3. CASE WorkerStep(p)
    BY <1>1, <1>3 DEF WorkerStep, WorkerFails, WorkerEnds, WorkerSwallows, Holds
<1>4. CASE StopStep(p)
    BY <1>1, <1>4 DEF StopStep, CancelWorker, AwaitWorker, Close, CloseRaises, Exit, Gone
<1> QED  BY <1>2, <1>3, <1>4

-----------------------------------------------------------------------------
(* The steps of a request.                                                 *)

\* A context may call what it sees, and nothing else: every name of the registry is
\* in one group.
LEMMA SeenIsCallable ==
    ASSUME NEW scopes, NEW n
    PROVE  Callable(n, scopes) <=> n \in Seen(scopes)
<1>1. n \in Seen(scopes) =>  Callable(n, scopes)
    BY DEF Seen, Visible, Callable, Registry, Groups, PromptGroups, DriveNames, JobNames,
        SlackNames, PromptNames
<1>2. ASSUME Callable(n, scopes) PROVE n \in Seen(scopes)
    <2>1. PICK g \in Groups \union PromptGroups : n \in g.names
        BY <1>2 DEF Callable, Registry, Groups, PromptGroups
    <2>2. g.scope \in scopes
        BY <1>2, <2>1 DEF Callable
    <2> QED  BY <2>1, <2>2 DEF Seen, Visible
<1> QED  BY <1>1, <1>2

LEMMA SeenIsRegistered == \A scopes : Seen(scopes) \subseteq Registry
BY DEF Seen, Visible, Registry, Groups, PromptGroups

\* Answering a request keeps the others as they are.
LEMMA LeaveOK ==
    ASSUME FlightsOK, NEW r \in Slots, Leave(r), UNCHANGED <<lifeVars, session>>
    PROVE  FlightsOK'
BY DEF FlightsOK, FlightOK, ScopesOf, Leave, lifeVars

\* So does moving it, as long as what it becomes is as it should be.
LEMMA MoveOK ==
    ASSUME FlightsOK, NEW r \in Slots, NEW f \in Flights,
           flight' = [flight EXCEPT ![r] = f], FlightOK(r)',
           UNCHANGED <<lifeVars, session>>
    PROVE  FlightsOK'
BY DEF FlightsOK, FlightOK, ScopesOf, lifeVars

LEMMA LifeSame == ASSUME LifeOK, UNCHANGED lifeVars PROVE LifeOK'
BY DEF LifeOK, Holds, lifeVars

LEMMA SessionsSame ==
    ASSUME SessionsOK, UNCHANGED <<lifeVars, session, listed>>
    PROVE  SessionsOK'
BY DEF SessionsOK, SessionOK, ScopesOf, lifeVars

\* What a request in flight is, and where its session can be.
LEMMA InFlight ==
    ASSUME FlightsOK, NEW r \in Slots, flight[r] # Idle
    PROVE  /\ flight[r] \in Flights /\ flight[r].q \in Admitted /\ flight[r].q \in Requests
           /\ flight[r].proc \in Procs /\ step[flight[r].proc] = "serving"
           /\ flight[r].q.session # NoSession => flight[r].q.session \in Sessions
           /\ flight[r].q.path = "/mcp/" => flight[r].q.auth \in Tokens
           /\ flight[r].q.path = "/mcp/" /\ flight[r].at # "limit" => flight[r].counted
<1>1. flight[r] \in Flights /\ FlightOK(r)
    BY DEF FlightsOK
<1>2. flight[r].q \in Admitted /\ flight[r].q \in Requests
    BY <1>1 DEF FlightOK, Flights
<1>3. flight[r].q.path = "/mcp/" => flight[r].q.auth \in Tokens
    BY <1>2, AdmittedIsChecked DEF BypassPaths
<1>4. flight[r].q.session # NoSession => flight[r].q.session \in Sessions
    BY <1>2 DEF Requests
<1> QED  BY <1>1, <1>2, <1>3, <1>4 DEF FlightOK, Flights

\* Every step of a request keeps the invariant.
LEMMA RequestOK ==
    ASSUME Inv, NEW r \in Slots,
           (\E p \in Procs, q \in Admitted : Arrive(r, p, q)) \/ RequestStep(r)
    PROVE  Inv'
<1>0. LifeOK /\ FlightsOK /\ SessionsOK
    BY DEF Inv
<1>1. ASSUME NEW p \in Procs, NEW q \in Admitted, Arrive(r, p, q) PROVE Inv'
    <2> DEFINE f == [q |-> q, proc |-> p, counted |-> FALSE,
                     at |-> IF Limited(q) THEN "limit" ELSE "app"]
    <2>1. f \in Flights
        BY AdmittedIsChecked DEF Flights
    <2>2. flight' = [flight EXCEPT ![r] = f] /\ UNCHANGED <<lifeVars, session, listed>>
        BY <1>1 DEF Arrive
    <2>3. flight'[r] = f /\ step' = step /\ step[p] = "serving"
        BY <1>0, <1>1, <2>2 DEF FlightsOK, Arrive, lifeVars
    <2>4. q.path = "/mcp/" => Limited(q)
        BY AdmittedIsChecked
    <2>5. FlightOK(r)'
        BY <2>3, <2>4 DEF FlightOK
    <2>6. FlightsOK'
        <3> HIDE DEF f
        <3> QED  BY <1>0, <2>1, <2>2, <2>5, MoveOK
    <2> QED  BY <1>0, <2>2, <2>6, LifeSame, SessionsSame DEF Inv
<1>2. ASSUME Leave(r), UNCHANGED <<lifeVars, session, listed>> PROVE Inv'
    BY <1>0, <1>2, LeaveOK, LifeSame, SessionsSame DEF Inv
\* A move that neither decides a call nor comes from the limiter.
<1>3. ASSUME flight[r] # Idle, flight[r].at # "limit", NEW place \in {"report", "stream"},
             Move(r, place), UNCHANGED <<lifeVars, session, listed>>
      PROVE  Inv'
    <2> DEFINE f == [flight[r] EXCEPT !.at = place]
    <2>1. f \in Flights /\ flight' = [flight EXCEPT ![r] = f] /\ flight'[r] = f
        BY <1>0, <1>3, InFlight DEF Flights, Move, FlightsOK
    <2>2. f.q = flight[r].q /\ f.proc = flight[r].proc /\ f.counted = flight[r].counted
              /\ f.at = place
        BY <1>0, <1>3, InFlight DEF Flights
    <2>3. FlightOK(r)'
        BY <1>0, <1>3, <2>1, <2>2, InFlight DEF FlightOK, lifeVars
    <2>4. FlightsOK'
        <3> HIDE DEF f
        <3> QED  BY <1>0, <1>3, <2>1, <2>3, MoveOK
    <2> QED  BY <1>0, <1>3, <2>4, LifeSame, SessionsSame DEF Inv
<1>4. CASE Limit(r)
    <2>1. CASE Leave(r)
        BY <1>2, <1>4, <2>1 DEF Limit
    <2>2. CASE flight' = [flight EXCEPT ![r].at = "app", ![r].counted = TRUE]
        <3> DEFINE f == [flight[r] EXCEPT !.at = "app", !.counted = TRUE]
        <3>1. flight[r] # Idle /\ UNCHANGED <<lifeVars, session, listed>>
            BY <1>4 DEF Limit, At
        <3>2. f \in Flights /\ flight' = [flight EXCEPT ![r] = f] /\ flight'[r] = f
            BY <1>0, <2>2, <3>1, InFlight DEF Flights, FlightsOK
        <3>3. f.q = flight[r].q /\ f.proc = flight[r].proc /\ f.counted = TRUE /\ f.at = "app"
            BY <1>0, <3>1, InFlight DEF Flights
        <3>4. FlightOK(r)'
            <4> HIDE DEF f
            <4> QED  BY <1>0, <3>1, <3>2, <3>3, InFlight DEF FlightOK, lifeVars
        <3>5. FlightsOK'
            <4> HIDE DEF f
            <4> QED  BY <1>0, <3>1, <3>2, <3>4, MoveOK
        <3> QED  BY <1>0, <3>1, <3>5, LifeSame, SessionsSame DEF Inv
    <2> QED  BY <1>4, <2>1, <2>2 DEF Limit
<1>5. CASE Route(r)
    BY <1>2, <1>3, <1>5 DEF Route, At, Respond
<1>6. CASE SessionNotFound(r)
    BY <1>2, <1>6 DEF SessionNotFound, Respond
<1>7. CASE Finish(r) \/ ReportFails(r) \/ StreamEnds(r)
    BY <1>2, <1>7 DEF Finish, ReportFails, StreamEnds, Respond
<1>8. ASSUME NEW s \in Sessions, OpenSession(r, s) PROVE Inv'
    <2> DEFINE c == [proc |-> flight[r].proc, open |-> TRUE, token |-> flight[r].q.auth]
    <2>1. flight[r] # Idle /\ Leave(r) /\ session[s] = NoSession
              /\ UNCHANGED <<lifeVars, listed>> /\ session' = [session EXCEPT ![s] = c]
        BY <1>8 DEF OpenSession, At, Respond
    <2>2. c \in Contexts /\ c.proc = flight[r].proc /\ step[c.proc] = "serving"
        BY <1>0, <1>8, <2>1, InFlight DEF OpenSession, At, Opens, Contexts
    <2> HIDE DEF c
    <2>3. FlightsOK'
        BY <1>0, <2>1 DEF FlightsOK, FlightOK, ScopesOf, Leave, SessionsOK, lifeVars
    <2>4. SessionsOK'
        BY <1>0, <2>1, <2>2, NoSessionAssumption DEF SessionsOK, SessionOK, ScopesOf, lifeVars
    <2> QED  BY <1>0, <2>1, <2>3, <2>4, LifeSame DEF Inv
<1>9. CASE Serve(r)
    <2> DEFINE s == flight[r].q.session
               op == flight[r].q.op
    <2>1. /\ flight[r] # Idle /\ flight[r].at = "app" /\ UNCHANGED lifeVars
          /\ s \in Sessions /\ session[s] # NoSession /\ session[s] \in Contexts
          /\ Context(r) = ScopesOf(s) /\ SessionOK(s)
        BY <1>0, <1>9, InFlight DEF Serve, At, Found, Context, ScopesOf, SessionsOK
    <2>3. ASSUME NEW groups \in {Groups, PromptGroups}, Leave(r), UNCHANGED session,
                 listed' = [listed EXCEPT ![s] = @ \union Visible(groups, Context(r))]
          PROVE  Inv'
        <3>0. Visible(groups, Context(r)) \subseteq Seen(ScopesOf(s))
            BY <2>1 DEF Seen
        <3>1. FlightsOK'
            BY <1>0, <2>1, <2>3, LeaveOK
        <3>2. SessionsOK'
            BY <1>0, <2>1, <2>3, <3>0, SeenIsRegistered
               DEF SessionsOK, SessionOK, ScopesOf, lifeVars
        <3> QED  BY <1>0, <2>1, <3>1, <3>2, LifeSame DEF Inv
    <2>4. CASE /\ op = "delete" /\ Leave(r) /\ UNCHANGED listed
               /\ session' = [session EXCEPT ![s].open = FALSE]
        <3> DEFINE c == [session[s] EXCEPT !.open = FALSE]
        <3>1. c \in Contexts /\ session' = [session EXCEPT ![s] = c]
                  /\ c.token = session[s].token /\ ~c.open
            BY <1>0, <2>1, <2>4 DEF Contexts, SessionsOK
        <3> HIDE DEF c
        <3>2. ASSUME NEW o \in Sessions, session[o] # NoSession
              PROVE  session'[o] # NoSession /\ ScopesOf(o)' = ScopesOf(o)
            BY <1>0, <2>1, <3>1, <3>2, NoSessionAssumption DEF ScopesOf, SessionsOK
        <3>3. FlightsOK'
            BY <1>0, <2>1, <2>4, <3>2 DEF FlightsOK, FlightOK, Leave, lifeVars
        <3>4. SessionsOK'
            BY <1>0, <2>1, <2>4, <3>1, NoSessionAssumption
               DEF SessionsOK, SessionOK, ScopesOf, lifeVars
        <3> QED  BY <1>0, <2>1, <3>3, <3>4, LifeSame DEF Inv
    <2>5. CASE (Move(r, "stream") \/ Leave(r)) /\ UNCHANGED <<session, listed>>
        BY <1>2, <1>3, <2>1, <2>5
    <2>6. ASSUME NEW place \in {"tool", "denied"}, place = "tool" <=> Callable(op, Context(r)),
                 Move(r, place), UNCHANGED <<session, listed>>
          PROVE  Inv'
        <3> DEFINE f == [flight[r] EXCEPT !.at = place]
        <3>1. f \in Flights /\ flight' = [flight EXCEPT ![r] = f] /\ flight'[r] = f
            BY <1>0, <2>1, <2>6, InFlight DEF Flights, Move, FlightsOK
        <3>2. f.q = flight[r].q /\ f.proc = flight[r].proc /\ f.counted = flight[r].counted
                  /\ f.at = place
            BY <1>0, <2>1, InFlight DEF Flights
        <3>3. place = "tool" <=> op \in Seen(ScopesOf(s))
            BY <2>1, <2>6, SeenIsCallable
        <3>4. FlightOK(r)'
            BY <1>0, <2>1, <2>6, <3>1, <3>2, <3>3, InFlight DEF FlightOK, ScopesOf, lifeVars
        <3>5. FlightsOK'
            <4> HIDE DEF f
            <4> QED  BY <1>0, <2>1, <2>6, <3>1, <3>4, MoveOK
        <3> QED  BY <1>0, <2>1, <2>6, <3>5, LifeSame, SessionsSame DEF Inv
    <2>7. CASE op \in {"tools", "prompts"}
        BY <1>9, <2>3, <2>4, <2>5, <2>6, <2>7 DEF Serve, Respond
    <2>8. CASE op \notin {"tools", "prompts"}
        BY <1>9, <2>4, <2>5, <2>6, <2>8 DEF Serve, Respond
    <2> QED  BY <2>7, <2>8
<1> QED  BY <1>1, <1>4, <1>5, <1>6, <1>7, <1>8, <1>9 DEF RequestStep

-----------------------------------------------------------------------------
(* The steps of a process.                                                 *)

\* What Stop and Crash do to the sessions: those of p are closed.
LEMMA DropOK ==
    ASSUME SessionsOK, NEW p \in Procs, DropSessions(p), UNCHANGED listed,
           \A o \in Procs \ {p} : step'[o] = step[o]
    PROVE  /\ SessionsOK'
           /\ \A s \in Sessions : session[s] # NoSession =>
                 session'[s] # NoSession /\ session'[s].token = session[s].token
<1>1. ASSUME NEW s \in Sessions
      PROVE  /\ session'[s] \in Contexts \union {NoSession} /\ SessionOK(s)'
             /\ session[s] # NoSession =>
                   session'[s] # NoSession /\ session'[s].token = session[s].token
    <2>1. session[s] \in Contexts \union {NoSession} /\ SessionOK(s)
        BY DEF SessionsOK
    <2>2. CASE session[s] # NoSession /\ session[s].proc = p
        <3> DEFINE c == [session[s] EXCEPT !.open = FALSE]
        <3>1. session'[s] = c
            BY <2>2 DEF DropSessions
        <3>2. c \in Contexts /\ c.token = session[s].token /\ ~c.open
            BY <2>1, <2>2 DEF Contexts
        <3> HIDE DEF c
        <3> QED  BY <2>1, <2>2, <3>1, <3>2, NoSessionAssumption DEF SessionOK, ScopesOf
    <2>3. CASE ~(session[s] # NoSession /\ session[s].proc = p)
        <3>1. session'[s] = session[s]
            BY <2>3 DEF DropSessions
        <3>2. session[s] # NoSession => session[s].proc \in Procs \ {p}
            BY <2>1, <2>3 DEF Contexts
        <3> QED  BY <2>1, <3>1, <3>2 DEF SessionOK, ScopesOf
    <2> QED  BY <2>2, <2>3
<1>2. session' = [s \in Sessions |-> session'[s]]
    BY DEF DropSessions
<1> QED  BY <1>1, <1>2 DEF SessionsOK

\* Only the lifespan of p changes in a step of p.
LEMMA OthersKeepStep ==
    ASSUME LifeTypeOK, NEW p \in Procs, Shutdown(p) \/ Gone(p)
    PROVE  \A o \in Procs \ {p} : step'[o] = step[o]
BY DEF Shutdown, Gone

LEMMA ProcessOK ==
    ASSUME Inv, NEW p \in Procs,
           \/ StartStep(p) /\ UNCHANGED <<flight, session, listed>>
           \/ WorkerStep(p) /\ UNCHANGED <<flight, session, listed>>
           \/ StopStep(p) /\ UNCHANGED <<flight, session, listed>>
           \/ Stop(p) \/ Crash(p)
    PROVE  Inv'
<1>0. LifeOK /\ FlightsOK /\ SessionsOK /\ LifeTypeOK
    BY DEF Inv, LifeOK
<1>1. CASE (StartStep(p) \/ WorkerStep(p) \/ StopStep(p)) /\ UNCHANGED <<flight, session, listed>>
    <2>1. LifeOK'
        BY <1>0, <1>1, LifeStepOK
    <2>2. \A o \in Procs : step[o] = "serving" => step'[o] = "serving"
        BY <1>0, <1>1, StaysUp
    <2>3. FlightsOK'
        BY <1>0, <1>1, <2>2, InFlight DEF FlightsOK, FlightOK, ScopesOf
    <2>4. SessionsOK'
        BY <1>0, <1>1, <2>2 DEF SessionsOK, SessionOK, ScopesOf, Contexts
    <2> QED  BY <2>1, <2>3, <2>4 DEF Inv
<1>2. CASE Stop(p)
    <2>1. LifeOK' /\ \A o \in Procs \ {p} : step'[o] = step[o]
        BY <1>0, <1>2, LifeStepOK, OthersKeepStep DEF Stop
    <2>2. /\ SessionsOK'
          /\ \A s \in Sessions : session[s] # NoSession =>
                session'[s] # NoSession /\ session'[s].token = session[s].token
        BY <1>0, <1>2, <2>1, DropOK DEF Stop
    <2>3. \A r \in Slots : flight[r] # Idle => flight[r].proc \in Procs \ {p}
        BY <1>0, <1>2, InFlight DEF Stop, Served
    <2>4. FlightsOK'
        BY <1>0, <1>2, <2>1, <2>2, <2>3 DEF Stop, FlightsOK, FlightOK, ScopesOf
    <2> QED  BY <2>1, <2>2, <2>4 DEF Inv
<1>3. CASE Crash(p)
    <2>1. LifeOK' /\ \A o \in Procs \ {p} : step'[o] = step[o]
        BY <1>0, <1>3, LifeStepOK, OthersKeepStep DEF Crash
    <2>2. /\ SessionsOK'
          /\ \A s \in Sessions : session[s] # NoSession =>
                session'[s] # NoSession /\ session'[s].token = session[s].token
        BY <1>0, <1>3, <2>1, DropOK DEF Crash
    <2>3. ASSUME NEW r \in Slots PROVE flight'[r] \in Flights \union {Idle} /\ FlightOK(r)'
        <3>1. CASE r \in Served(p)
            BY <1>3, <3>1 DEF Crash, FlightOK
        <3>2. CASE r \notin Served(p)
            <4>1. flight'[r] = flight[r] /\ FlightOK(r) /\ flight[r] \in Flights \union {Idle}
                BY <1>0, <1>3, <3>2 DEF Crash, FlightsOK
            <4>2. flight[r] # Idle => flight[r].proc \in Procs \ {p}
                BY <1>0, <3>2, InFlight DEF Served
            <4> QED  BY <2>1, <2>2, <4>1, <4>2 DEF FlightOK, ScopesOf
        <3> QED  BY <3>1, <3>2
    <2>4. FlightsOK'
        BY <1>3, <2>3 DEF Crash, FlightsOK
    <2> QED  BY <2>1, <2>2, <2>4 DEF Inv
<1> QED  BY <1>1, <1>2, <1>3

-----------------------------------------------------------------------------
(* The theorems.                                                           *)

LEMMA InvInit == Init => Inv
<1> SUFFICES ASSUME Init PROVE Inv
    OBVIOUS
<1>1. LifeOK
    BY DEF Init, LifeInit, LifeOK, Holds
<1>2. FlightsOK
    BY DEF Init, FlightsOK, FlightOK
<1>3. SessionsOK
    BY DEF Init, SessionsOK, SessionOK
<1> QED  BY <1>1, <1>2, <1>3 DEF Inv

LEMMA SameOK ==
    ASSUME Inv, UNCHANGED <<lifeVars, flight, session, listed>>
    PROVE  Inv'
<1>1. LifeOK' /\ SessionsOK'
    BY LifeSame, SessionsSame DEF Inv
<1>2. FlightsOK'
    BY DEF Inv, lifeVars, FlightsOK, FlightOK, ScopesOf
<1> QED  BY <1>1, <1>2 DEF Inv

LEMMA InvStep == Inv /\ [Next]_vars => Inv'
<1> SUFFICES ASSUME Inv, [Next]_vars PROVE Inv'
    OBVIOUS
<1>1. CASE \E r \in Slots : (\E p \in Procs, q \in Admitted : Arrive(r, p, q)) \/ RequestStep(r)
    BY <1>1, RequestOK
<1>2. ASSUME NEW p \in Procs, NEW f \in Refusals, Refuse(p, f) PROVE Inv'
    BY <1>2, SameOK DEF Refuse
<1>3. ASSUME NEW p \in Procs, \/ Quietly(StartStep(p)) \/ Quietly(WorkerStep(p))
                               \/ Quietly(StopStep(p)) \/ Stop(p) \/ Crash(p)
      PROVE  Inv'
    BY <1>3, ProcessOK DEF Quietly
<1>4. CASE UNCHANGED vars
    BY <1>4, SameOK DEF vars
<1> QED  BY <1>1, <1>2, <1>3, <1>4 DEF Next

LEMMA InvHolds == Spec => []Inv
BY InvInit, InvStep, PTL DEF Spec

\* An answer from behind request_logging, a preflight or an exception keeps the log
\* as it should be.
LEMMA AnswerOK ==
    ASSUME AnswersAreLogged, NEW a, NEW i \in Nat, Answer(a, i),
           a \in {"500", "preflight"} \/ i > 3
    PROVE  AnswersAreLogged'
BY Places DEF AnswersAreLogged, Answer, Logged

\* What a middleware answers in front of request_logging is a preflight: so it is
\* with the first of those that stop a request.
LEMMA RefusalPlace ==
    ASSUME NEW f \in Refusals
    PROVE  f.place \in Nat /\ (f.answer = "preflight" \/ f.place > 3)
<1>1. PICK q \in Requests \ Admitted : f = RefusalOf(q)
    BY DEF Refusals
<1>2. f.place = Refusal(q) /\ Refusal(q) \in Stops(q)
    BY <1>1, RefusalStops DEF RefusalOf, Admitted
<1>3. f.place \in {2, 4, 5}
    BY <1>2, StoppedAt
<1>4. CASE f.place = 2
    <2>1. Stack[2] = "CORS"
        BY DEF Stack
    <2>2. q.preflight
        BY <1>2, <1>4, StoppedAt
    <2>3. Verdict(Stack[2], q) = "preflight"
        BY <2>1, <2>2 DEF Verdict
    <2> QED  BY <1>1, <1>2, <1>4, <2>3 DEF RefusalOf
<1> QED  BY <1>3, <1>4

\* Every answer that a serving process sends leaves a line in the request log, those
\* of the guards and of the limiter included, but for preflights and exceptions:
\* whatever requests, tokens and sessions there are (main.py, request_logger.py).
THEOREM LogIsComplete == Spec => []AnswersAreLogged
<1>1. Init => AnswersAreLogged
    BY DEF Init, AnswersAreLogged
<1>2. ASSUME AnswersAreLogged, [Next]_vars PROVE AnswersAreLogged'
    <2>0. Len(Stack) = 6
        BY DEF Stack
    <2>1. CASE UNCHANGED unlogged
        BY <1>2, <2>1 DEF AnswersAreLogged
    <2>2. ASSUME NEW r \in Slots, Respond(r) PROVE AnswersAreLogged'
        BY <1>2, <2>0, <2>2, AnswerOK DEF Respond
    <2>3. ASSUME NEW r \in Slots, RequestStep(r) PROVE AnswersAreLogged'
        <3>1. CASE Limit(r)
            BY <1>2, <2>1, <3>1, Places, AnswerOK DEF Limit
        <3>2. CASE Route(r)
            BY <2>1, <2>2, <3>2 DEF Route
        <3>3. CASE (\E s \in Sessions : OpenSession(r, s)) \/ SessionNotFound(r) \/ Finish(r)
            BY <2>2, <3>3 DEF OpenSession, SessionNotFound, Finish
        <3>4. CASE Serve(r)
            BY <1>2, <2>0, <2>1, <2>2, <3>4, AnswerOK DEF Serve
        <3>5. CASE ReportFails(r)
            BY <1>2, <2>0, <3>5, AnswerOK DEF ReportFails
        <3>6. CASE StreamEnds(r)
            BY <2>1, <3>6 DEF StreamEnds
        <3> QED  BY <2>3, <3>1, <3>2, <3>3, <3>4, <3>5, <3>6 DEF RequestStep
    <2>4. ASSUME NEW p \in Procs, NEW f \in Refusals, Refuse(p, f) PROVE AnswersAreLogged'
        BY <1>2, <2>4, RefusalPlace, AnswerOK DEF Refuse
    <2> QED
        BY <1>2, <2>1, <2>3, <2>4 DEF Next, Arrive, Quietly, Stop, Crash, vars
<1> QED  BY <1>1, <1>2, PTL DEF Spec

\* The variables keep their types: a request in flight is one of the requests, a
\* session holds the context of one of the tokens, and only names that have a
\* handler are listed (server.py).
THEOREM TypeCorrect == Spec => []TypeOK
<1>1. Inv /\ AnswersAreLogged => TypeOK
    <2> SUFFICES ASSUME Inv, AnswersAreLogged PROVE TypeOK
        OBVIOUS
    <2>1. \A r \in Slots : flight[r] # Idle => flight[r] \in Flights
        BY DEF Inv, FlightsOK
    <2>2. LifeTypeOK /\ listed \in [Sessions -> SUBSET Registry]
        BY DEF Inv, LifeOK, SessionsOK
    <2>3. \A s \in Sessions : session[s] # NoSession => session[s] \in Contexts
        BY DEF Inv, SessionsOK
    <2> QED  BY <2>1, <2>2, <2>3 DEF TypeOK, Flights, AnswersAreLogged
<1> QED  BY <1>1, InvHolds, LogIsComplete, PTL

\* Whatever reaches a protected route has passed AccessGuard, OriginGuard and the
\* limiter, in the order in which main.py stacks them.
THEOREM GuardsHold == Spec => []PassedTheGuards
<1>1. Inv => PassedTheGuards
    <2> SUFFICES ASSUME Inv, NEW r \in Slots, flight[r] # Idle
        PROVE  /\ flight[r].q.path \notin BypassPaths => flight[r].q.auth \in Tokens
               /\ flight[r].q.path = "/mcp/" => flight[r].q.origin # "foreign"
               /\ flight[r].q.path = "/mcp/" /\ flight[r].at # "limit" => flight[r].counted
        BY DEF PassedTheGuards
    <2> QED  BY AdmittedIsChecked DEF Inv, FlightsOK, FlightOK
<1> QED  BY <1>1, InvHolds, PTL

\* Within a session filter and gate agree, whatever tokens its requests carry: what
\* is listed or run is in view of the token that opened the session, and what is
\* denied is not (server.py, mcp/tools/__init__.py).
THEOREM GateIsFilter == Spec => []CallableIsListable
<1>1. Inv => CallableIsListable
    BY DEF Inv, FlightsOK, FlightOK, SessionsOK, SessionOK, CallableIsListable, ScopesOf,
        Context, At
<1> QED  BY <1>1, InvHolds, PTL

\* No request, session or worker meets a client that the lifespan has closed or
\* has not opened yet (main.py).
THEOREM ClientsAreOpen == Spec => []UseIsOpen
<1>1. Inv => UseIsOpen
    <2> SUFFICES ASSUME Inv, NEW p \in Procs
        PROVE  /\ worker[p] \in {"running", "cancelled"} => WorkerNeeds \subseteq open[p]
               /\ Served(p) # {} => "redis" \in open[p]
               /\ (\E s \in Sessions : /\ session[s] # NoSession /\ session[s].proc = p
                                        /\ session[s].open)
                      => open[p] = Clients
        BY DEF UseIsOpen
    <2>1. Holds(p) /\ step[p] \in Steps /\ LifeOK
        BY DEF Inv, LifeOK
    <2>2. worker[p] \in {"running", "cancelled"} => WorkerNeeds \subseteq open[p]
        BY <2>1, ClientsAre DEF Holds, WorkerNeeds
    <2>3. Served(p) # {} => step[p] = "serving"
        BY DEF Served, Inv, FlightsOK, FlightOK
    <2>4. Served(p) # {} => "redis" \in open[p]
        BY <2>1, <2>3, ClientsAre DEF Holds
    <2>5. (\E s \in Sessions : session[s] # NoSession /\ session[s].proc = p /\ session[s].open)
              => open[p] = Clients
        BY <2>1 DEF Holds, Inv, SessionsOK, SessionOK
    <2> QED  BY <2>2, <2>4, <2>5
<1> QED  BY <1>1, InvHolds, PTL

\* A lifespan that ends, however far its start came, has closed all it had
\* opened, unless a close raised or the worker had failed (main.py).
THEOREM LifespanCloses == Spec => []ClosedAtEnd
<1>1. Inv => ClosedAtEnd
    BY DEF Inv, LifeOK, Holds, ClosedAtEnd
<1> QED  BY <1>1, InvHolds, PTL
=============================================================================
