------------------------------ MODULE Authorize ------------------------------
(***************************************************************************)
(* GET /oauth/authorize (authorization/router.py) and the client registry  *)
(* behind it (identity/client_registration): a client_id that is a URL     *)
(* names a metadata document; the gateway fetches it, registers the client *)
(* with Keycloak, keeps the registration in Redis for CLIENT_REGISTRY_TTL  *)
(* and redirects the browser to Keycloak under the registered client id.   *)
(* Any other client_id is passed on to Keycloak as it is, with a redirect  *)
(* URI that only Keycloak checks.                                          *)
(*                                                                         *)
(* Handlers run concurrently; each of their awaits (the lookup, the fetch, *)
(* the registration, the save) is a step. The owner of a client may change *)
(* its document at any time.                                               *)
(***************************************************************************)
EXTENDS Integers, Sequences, FiniteSets

CONSTANTS
    Urls,         \* client ids that are the URL of a metadata document
    Plain,        \* client ids that are not URLs
    Uris,         \* redirect URIs
    Documents,    \* the documents each URL may have, as their redirect_uris; {}: unusable
    Handlers,     \* concurrent runs of authorize
    RegistryTTL,  \* CLIENT_REGISTRY_TTL, in ticks
    MaxClients,   \* bound: registrations Keycloak makes
    Missing       \* an absent parameter

ASSUME AuthorizeAssumption ==
    /\ RegistryTTL \in Nat \ {0}
    /\ MaxClients \in Nat
    /\ Missing \notin Urls \union Plain \union Uris
    /\ Urls \intersect Plain = {}
    /\ \A u \in Urls : Documents[u] \subseteq SUBSET Uris

VARIABLES
    doc,       \* the document of each URL, as its redirect_uris
    cache,     \* what the registry holds under client:{url}
    ttl,       \* ticks until that entry expires, 0 when there is none
    clients,   \* Keycloak's registrations; the n-th has client id n
    pc,        \* where a handler is
    url, uri,  \* client_id and redirect_uri of its request
    uris,      \* redirect_uris of the document it fetched
    client,    \* the client id it registered
    listed,    \* history: redirect URIs a document ever had
    redirected \* the redirect the last step sent, {<<client_id, redirect_uri, forwarded id>>}

requestVars == <<url, uri, uris, client>>
registryVars == <<cache, ttl>>
vars == <<doc, registryVars, clients, pc, requestVars, listed, redirected>>

\* An entry of the registry: none, one that RegisteredClient does not validate
\* (written by another version), or a registration.
NoEntry == [kind |-> "none", client |-> 0, uris |-> {}]
Invalid == [kind |-> "invalid", client |-> 0, uris |-> {}]
Entry(c, s) == [kind |-> "valid", client |-> c, uris |-> s]

Init ==
    /\ doc \in [Urls -> SUBSET Uris] /\ \A u \in Urls : doc[u] \in Documents[u]
    /\ \E old \in SUBSET Urls :
          /\ cache = [u \in Urls |-> IF u \in old THEN Invalid ELSE NoEntry]
          /\ ttl = [u \in Urls |-> IF u \in old THEN RegistryTTL ELSE 0]
    /\ clients = <<>>
    /\ pc = [h \in Handlers |-> "idle"]
    /\ url = [h \in Handlers |-> Missing]
    /\ uri = [h \in Handlers |-> Missing]
    /\ uris = [h \in Handlers |-> {}]
    /\ client = [h \in Handlers |-> 0]
    /\ listed = doc
    /\ redirected = {}

-----------------------------------------------------------------------------
(* The handler.                                                            *)

\* What a request carries, as far as authorize tells requests apart.
Requests ==
    [client_id : Urls \union Plain \union {Missing},
     response_type : {"code", "other"},
     redirect_uri : Uris \union {Missing},
     state : BOOLEAN,
     pkce : {"S256", "unusable"}]

\* _authorize_params_valid, with validate_pkce_params
ParamsValid(p) ==
    /\ p.client_id # Missing
    /\ p.response_type = "code"
    /\ p.redirect_uri # Missing
    /\ p.state
    /\ p.pkce = "S256"

\* The handler returns.
Return(h) ==
    /\ pc' = [pc EXCEPT ![h] = "idle"]
    /\ url' = [url EXCEPT ![h] = Missing]
    /\ uri' = [uri EXCEPT ![h] = Missing]
    /\ uris' = [uris EXCEPT ![h] = {}]
    /\ client' = [client EXCEPT ![h] = 0]

\* Most steps send no redirect.
NoRedirect == redirected' = {}

\* 302 to Keycloak, where the code and the browser go to redirect_uri.
Redirect(h, c) ==
    /\ Return(h)
    /\ redirected' = {<<url[h], uri[h], c>>}

\* A client id that is no URL goes to Keycloak as it is: no lookup, no allowlist,
\* no await. (A request with a bad parameter is answered "invalid_request" before
\* that and changes nothing.)
Forward(h, p) ==
    /\ pc[h] = "idle"
    /\ ParamsValid(p) /\ p.client_id \in Plain
    /\ redirected' = {<<p.client_id, p.redirect_uri, p.client_id>>}
    /\ UNCHANGED <<doc, registryVars, clients, pc, requestVars, listed>>

\* A URL is looked up in the registry.
Begin(h, p) ==
    /\ pc[h] = "idle"
    /\ ParamsValid(p) /\ p.client_id \in Urls
    /\ pc' = [pc EXCEPT ![h] = "lookup"]
    /\ url' = [url EXCEPT ![h] = p.client_id]
    /\ uri' = [uri EXCEPT ![h] = p.redirect_uri]
    /\ NoRedirect
    /\ UNCHANGED <<doc, registryVars, clients, uris, client, listed>>

\* Mutant: the redirect URI is not compared with the cached registration.
CachedAllowsMutant(h) == TRUE

\* The allowlist of the cached registration.
CachedAllows(h) == uri[h] \in cache[url[h]].uris

\* Mutant: a hit renews the entry, as a sliding expiry would.
HitMutant(h) ==
    /\ pc[h] = "lookup"
    /\ cache[url[h]].kind = "valid"
    /\ IF CachedAllows(h)
       THEN Redirect(h, cache[url[h]].client)
       ELSE Return(h) /\ NoRedirect
    /\ ttl' = [ttl EXCEPT ![url[h]] = RegistryTTL]
    /\ UNCHANGED <<doc, cache, clients, listed>>

\* client_repository.get finds a registration,
Hit(h) ==
    /\ pc[h] = "lookup"
    /\ cache[url[h]].kind = "valid"
    /\ IF CachedAllows(h)
       THEN Redirect(h, cache[url[h]].client)
       ELSE Return(h) /\ NoRedirect
    /\ UNCHANGED <<doc, registryVars, clients, listed>>

\* or nothing it can read, and the document is fetched.
Miss(h) ==
    /\ pc[h] = "lookup"
    /\ cache[url[h]].kind # "valid"
    /\ pc' = [pc EXCEPT ![h] = "fetch"]
    /\ NoRedirect
    /\ UNCHANGED <<doc, registryVars, clients, requestVars, listed>>

\* Mutant: the client is registered with what the request asks for.
FetchMutant(h) ==
    /\ pc[h] = "fetch"
    /\ doc[url[h]] # {}
    /\ uris' = [uris EXCEPT ![h] = doc[url[h]] \union {uri[h]}]
    /\ pc' = [pc EXCEPT ![h] = "enroll"]
    /\ NoRedirect
    /\ UNCHANGED <<doc, registryVars, clients, url, uri, client, listed>>

\* fetch_client_metadata returns a valid document that lists the redirect URI.
Fetch(h) ==
    /\ pc[h] = "fetch"
    /\ uri[h] \in doc[url[h]]
    /\ uris' = [uris EXCEPT ![h] = doc[url[h]]]
    /\ pc' = [pc EXCEPT ![h] = "enroll"]
    /\ NoRedirect
    /\ UNCHANGED <<doc, registryVars, clients, url, uri, client, listed>>

\* The document does not list it ("invalid_request"), or it is unusable or cannot
\* be fetched ("invalid_client"); the last may happen to any document.
FetchRefused(h) ==
    /\ pc[h] = "fetch"
    /\ Return(h)
    /\ NoRedirect
    /\ UNCHANGED <<doc, registryVars, clients, listed>>

\* Keycloak registers the client for the URIs of the document.
Register(h) ==
    /\ Len(clients) < MaxClients
    /\ clients' = Append(clients, [url |-> url[h], uris |-> uris[h]])

\* enroll_mcp_client
Enroll(h) ==
    /\ pc[h] = "enroll"
    /\ Register(h)
    /\ client' = [client EXCEPT ![h] = Len(clients) + 1]
    /\ pc' = [pc EXCEPT ![h] = "save"]
    /\ NoRedirect
    /\ UNCHANGED <<doc, registryVars, url, uri, uris, listed>>

\* The request fails, before or after Keycloak acted on it ("server_error"); or
\* the reply has no client_secret, and the KeyError becomes a 500.
EnrollError(h) ==
    /\ pc[h] = "enroll"
    /\ Register(h) \/ UNCHANGED clients
    /\ Return(h)
    /\ NoRedirect
    /\ UNCHANGED <<doc, registryVars, listed>>

\* SET client:{url} ... EX
Store(h) ==
    /\ cache' = [cache EXCEPT ![url[h]] = Entry(client[h], uris[h])]
    /\ ttl' = [ttl EXCEPT ![url[h]] = RegistryTTL]

\* client_repository.set, and the redirect.
Save(h) ==
    /\ pc[h] = "save"
    /\ Store(h)
    /\ Redirect(h, client[h])
    /\ UNCHANGED <<doc, clients, listed>>

\* An error of Redis, which applied the command or not, becomes a 500.
RegistryError(h) ==
    /\ pc[h] \in {"lookup", "save"}
    /\ UNCHANGED registryVars \/ (pc[h] = "save" /\ Store(h))
    /\ Return(h)
    /\ NoRedirect
    /\ UNCHANGED <<doc, clients, listed>>

-----------------------------------------------------------------------------
(* The rest of the world.                                                  *)

\* The owner of a client publishes another document, or none.
Publish(u, s) ==
    /\ s # doc[u]
    /\ doc' = [doc EXCEPT ![u] = s]
    /\ listed' = [listed EXCEPT ![u] = @ \union s]
    /\ NoRedirect
    /\ UNCHANGED <<registryVars, clients, pc, requestVars>>

\* Mutant: the entry is stored without EX.
TickMutant ==
    /\ ttl' = [u \in Urls |-> IF ttl[u] > 1 THEN ttl[u] - 1 ELSE 0]
    /\ NoRedirect
    /\ UNCHANGED <<doc, cache, clients, pc, requestVars, listed>>

\* Entries of the registry come closer to their expiry.
Tick ==
    /\ cache' = [u \in Urls |-> IF ttl[u] > 1 THEN cache[u] ELSE NoEntry]
    /\ ttl' = [u \in Urls |-> IF ttl[u] > 1 THEN ttl[u] - 1 ELSE 0]
    /\ NoRedirect
    /\ UNCHANGED <<doc, clients, pc, requestVars, listed>>

HandlerStep(h) ==
    \/ Hit(h) \/ Miss(h) \/ Fetch(h) \/ FetchRefused(h)
    \/ Enroll(h) \/ EnrollError(h) \/ Save(h) \/ RegistryError(h)

Next ==
    \/ \E h \in Handlers :
          \/ \E p \in Requests : Forward(h, p) \/ Begin(h, p)
          \/ HandlerStep(h)
    \/ \E u \in Urls : \E s \in Documents[u] : Publish(u, s)
    \/ Tick

Spec == Init /\ [][Next]_vars

\* Every await of a handler ends, by its timeout at the latest, and time
\* passes. No request has to come and no document has to change.
FairSpec ==
    /\ Spec
    /\ \A h \in Handlers : WF_vars(HandlerStep(h))
    /\ WF_vars(Tick)

-----------------------------------------------------------------------------
(* Properties.                                                             *)

\* The values the variables take; a handler at work has a URL and a redirect
\* URI, and an expiry goes with an entry.
TypeOK ==
    /\ doc \in [Urls -> SUBSET Uris]
    /\ cache \in [Urls -> [kind : {"none", "invalid", "valid"},
                          client : Nat, uris : SUBSET Uris]]
    /\ ttl \in [Urls -> 0..RegistryTTL]
    /\ \A u \in Urls : ttl[u] = 0 => cache[u] = NoEntry
    /\ clients \in Seq([url : Urls, uris : SUBSET Uris])
    /\ pc \in [Handlers -> {"idle", "lookup", "fetch", "enroll", "save"}]
    /\ url \in [Handlers -> Urls \union {Missing}]
    /\ uri \in [Handlers -> Uris \union {Missing}]
    /\ \A h \in Handlers : pc[h] # "idle" => url[h] \in Urls /\ uri[h] \in Uris
    /\ uris \in [Handlers -> SUBSET Uris]
    /\ client \in [Handlers -> Nat]
    /\ listed \in [Urls -> SUBSET Uris]
    /\ redirected \subseteq (Urls \X Uris \X Nat) \union (Plain \X Uris \X Plain)

\* A browser that comes with a URL is sent to Keycloak only with a client that
\* Keycloak registered for that very URL, and with a redirect URI of that
\* registration; whatever other handlers cached or registered in the meantime.
\* One that comes with a plain client id keeps it: no registration made for a
\* URL is ever used under it.
RedirectIsRegistered ==
    \A r \in redirected :
        IF r[1] \in Urls
        THEN r[3] \in DOMAIN clients /\ clients[r[3]].url = r[1] /\ r[2] \in clients[r[3]].uris
        ELSE r[3] = r[1]

\* A browser that comes with a URL is sent on only with a redirect URI that the
\* document of that URL has listed. (Of a plain client id the gateway knows none.)
RedirectWasPublished == \A r \in redirected : r[1] \in Urls => r[2] \in listed[r[1]]

\* A redirect URI that the client withdrew for good is forgotten: from some time
\* on no cached registration allows it.
WithdrawnUriStops ==
    \A u \in Urls, r \in Uris :
        <>[](r \notin doc[u]) => <>[](cache[u].kind = "valid" => r \notin cache[u].uris)
=============================================================================
