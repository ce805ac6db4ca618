--------------------------- MODULE Authorize_proofs ---------------------------
(***************************************************************************)
(* Proofs about Authorize, for every set of clients, redirect URIs and     *)
(* handlers.                                                               *)
(***************************************************************************)
EXTENDS Authorize, SequenceTheorems, TLAPS

USE AuthorizeAssumption DEF registryVars, requestVars, NoEntry, Invalid, Entry, NoRedirect

\* The invariant behind both properties of a redirect. A client id that a
\* handler holds or the registry keeps is one of Keycloak's, registered for that
\* URL with exactly those redirect URIs; these include the URI of the request a
\* handler serves, and all of them were in the document of that URL.
InHand ==
    /\ \A h \in Handlers : pc[h] \in {"enroll", "save"} =>
          uri[h] \in uris[h] /\ uris[h] \subseteq listed[url[h]]
    /\ \A h \in Handlers : pc[h] = "save" =>
          /\ client[h] \in DOMAIN clients
          /\ clients[client[h]] = [url |-> url[h], uris |-> uris[h]]

InRegistry ==
    \A u \in Urls : cache[u].kind = "valid" =>
        /\ cache[u].client \in DOMAIN clients
        /\ clients[cache[u].client] = [url |-> u, uris |-> cache[u].uris]
        /\ cache[u].uris \subseteq listed[u]

Sound ==
    /\ InHand
    /\ InRegistry
    /\ \A u \in Urls : doc[u] \subseteq listed[u]
    /\ RedirectIsRegistered
    /\ RedirectWasPublished

\* The initial states have the types.
LEMMA TypeInit == Init => TypeOK
BY DEF Init, TypeOK

\* Keycloak's list grows at its end.
LEMMA RegisterGrows ==
    ASSUME TypeOK, NEW h \in Handlers, pc[h] = "enroll", Register(h)
    PROVE  /\ clients' \in Seq([url : Urls, uris : SUBSET Uris])
           /\ DOMAIN clients' = DOMAIN clients \union {Len(clients) + 1}
           /\ \A n \in DOMAIN clients : clients'[n] = clients[n]
           /\ clients'[Len(clients) + 1] = [url |-> url[h], uris |-> uris[h]]
BY DEF TypeOK, Register

\* A handler that returns keeps the types of the handlers.
LEMMA ReturnType ==
    ASSUME TypeOK, NEW h \in Handlers, Return(h)
    PROVE  /\ pc' \in [Handlers -> {"idle", "lookup", "fetch", "enroll", "save"}]
           /\ url' \in [Handlers -> Urls \union {Missing}]
           /\ uri' \in [Handlers -> Uris \union {Missing}]
           /\ \A i \in Handlers : pc'[i] # "idle" => url'[i] \in Urls /\ uri'[i] \in Uris
           /\ uris' \in [Handlers -> SUBSET Uris]
           /\ client' \in [Handlers -> Nat]
BY DEF TypeOK, Return

\* A stored registration has its type, and its expiry.
LEMMA StoreType ==
    ASSUME TypeOK, NEW h \in Handlers, pc[h] # "idle", Store(h)
    PROVE  /\ cache' \in [Urls -> [kind : {"none", "invalid", "valid"},
                                   client : Nat, uris : SUBSET Uris]]
           /\ ttl' \in [Urls -> 0..RegistryTTL]
           /\ \A u \in Urls : ttl'[u] = 0 => cache'[u] = NoEntry
<1>1. url[h] \in Urls /\ client[h] \in Nat /\ uris[h] \in SUBSET Uris
    BY DEF TypeOK
<1>2. Entry(client[h], uris[h]) \in [kind : {"none", "invalid", "valid"},
                                     client : Nat, uris : SUBSET Uris]
    BY <1>1
<1>3. cache' \in [Urls -> [kind : {"none", "invalid", "valid"}, client : Nat, uris : SUBSET Uris]]
    <2> HIDE DEF Entry
    <2> QED  BY <1>1, <1>2 DEF TypeOK, Store
<1>4. ttl' \in [Urls -> 0..RegistryTTL]
    BY <1>1 DEF TypeOK, Store
<1>5. ASSUME NEW u \in Urls, ttl'[u] = 0 PROVE cache'[u] = NoEntry
    <2>1. CASE u = url[h]
        BY <1>1, <1>5, <2>1 DEF TypeOK, Store
    <2>2. CASE u # url[h]
        BY <1>1, <1>5, <2>2 DEF TypeOK, Store
    <2> QED  BY <2>1, <2>2
<1> QED  BY <1>3, <1>4, <1>5

\* Every step keeps the types.
LEMMA TypeStep == TypeOK /\ [Next]_vars => TypeOK'
<1> SUFFICES ASSUME TypeOK, [Next]_vars PROVE TypeOK'
    OBVIOUS
<1>1. ASSUME NEW h \in Handlers, NEW p \in Requests, Forward(h, p) \/ Begin(h, p)
      PROVE  TypeOK'
    <2>1. CASE Forward(h, p)
        BY <2>1 DEF TypeOK, Forward, Requests, ParamsValid
    <2>2. CASE Begin(h, p)
        BY <2>2 DEF TypeOK, Begin, Requests, ParamsValid
    <2> QED  BY <1>1, <2>1, <2>2
<1>2. ASSUME NEW h \in Handlers, Hit(h) PROVE TypeOK'
    <2>1. Return(h)
        BY <1>2 DEF Hit, Redirect
    <2>2. url[h] \in Urls /\ uri[h] \in Uris /\ cache[url[h]].client \in Nat
        BY <1>2 DEF TypeOK, Hit
    <2>3. redirected' \subseteq (Urls \X Uris \X Nat) \union (Plain \X Uris \X Plain)
        BY <1>2, <2>2 DEF TypeOK, Hit, Redirect
    <2> QED
        BY <1>2, <2>1, <2>3, ReturnType DEF TypeOK, Hit
<1>3. ASSUME NEW h \in Handlers, Miss(h) \/ Fetch(h) PROVE TypeOK'
    <2>1. CASE Miss(h)
        BY <2>1 DEF TypeOK, Miss
    <2>2. CASE Fetch(h)
        BY <2>2 DEF TypeOK, Fetch
    <2> QED  BY <1>3, <2>1, <2>2
<1>4. ASSUME NEW h \in Handlers, FetchRefused(h) PROVE TypeOK'
    BY <1>4, ReturnType DEF TypeOK, FetchRefused
<1>5. ASSUME NEW h \in Handlers, Enroll(h) PROVE TypeOK'
    <2>1. clients' \in Seq([url : Urls, uris : SUBSET Uris])
        BY <1>5, RegisterGrows DEF Enroll
    <2>2. Len(clients) + 1 \in Nat
        BY DEF TypeOK
    <2> QED
        BY <1>5, <2>1, <2>2 DEF TypeOK, Enroll
<1>6. ASSUME NEW h \in Handlers, EnrollError(h) PROVE TypeOK'
    BY <1>6, RegisterGrows, ReturnType DEF TypeOK, EnrollError
<1>7. ASSUME NEW h \in Handlers, Save(h) PROVE TypeOK'
    <2>1. Return(h) /\ Store(h) /\ pc[h] # "idle"
        BY <1>7 DEF Save, Redirect
    <2>2. redirected' \subseteq (Urls \X Uris \X Nat) \union (Plain \X Uris \X Plain)
        BY <1>7 DEF TypeOK, Save, Redirect
    <2> QED
        BY <1>7, <2>1, <2>2, ReturnType, StoreType DEF TypeOK, Save
<1>8. ASSUME NEW h \in Handlers, RegistryError(h) PROVE TypeOK'
    BY <1>8, ReturnType, StoreType DEF TypeOK, RegistryError
<1>9. ASSUME NEW u \in Urls, NEW s \in Documents[u], Publish(u, s) PROVE TypeOK'
    BY <1>9 DEF TypeOK, Publish
<1>10. CASE Tick
    BY <1>10 DEF TypeOK, Tick
<1>11. CASE UNCHANGED vars
    BY <1>11 DEF TypeOK, vars
<1> QED
    BY <1>1, <1>2, <1>3, <1>4, <1>5, <1>6, <1>7, <1>8, <1>9, <1>10, <1>11
       DEF Next, HandlerStep

\* The variables of authorize and of the registry keep their types.
THEOREM TypeCorrect == Spec => []TypeOK
BY TypeInit, TypeStep, PTL DEF Spec

-----------------------------------------------------------------------------
(* Redirects.                                                              *)

\* Initially nothing is cached that could be used, and nobody was redirected.
LEMMA SoundInit == Init => Sound
BY DEF Init, Sound, InHand, InRegistry, RedirectIsRegistered, RedirectWasPublished

\* A redirect that was sound stays so.
LEMMA RedirectsKept ==
    ASSUME TypeOK, RedirectIsRegistered, RedirectWasPublished,
           redirected' \subseteq redirected, \A u \in Urls : listed[u] \subseteq listed'[u],
           DOMAIN clients \subseteq DOMAIN clients',
           \A n \in DOMAIN clients : clients'[n] = clients[n]
    PROVE  RedirectIsRegistered' /\ RedirectWasPublished'
BY DEF RedirectIsRegistered, RedirectWasPublished

\* The list of clients may grow and the documents may list more: what was sound
\* stays sound.
LEMMA SoundGrows ==
    ASSUME TypeOK, Sound,
           UNCHANGED <<cache, pc, requestVars>>, redirected' \subseteq redirected,
           DOMAIN clients \subseteq DOMAIN clients',
           \A n \in DOMAIN clients : clients'[n] = clients[n],
           \A u \in Urls : listed[u] \subseteq listed'[u] /\ doc'[u] \subseteq listed'[u]
    PROVE  Sound'
<1>1. InHand'
    BY DEF TypeOK, Sound, InHand
<1>2. InRegistry'
    BY DEF TypeOK, Sound, InRegistry
<1>3. RedirectIsRegistered' /\ RedirectWasPublished'
    BY RedirectsKept DEF Sound
<1> QED  BY <1>1, <1>2, <1>3 DEF Sound

\* A handler that returns has nothing in hand; the others keep what they have.
LEMMA ReturnSound ==
    ASSUME TypeOK, InHand, NEW h \in Handlers, Return(h), UNCHANGED listed,
           DOMAIN clients \subseteq DOMAIN clients',
           \A n \in DOMAIN clients : clients'[n] = clients[n]
    PROVE  InHand'
BY DEF TypeOK, InHand, Return

\* The registry keeps its registrations when the list of clients grows.
LEMMA RegistrySound ==
    ASSUME TypeOK, InRegistry, UNCHANGED <<cache, listed>>,
           DOMAIN clients \subseteq DOMAIN clients',
           \A n \in DOMAIN clients : clients'[n] = clients[n]
    PROVE  InRegistry'
BY DEF TypeOK, InRegistry

\* A redirect to a URI of a client registered for this URL is a sound one.
LEMMA RedirectSound ==
    ASSUME TypeOK, RedirectIsRegistered, RedirectWasPublished,
           NEW h \in Handlers, NEW c, Redirect(h, c), UNCHANGED <<clients, listed>>,
           url[h] \in Urls, c \in DOMAIN clients, clients[c].url = url[h], uri[h] \in clients[c].uris,
           uri[h] \in listed[url[h]]
    PROVE  RedirectIsRegistered' /\ RedirectWasPublished'
BY DEF TypeOK, RedirectIsRegistered, RedirectWasPublished, Redirect

\* What a handler stores is what it has in hand.
LEMMA StoreSound ==
    ASSUME TypeOK, InHand, InRegistry, NEW h \in Handlers, pc[h] = "save", Store(h),
           UNCHANGED <<clients, listed>>
    PROVE  InRegistry'
<1> SUFFICES ASSUME NEW u \in Urls, cache'[u].kind = "valid"
             PROVE  /\ cache'[u].client \in DOMAIN clients'
                    /\ clients'[cache'[u].client] = [url |-> u, uris |-> cache'[u].uris]
                    /\ cache'[u].uris \subseteq listed'[u]
    BY DEF InRegistry
<1>1. CASE u = url[h]
    <2>1. cache'[u] = Entry(client[h], uris[h])
        BY <1>1 DEF TypeOK, Store
    <2> QED
        BY <1>1, <2>1 DEF InHand
<1>2. CASE u # url[h]
    <2>1. cache'[u] = cache[u]
        BY <1>2 DEF TypeOK, Store
    <2> QED
        BY <2>1 DEF InRegistry
<1> QED  BY <1>1, <1>2

\* Every step keeps the invariant.
LEMMA SoundStep == TypeOK /\ Sound /\ [Next]_vars => Sound'
<1> SUFFICES ASSUME TypeOK, Sound, [Next]_vars PROVE Sound'
    OBVIOUS
<1>1. ASSUME NEW h \in Handlers, NEW p \in Requests, Forward(h, p) \/ Begin(h, p)
      PROVE  Sound'
    <2>1. CASE Forward(h, p)
        <3>1. InHand' /\ InRegistry' /\ \A u \in Urls : doc'[u] \subseteq listed'[u]
            BY <2>1 DEF Forward, Sound, InHand, InRegistry
        <3>2. p.client_id \notin Urls
            BY <2>1 DEF Forward
        <3>3. RedirectIsRegistered' /\ RedirectWasPublished'
            BY <2>1, <3>2 DEF Forward, RedirectIsRegistered, RedirectWasPublished
        <3> QED  BY <3>1, <3>3 DEF Sound
    <2>2. CASE Begin(h, p)
        BY <2>2 DEF TypeOK, Begin, Sound, InHand, InRegistry, RedirectIsRegistered,
            RedirectWasPublished
    <2> QED  BY <1>1, <2>1, <2>2
<1>2. ASSUME NEW h \in Handlers, Hit(h) PROVE Sound'
    <2>1. Return(h) /\ UNCHANGED <<doc, cache, clients, listed>>
        BY <1>2 DEF Hit, Redirect
    <2>2. InHand' /\ InRegistry'
        BY <2>1, ReturnSound, RegistrySound DEF Sound
    <2>3. CASE CachedAllows(h)
        <3>1. Redirect(h, cache[url[h]].client)
            BY <1>2, <2>3 DEF Hit
        <3>2. url[h] \in Urls /\ cache[url[h]].kind = "valid" /\ uri[h] \in cache[url[h]].uris
            BY <1>2, <2>3 DEF TypeOK, Hit, CachedAllows
        <3>3. /\ cache[url[h]].client \in DOMAIN clients
              /\ clients[cache[url[h]].client].url = url[h]
              /\ uri[h] \in clients[cache[url[h]].client].uris
              /\ uri[h] \in listed[url[h]]
            <4> DEFINE e == cache[url[h]]
            <4>1. /\ e.client \in DOMAIN clients
                  /\ clients[e.client] = [url |-> url[h], uris |-> e.uris]
                  /\ e.uris \subseteq listed[url[h]]
                BY <3>2 DEF Sound, InRegistry
            <4>2. clients[e.client].url = url[h] /\ clients[e.client].uris = e.uris
                BY <4>1
            <4> QED  BY <3>2, <4>1, <4>2
        <3>4. RedirectIsRegistered' /\ RedirectWasPublished'
            BY <2>1, <3>1, <3>2, <3>3, RedirectSound DEF Sound
        <3> QED
            BY <2>1, <2>2, <3>4 DEF Sound
    <2>4. CASE ~CachedAllows(h)
        <3>1. NoRedirect
            BY <1>2, <2>4 DEF Hit
        <3> QED
            BY <2>1, <2>2, <3>1, RedirectsKept DEF Sound
    <2> QED  BY <2>3, <2>4
<1>3. ASSUME NEW h \in Handlers, Miss(h) PROVE Sound'
    BY <1>3 DEF TypeOK, Miss, Sound, InHand, InRegistry, RedirectIsRegistered, RedirectWasPublished
<1>4. ASSUME NEW h \in Handlers, Fetch(h) PROVE Sound'
    <2>1. InHand'
        BY <1>4 DEF TypeOK, Fetch, Sound, InHand
    <2> QED
        BY <1>4, <2>1, RegistrySound, RedirectsKept DEF Fetch, Sound
<1>5. ASSUME NEW h \in Handlers, FetchRefused(h) PROVE Sound'
    BY <1>5, ReturnSound, RegistrySound, RedirectsKept DEF FetchRefused, Sound
<1>6. ASSUME NEW h \in Handlers, Enroll(h) PROVE Sound'
    <2>1. /\ DOMAIN clients' = DOMAIN clients \union {Len(clients) + 1}
          /\ \A n \in DOMAIN clients : clients'[n] = clients[n]
          /\ clients'[Len(clients) + 1] = [url |-> url[h], uris |-> uris[h]]
        BY <1>6, RegisterGrows DEF Enroll
    <2>2. InHand'
        BY <1>6, <2>1 DEF TypeOK, Enroll, Sound, InHand
    <2> QED
        BY <1>6, <2>1, <2>2, RegistrySound, RedirectsKept DEF Enroll, Sound
<1>7. ASSUME NEW h \in Handlers, EnrollError(h) PROVE Sound'
    <2>1. /\ DOMAIN clients \subseteq DOMAIN clients'
          /\ \A n \in DOMAIN clients : clients'[n] = clients[n]
        BY <1>7, RegisterGrows DEF EnrollError
    <2> QED
        BY <1>7, <2>1, ReturnSound, RegistrySound, RedirectsKept DEF EnrollError, Sound
<1>8. ASSUME NEW h \in Handlers, Save(h) PROVE Sound'
    <2>1. Return(h) /\ UNCHANGED <<doc, clients, listed>>
        BY <1>8 DEF Save, Redirect
    <2>2. InHand' /\ InRegistry'
        BY <1>8, <2>1, ReturnSound, StoreSound DEF Save, Sound
    <2>3. /\ client[h] \in DOMAIN clients
          /\ clients[client[h]].url = url[h]
          /\ uri[h] \in clients[client[h]].uris
          /\ uri[h] \in listed[url[h]]
        <3>1. /\ client[h] \in DOMAIN clients
              /\ clients[client[h]] = [url |-> url[h], uris |-> uris[h]]
              /\ uri[h] \in uris[h]
              /\ uris[h] \subseteq listed[url[h]]
            BY <1>8 DEF Save, Sound, InHand
        <3>2. clients[client[h]].url = url[h] /\ clients[client[h]].uris = uris[h]
            BY <3>1
        <3> QED  BY <3>1, <3>2
    <2>4. RedirectIsRegistered' /\ RedirectWasPublished'
        <3>1. url[h] \in Urls
            BY <1>8 DEF Save, TypeOK
        <3> QED  BY <1>8, <2>1, <2>3, <3>1, RedirectSound DEF Save, Sound
    <2> QED
        BY <2>1, <2>2, <2>4 DEF Sound
<1>9. ASSUME NEW h \in Handlers, RegistryError(h) PROVE Sound'
    <2>1. Return(h) /\ NoRedirect /\ UNCHANGED <<doc, clients, listed>>
        BY <1>9 DEF RegistryError
    <2>2. InRegistry'
        BY <1>9, <2>1, RegistrySound, StoreSound DEF RegistryError, Sound
    <2> QED
        BY <2>1, <2>2, ReturnSound, RedirectsKept DEF Sound
<1>10. ASSUME NEW u \in Urls, NEW s \in Documents[u], Publish(u, s) PROVE Sound'
    <2>1. \A v \in Urls : listed[v] \subseteq listed'[v] /\ doc'[v] \subseteq listed'[v]
        BY <1>10 DEF Publish, TypeOK, Sound
    <2> QED
        BY <1>10, <2>1, SoundGrows DEF Publish
<1>11. CASE Tick
    <2>1. InRegistry'
        BY <1>11 DEF Tick, TypeOK, Sound, InRegistry
    <2>2. InHand'
        BY <1>11 DEF Tick, Sound, InHand
    <2> QED
        BY <1>11, <2>1, <2>2, RedirectsKept DEF Tick, Sound
<1>12. CASE UNCHANGED vars
    BY <1>12, SoundGrows DEF vars, Sound
<1> QED
    BY <1>1, <1>2, <1>3, <1>4, <1>5, <1>6, <1>7, <1>8, <1>9, <1>10, <1>11, <1>12
       DEF Next, HandlerStep

\* The invariant holds in every behaviour.
LEMMA AlwaysSound == Spec => []Sound
BY TypeCorrect, SoundInit, SoundStep, PTL DEF Spec

\* However many handlers race for a client, a browser that comes with a URL as its
\* client_id is only ever sent to Keycloak with a client registered for that URL
\* and with one of that registration's redirect URIs; one that comes with a plain
\* client_id is passed on with it, unchanged (router.py).
THEOREM OnlyRegisteredRedirects == Spec => []RedirectIsRegistered
<1>1. Sound => RedirectIsRegistered
    BY DEF Sound
<1> QED  BY AlwaysSound, <1>1, PTL

\* And one that comes with a URL only with a redirect URI that the document of that
\* URL has listed (router.py; of a plain client_id the gateway checks no redirect
\* URI, and the theorem says nothing of it).
THEOREM OnlyPublishedRedirects == Spec => []RedirectWasPublished
<1>1. Sound => RedirectWasPublished
    BY DEF Sound
<1> QED  BY AlwaysSound, <1>1, PTL
=============================================================================
