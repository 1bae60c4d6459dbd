----------------------------- MODULE FlowProofs -----------------------------
(***************************************************************************)
(* What a bearer token opens was on a form its user allowed, a code reaches *)
(* the client it is for and a registered client is served: proofs about    *)
(* AuthorizationFlow, for any users, clients, containers, URLs and forms.  *)
(***************************************************************************)
EXTENDS AuthorizationFlow, SequenceTheorems, TLAPS

\* Whoever holds a code or a token is registered.
HoldersRegistered ==
  /\ \A c \in Code : codes[c] # None => clients[codes[c].view.client] # None
  /\ \A t \in Token : tokens[t] # None => clients[tokens[t].grant.client] # None

RedirectsValid ==
  \A cl \in Client : clients[cl] # None => \A u \in clients[cl].redirects : RedirectValid(u)

ConsentsWereSeen == \A k \in consents : k.seen = k.key

\* A bearer token is for no more than its user saw, and was issued by the container of
\* its client.
TokenWasSeen(b) ==
  /\ b.seen.user = b.grant.user /\ b.seen.client = b.grant.client
  /\ b.grant.resources \subseteq b.seen.resources
  /\ b.grant.scope \subseteq b.seen.scope
  /\ \E origin \in Origin : b.iss = Issuer(pinned, origin, clients[b.grant.client].container)

TokensWereSeen == \A t \in Token : tokens[t] # None => TokenWasSeen(tokens[t])

FlowInv ==
  /\ FlowTypeOK /\ HoldersRegistered
  /\ RedirectsValid /\ RegisteredClientsServed
  /\ ConsentsWereSeen /\ CodesWereSeen /\ CodesReachTheClient /\ TokensWereSeen

-----------------------------------------------------------------------------
(* The rules of flow/clients.py *)

\* What the registration accepts can be used: a scope to ask for, a response type and a
\* grant type.
LEMMA RegistrableIsServed ==
  ASSUME NEW m \in [redirects : SUBSET Uri, grants : SUBSET GrantType,
                    responses : SUBSET {"code"}, scope : SUBSET Scope],
         Registrable(m)
  PROVE  /\ \E scope \in SUBSET Scope : ScopesValid(m, scope)
         /\ "code" \in m.responses /\ "authorization_code" \in m.grants
         /\ \A u \in m.redirects : RedirectValid(u)
<1>1. "code" \in m.responses
  BY DEF Registrable
<1>2. "authorization_code" \in m.grants
  BY <1>1 DEF Registrable, GrantsMatch
<1>3. ScopesValid(m, m.scope)
  BY DEF Registrable, ScopesValid, ScopesRegistered
<1> QED BY <1>1, <1>2, <1>3 DEF Registrable

\* A redirect URI that is good for a client with valid ones is one of them, on this
\* machine up to the parts that are not compared.
LEMMA RedirectIsRegistered ==
  ASSUME NEW row, row.redirects \subseteq Uri,
         \A v \in row.redirects : RedirectValid(v),
         NEW u \in Uri, RedirectRegistered(row, u)
  PROVE  /\ Registered(row, u)
         /\ u.scheme = "http" => u.host \in LoopbackHosts
         /\ u.scheme # "script"
<1>1. CASE u \in row.redirects
  BY <1>1 DEF Registered, RedirectValid, LoopbackHttp, PrivateUse
<1>2. CASE u \notin row.redirects
  <2>1. LoopbackHttp(u)
    BY <1>2 DEF RedirectRegistered
  <2>2. PICK v \in row.redirects :
          LoopbackHttp(v) /\ u.host = v.host /\ u.path = v.path /\ u.query = v.query
    BY <1>2 DEF RedirectRegistered
  <2>3. u \in UriParts /\ v \in UriParts
    BY MetadataConstants
  <2>4. [v EXCEPT !.userinfo = u.userinfo, !.port = u.port, !.params = u.params,
                  !.fragment = u.fragment, !.wildcard = u.wildcard] = u
    <3>1. /\ u = [scheme |-> u.scheme, userinfo |-> u.userinfo, host |-> u.host, port |-> u.port,
                  path |-> u.path, params |-> u.params, query |-> u.query,
                  fragment |-> u.fragment, wildcard |-> u.wildcard]
          /\ v = [scheme |-> v.scheme, userinfo |-> v.userinfo, host |-> v.host, port |-> v.port,
                  path |-> v.path, params |-> v.params, query |-> v.query,
                  fragment |-> v.fragment, wildcard |-> v.wildcard]
      BY <2>3 DEF UriParts
    <3>2. u.scheme = v.scheme
      BY <2>1, <2>2 DEF LoopbackHttp
    <3> QED BY <2>2, <3>1, <3>2
  <2>5. Registered(row, u)
    BY <2>2, <2>4 DEF Registered, LoopbackHttp
  <2> QED BY <2>1, <2>5 DEF LoopbackHttp
<1> QED BY <1>1, <1>2

-----------------------------------------------------------------------------
(* Requests *)

\* What a request asks for is a grant, of resources of the container or asked for.
LEMMA AskedIsView ==
  ASSUME FlowTypeOK, NEW q \in Requests, NEW origin \in Origin, NEW u \in User,
         clients[q.client] # None
  PROVE  /\ Asked(q, origin, u) \in View
         /\ Key(Asked(q, origin, u)) \in Keys
<1> DEFINE iss == Issuer(pinned, origin, clients[q.client].container)
<1>1. /\ q.client \in Client /\ q.redirect \in Uri /\ q.scope \in SUBSET Scope
      /\ q.resources \in (SUBSET Url) \cup {Unasked}
  BY FlowConstants
<1>2. clients[q.client].container \in Container
  BY <1>1 DEF FlowTypeOK, ClientRow
<1>3. iss \in Url
  BY <1>2, FlowConstants DEF FlowTypeOK
<1>4. Granted(iss, q.resources) \in SUBSET Url
  <2>1. CASE q.resources = Unasked
    <3>1. Granted(iss, q.resources) = {iss}
      BY <2>1 DEF Granted
    <3> QED BY <1>3, <3>1
  <2>2. CASE q.resources # Unasked
    <3>1. Granted(iss, q.resources) = q.resources
      BY <2>2 DEF Granted
    <3>2. q.resources \in SUBSET Url
      BY <1>1, <2>2
    <3> QED BY <3>1, <3>2, Zenon
  <2> QED BY <2>1, <2>2
<1> HIDE DEF iss
<1>5. Asked(q, origin, u) = [user |-> u, client |-> q.client, redirect |-> q.redirect,
                             scope |-> q.scope, resources |-> Granted(iss, q.resources)]
  BY DEF Asked, iss
<1> QED BY <1>1, <1>4, <1>5 DEF View, Key, Keys

LEMMA KeyOfView == \A v \in View : Key(v) \in Keys
BY DEF View, Key, Keys

LEMMA UserOfTyped ==
  ASSUME FlowTypeOK, NEW b \in Browser, NEW login \in User \cup {Nobody},
         UserOf(b, login) # Nobody
  PROVE  UserOf(b, login) \in User
BY DEF FlowTypeOK, UserOf

\* Issuing a code keeps what is said of codes, when it is for what was seen and its
\* request passed the checks.
LEMMA CodeIssued ==
  ASSUME FlowInv, NEW q \in Requests, NEW origin \in Origin, NEW u \in User,
         NEW seen, seen = Key(Asked(q, origin, u)),
         Passes(q, origin), IssueCode(Asked(q, origin, u), seen),
         UNCHANGED clients
  PROVE  /\ codes' \in [Code -> CodeRow \cup {None}]
         /\ \A c \in Code : codes'[c] # None => clients'[codes'[c].view.client] # None
         /\ CodesWereSeen' /\ CodesReachTheClient'
<1> DEFINE v == Asked(q, origin, u)
           row == clients[q.client]
<1>1. row # None /\ RedirectRegistered(row, q.redirect)
  BY DEF Passes
<1>2. v \in View /\ seen \in Keys /\ v.client = q.client /\ v.redirect = q.redirect
  BY <1>1, AskedIsView DEF FlowInv, Asked
<1>3. PICK c \in Code : codes[c] = None /\ codes' = [codes EXCEPT ![c] = [view |-> v, seen |-> seen]]
  BY DEF IssueCode
<1>4. q.client \in Client /\ q.redirect \in Uri
  BY FlowConstants
<1>5. /\ Registered(row, q.redirect)
      /\ q.redirect.scheme = "http" => q.redirect.host \in LoopbackHosts
      /\ q.redirect.scheme # "script"
  <2>1. row.redirects \subseteq Uri /\ \A x \in row.redirects : RedirectValid(x)
    BY <1>1, <1>4 DEF FlowInv, FlowTypeOK, ClientRow, RedirectsValid
  <2> QED BY <1>1, <1>4, <2>1, RedirectIsRegistered
<1> HIDE DEF v, row
<1>6. /\ codes'[c] = [view |-> v, seen |-> seen]
      /\ \A d \in Code \ {c} : codes'[d] = codes[d]
      /\ codes' \in [Code -> CodeRow \cup {None}]
  BY <1>2, <1>3 DEF FlowInv, FlowTypeOK, CodeRow
<1>7. seen = Key(v)
  BY DEF v
<1>8. clients'[v.client] = row
  BY <1>2 DEF row
<1> QED BY <1>1, <1>2, <1>5, <1>6, <1>7, <1>8
        DEF FlowInv, HoldersRegistered, CodesWereSeen, CodesReachTheClient

-----------------------------------------------------------------------------
(* The invariant, action by action *)

LEMMA InitInv == Init => FlowInv
<1> SUFFICES ASSUME Init PROVE FlowInv
  OBVIOUS
<1>1. FlowTypeOK
  BY DEF Init, FlowTypeOK
<1>2. HoldersRegistered /\ RedirectsValid /\ RegisteredClientsServed
  BY DEF Init, HoldersRegistered, RedirectsValid, RegisteredClientsServed
<1>3. ConsentsWereSeen /\ CodesWereSeen /\ CodesReachTheClient /\ TokensWereSeen
  BY DEF Init, ConsentsWereSeen, CodesWereSeen, CodesReachTheClient, TokensWereSeen
<1> QED BY <1>1, <1>2, <1>3 DEF FlowInv

LEMMA RegisterInv ==
  ASSUME FlowInv, NEW cl \in Client, NEW m \in Registrations, NEW container \in Container,
         Register(cl, m, container)
  PROVE  FlowInv'
<1> DEFINE row == [container |-> container, redirects |-> m.redirects, grants |-> m.grants,
                   responses |-> m.responses, scope |-> m.scope]
<1>1. m \in [redirects : SUBSET Uri, grants : SUBSET GrantType,
             responses : SUBSET {"code"}, scope : SUBSET Scope]
  BY FlowConstants
<1>2. row \in ClientRow
  BY <1>1 DEF ClientRow
<1>3. /\ clients[cl] = None /\ clients'[cl] = row
      /\ \A x \in Client \ {cl} : clients'[x] = clients[x]
      /\ clients' \in [Client -> ClientRow \cup {None}]
  BY <1>2 DEF Register, FlowInv, FlowTypeOK
<1>4. UNCHANGED <<pinned, mcp, session, forms, consents, codes, tokens>>
  BY DEF Register, settings
<1>5. FlowTypeOK'
  BY <1>3, <1>4 DEF FlowInv, FlowTypeOK
<1>6. \A x \in Client : clients[x] # None => clients'[x] = clients[x]
  BY <1>3
<1>7. /\ \A c \in Code : codes[c] # None => codes[c].view.client \in Client
      /\ \A t \in Token : tokens[t] # None => tokens[t].grant.client \in Client
  BY DEF FlowInv, FlowTypeOK, CodeRow, BearerRow, View, Keys
<1>8. HoldersRegistered'
  BY <1>4, <1>6, <1>7 DEF FlowInv, HoldersRegistered
<1>9. RedirectsValid' /\ RegisteredClientsServed'
  <2>1. Registrable(m)
    BY DEF Register
  <2>2. /\ \E scope \in SUBSET Scope : ScopesValid(row, scope)
        /\ "code" \in row.responses /\ "authorization_code" \in row.grants
        /\ \A u \in row.redirects : RedirectValid(u)
    BY <1>1, <2>1, RegistrableIsServed DEF ScopesValid, ScopesRegistered
  <2> HIDE DEF row
  <2> QED BY <1>3, <2>2 DEF FlowInv, RedirectsValid, RegisteredClientsServed
<1>10. ConsentsWereSeen' /\ CodesWereSeen'
  BY <1>4 DEF FlowInv, ConsentsWereSeen, CodesWereSeen
<1>11. CodesReachTheClient'
  BY <1>4, <1>6, <1>7 DEF FlowInv, HoldersRegistered, CodesReachTheClient
<1>12. TokensWereSeen'
  BY <1>4, <1>6, <1>7 DEF FlowInv, HoldersRegistered, TokensWereSeen, TokenWasSeen
<1> QED BY <1>5, <1>8, <1>9, <1>10, <1>11, <1>12 DEF FlowInv

\* A step that touches neither clients, codes, tokens nor (but for forgetting) consents.
LEMMA QuietInv ==
  ASSUME FlowInv, FlowTypeOK', UNCHANGED <<pinned, clients, codes, tokens>>,
         consents' \subseteq consents
  PROVE  FlowInv'
<1>1. HoldersRegistered' /\ RedirectsValid' /\ RegisteredClientsServed'
  BY DEF FlowInv, HoldersRegistered, RedirectsValid, RegisteredClientsServed
<1>2. ConsentsWereSeen' /\ CodesWereSeen'
  BY DEF FlowInv, ConsentsWereSeen, CodesWereSeen
<1>3. CodesReachTheClient' /\ TokensWereSeen'
  BY DEF FlowInv, CodesReachTheClient, TokensWereSeen, TokenWasSeen
<1> QED BY <1>1, <1>2, <1>3 DEF FlowInv

LEMMA ShowFormInv ==
  ASSUME FlowInv, NEW b \in Browser, NEW q \in Requests, NEW origin \in Origin,
         NEW login \in User \cup {Nobody}, NEW d, ShowForm(b, q, origin, login, d)
  PROVE  FlowInv'
<1> DEFINE u == UserOf(b, login)
           v == Asked(q, origin, u)
<1>1. u \in User
  BY UserOfTyped DEF ShowForm, FlowInv
<1>2. clients[q.client] # None
  BY DEF ShowForm, Passes
<1>3. v \in View
  BY <1>1, <1>2, AskedIsView DEF FlowInv
<1>4. /\ UNCHANGED <<pinned, mcp, clients, consents, codes, tokens>>
      /\ forms' = forms \cup {[view |-> v, age |-> 0]}
      /\ session' = [session EXCEPT ![b] = u]
  BY DEF ShowForm, SignedIn, settings
<1> HIDE DEF u, v
<1>5. [view |-> v, age |-> 0] \in [view : View, age : 0 .. Ttl + 1]
  BY <1>3, FlowConstants
<1>6. FlowTypeOK'
  BY <1>1, <1>4, <1>5 DEF FlowInv, FlowTypeOK
<1> QED BY <1>4, <1>6, QuietInv

LEMMA AllowInv ==
  ASSUME FlowInv, NEW b \in Browser, NEW q \in Requests, NEW origin \in Origin,
         NEW f \in forms, NEW login \in User \cup {Nobody}, Allow(b, q, origin, f, login)
  PROVE  FlowInv'
<1> DEFINE u == UserOf(b, login)
           v == Asked(q, origin, u)
<1>1. u \in User
  BY UserOfTyped DEF Allow, FlowInv
<1>2. clients[q.client] # None /\ Passes(q, origin)
  BY DEF Allow, Passes
<1>3. v \in View /\ Key(v) \in Keys
  BY <1>1, <1>2, AskedIsView DEF FlowInv
<1>4. /\ UNCHANGED <<pinned, mcp, clients, forms, tokens>>
      /\ f.view = v
      /\ consents' = consents \cup {[key |-> Key(v), seen |-> Key(v)]}
      /\ IssueCode(v, Key(v))
      /\ session' = [session EXCEPT ![b] = u]
  BY DEF Allow, CsrfValid, SignedIn, settings
<1>5. /\ codes' \in [Code -> CodeRow \cup {None}]
      /\ \A c \in Code : codes'[c] # None => clients'[codes'[c].view.client] # None
      /\ CodesWereSeen' /\ CodesReachTheClient'
  BY <1>1, <1>2, <1>4, CodeIssued
<1> HIDE DEF u, v
<1>6. FlowTypeOK'
  BY <1>1, <1>3, <1>4, <1>5 DEF FlowInv, FlowTypeOK
<1>7. HoldersRegistered' /\ RedirectsValid' /\ RegisteredClientsServed'
  BY <1>4, <1>5 DEF FlowInv, HoldersRegistered, RedirectsValid, RegisteredClientsServed
<1>8. ConsentsWereSeen'
  BY <1>4 DEF FlowInv, ConsentsWereSeen
<1>9. TokensWereSeen'
  BY <1>4 DEF FlowInv, TokensWereSeen, TokenWasSeen
<1> QED BY <1>5, <1>6, <1>7, <1>8, <1>9 DEF FlowInv

LEMMA SkipInv ==
  ASSUME FlowInv, NEW b \in Browser, NEW q \in Requests, NEW origin \in Origin,
         NEW login \in User \cup {Nobody}, Skip(b, q, origin, login)
  PROVE  FlowInv'
<1> DEFINE u == UserOf(b, login)
           v == Asked(q, origin, u)
<1>1. u \in User
  BY UserOfTyped DEF Skip, FlowInv
<1>2. Passes(q, origin)
  BY DEF Skip
<1>3. PICK k \in Remembered(v) : IssueCode(v, k.seen)
  BY DEF Skip
<1>4. k.seen = Key(v)
  BY DEF Remembered, FlowInv, ConsentsWereSeen
<1>5. /\ UNCHANGED <<pinned, mcp, clients, forms, consents, tokens>>
      /\ session' = [session EXCEPT ![b] = u]
  BY DEF Skip, SignedIn, settings
<1>6. /\ codes' \in [Code -> CodeRow \cup {None}]
      /\ \A c \in Code : codes'[c] # None => clients'[codes'[c].view.client] # None
      /\ CodesWereSeen' /\ CodesReachTheClient'
  BY <1>1, <1>2, <1>3, <1>4, <1>5, CodeIssued
<1> HIDE DEF u, v
<1>7. FlowTypeOK'
  BY <1>1, <1>5, <1>6 DEF FlowInv, FlowTypeOK
<1>8. HoldersRegistered' /\ RedirectsValid' /\ RegisteredClientsServed'
  BY <1>5, <1>6 DEF FlowInv, HoldersRegistered, RedirectsValid, RegisteredClientsServed
<1>9. ConsentsWereSeen' /\ TokensWereSeen'
  BY <1>5 DEF FlowInv, ConsentsWereSeen, TokensWereSeen, TokenWasSeen
<1> QED BY <1>6, <1>7, <1>8, <1>9 DEF FlowInv

\* The steps of browsers and of time.
LEMMA BrowserInv ==
  ASSUME FlowInv,
         \/ \E b \in Browser : SignOut(b)
         \/ \E f \in forms : Close(f)
         \/ \E k \in consents : Forget(k)
         \/ Tick
  PROVE  FlowInv'
<1>1. /\ UNCHANGED <<pinned, mcp, clients, codes, tokens>>
      /\ consents' \subseteq consents
  BY DEF SignOut, Close, Forget, Tick, settings
<1>2. FlowTypeOK'
  <2>1. forms' \subseteq [view : View, age : 0 .. Ttl + 1]
    <3>1. CASE Tick
      <4>1. ASSUME NEW f \in forms
            PROVE  [f EXCEPT !.age = IF @ <= Ttl THEN @ + 1 ELSE @]
                     \in [view : View, age : 0 .. Ttl + 1]
        BY FlowConstants DEF FlowInv, FlowTypeOK
      <4> QED BY <3>1, <4>1 DEF Tick
    <3>2. CASE ~Tick
      BY <3>2 DEF SignOut, Close, Forget, FlowInv, FlowTypeOK
    <3> QED BY <3>1, <3>2
  <2>2. session' \in [Browser -> User \cup {Nobody}]
    BY DEF SignOut, Close, Forget, Tick, SignedIn, FlowInv, FlowTypeOK
  <2> QED BY <1>1, <2>1, <2>2 DEF FlowInv, FlowTypeOK
<1> QED BY <1>1, <1>2, QuietInv

\* What tokens are for, when a grant is narrowed to what is asked of it.
LEMMA NarrowedToken ==
  ASSUME FlowInv, UNCHANGED <<pinned, mcp, clients, session, forms, consents>>,
         NEW t \in Token, NEW origin \in Origin, NEW g \in Keys, NEW seen \in Keys,
         clients[g.client] # None,
         seen.user = g.user, seen.client = g.client,
         NEW resources \in SUBSET g.resources,
         resources \subseteq seen.resources,
         NEW scope \in SUBSET g.scope, scope \subseteq seen.scope,
         tokens' = [tokens EXCEPT ![t] =
           Bearer(clients[g.client].container, origin,
                  [user |-> g.user, client |-> g.client, scope |-> scope, resources |-> resources],
                  seen)]
  PROVE  /\ tokens' \in [Token -> BearerRow \cup {None}]
         /\ \A s \in Token : tokens'[s] # None => clients'[tokens'[s].grant.client] # None
         /\ TokensWereSeen'
<1> DEFINE h   == [user |-> g.user, client |-> g.client, scope |-> scope, resources |-> resources]
           iss == Issuer(pinned, origin, clients[g.client].container)
           new == [iss |-> iss, grant |-> h, seen |-> seen]
<1>1. h \in Keys
  BY DEF Keys
<1>2. iss \in Url
  BY FlowConstants DEF FlowInv, FlowTypeOK, ClientRow, Keys
<1>3. new \in BearerRow
  BY <1>1, <1>2 DEF BearerRow
<1>4. /\ tokens'[t] = new /\ tokens' \in [Token -> BearerRow \cup {None}]
      /\ \A s \in Token \ {t} : tokens'[s] = tokens[s]
  BY <1>3 DEF FlowInv, FlowTypeOK, Bearer
<1>5. /\ new.seen.user = new.grant.user /\ new.seen.client = new.grant.client
      /\ new.grant.resources \subseteq new.seen.resources
      /\ new.grant.scope \subseteq new.seen.scope
      /\ \E o \in Origin : new.iss = Issuer(pinned', o, clients'[new.grant.client].container)
  OBVIOUS
<1>6. clients'[new.grant.client] # None
  OBVIOUS
<1> HIDE DEF new
<1>7. ASSUME NEW s \in Token, tokens'[s] # None
      PROVE  TokenWasSeen(tokens[s])'
  <2>1. CASE s = t
    BY <1>4, <1>5, <2>1 DEF TokenWasSeen
  <2>2. CASE s # t
    <3>1. TokenWasSeen(tokens[s])
      BY <1>4, <1>7, <2>2 DEF FlowInv, TokensWereSeen
    <3> QED BY <1>4, <2>2, <3>1 DEF TokenWasSeen
  <2> QED BY <2>1, <2>2
<1>8. ASSUME NEW s \in Token, tokens'[s] # None
      PROVE  clients'[tokens'[s].grant.client] # None
  <2>1. CASE s = t
    BY <1>4, <1>6, <2>1
  <2>2. CASE s # t
    BY <1>4, <1>8, <2>2 DEF FlowInv, HoldersRegistered
  <2> QED BY <2>1, <2>2
<1> QED BY <1>4, <1>7, <1>8 DEF TokensWereSeen

LEMMA OrAllWithin ==
  ASSUME NEW approved, NEW asked, Within(asked, approved)
  PROVE  OrAll(asked, approved) \in SUBSET approved
BY DEF OrAll, Within

LEMMA ExchangeInv ==
  ASSUME FlowInv, NEW c \in Code, NEW t \in Token, NEW origin \in Origin,
         NEW want \in Narrowings, Exchange(c, t, origin, want)
  PROVE  FlowInv'
<1> DEFINE g   == Key(codes[c].view)
           res == OrAll(want, g.resources)
<1>1. codes[c] \in CodeRow /\ clients[codes[c].view.client] # None /\ codes[c].seen = g
  BY DEF Exchange, FlowInv, FlowTypeOK, HoldersRegistered, CodesWereSeen
<1>2. g \in Keys /\ g.client = codes[c].view.client
  BY <1>1, KeyOfView DEF CodeRow, Key
<1>3. UNCHANGED <<pinned, mcp, clients, session, forms, consents>>
  BY DEF Exchange, settings
<1>4. /\ codes' = [codes EXCEPT ![c] = None]
      /\ Within(want, g.resources)
      /\ tokens' = [tokens EXCEPT ![t] =
           Bearer(clients[g.client].container, origin,
                  [g EXCEPT !.resources = res], codes[c].seen)]
  BY DEF Exchange
<1> HIDE DEF g
<1>5. res \in SUBSET g.resources
  BY <1>2, <1>4, OrAllWithin DEF Keys
<1> HIDE DEF res
<1>6. [g EXCEPT !.resources = res]
        = [user |-> g.user, client |-> g.client, scope |-> g.scope, resources |-> res]
  BY <1>2 DEF Keys
<1>7. /\ tokens' \in [Token -> BearerRow \cup {None}]
      /\ \A s \in Token : tokens'[s] # None => clients'[tokens'[s].grant.client] # None
      /\ TokensWereSeen'
  <2>1. tokens' = [tokens EXCEPT ![t] =
          Bearer(clients[g.client].container, origin,
                 [user |-> g.user, client |-> g.client, scope |-> g.scope, resources |-> res], g)]
    BY <1>1, <1>4, <1>6
  <2>2. clients[g.client] # None
    BY <1>1, <1>2
  <2> QED BY <1>2, <1>3, <1>5, <2>1, <2>2, NarrowedToken
<1>8. /\ codes' \in [Code -> CodeRow \cup {None}]
      /\ \A d \in Code : codes'[d] # None => codes'[d] = codes[d]
  BY <1>4 DEF FlowInv, FlowTypeOK
<1>9. FlowTypeOK'
  BY <1>3, <1>7, <1>8 DEF FlowInv, FlowTypeOK
<1>10. HoldersRegistered' /\ RedirectsValid' /\ RegisteredClientsServed'
  BY <1>3, <1>7, <1>8 DEF FlowInv, HoldersRegistered, RedirectsValid, RegisteredClientsServed
<1>11. ConsentsWereSeen' /\ CodesWereSeen' /\ CodesReachTheClient'
  BY <1>3, <1>8 DEF FlowInv, ConsentsWereSeen, CodesWereSeen, CodesReachTheClient
<1> QED BY <1>7, <1>9, <1>10, <1>11 DEF FlowInv

LEMMA RefreshInv ==
  ASSUME FlowInv, NEW t \in Token, NEW origin \in Origin,
         NEW want \in Narrowings, NEW scope \in SUBSET Scope, Refresh(t, origin, want, scope)
  PROVE  FlowInv'
<1> DEFINE g    == tokens[t].grant
           seen == tokens[t].seen
           res  == OrAll(want, g.resources)
           sc   == OrAll(scope, g.scope)
<1>1. tokens[t] \in BearerRow /\ clients[g.client] # None /\ TokenWasSeen(tokens[t])
  BY DEF Refresh, FlowInv, FlowTypeOK, HoldersRegistered, TokensWereSeen
<1>2. /\ g \in Keys /\ seen \in Keys
      /\ seen.user = g.user /\ seen.client = g.client
      /\ g.resources \subseteq seen.resources /\ g.scope \subseteq seen.scope
  BY <1>1 DEF BearerRow, TokenWasSeen
<1>3. UNCHANGED <<pinned, mcp, clients, session, forms, consents, codes>>
  BY DEF Refresh, settings
<1>4. /\ Within(want, g.resources) /\ Within(scope, g.scope)
      /\ tokens' = [tokens EXCEPT ![t] =
           Bearer(clients[g.client].container, origin,
                  [g EXCEPT !.resources = res, !.scope = sc], seen)]
  BY DEF Refresh
<1> HIDE DEF g, seen
<1>5. res \in SUBSET g.resources /\ sc \in SUBSET g.scope
  BY <1>2, <1>4, OrAllWithin DEF Keys, OrAll, Within
<1> HIDE DEF res, sc
<1>6. [g EXCEPT !.resources = res, !.scope = sc]
        = [user |-> g.user, client |-> g.client, scope |-> sc, resources |-> res]
  <2>1. g = [user |-> g.user, client |-> g.client, scope |-> g.scope, resources |-> g.resources]
    BY <1>2 DEF Keys
  <2> DEFINE h == [user |-> g.user, client |-> g.client, scope |-> g.scope, resources |-> res]
  <2>2. [g EXCEPT !.resources = res] = h
    BY <2>1
  <2>3. [g EXCEPT !.resources = res, !.scope = sc] = [h EXCEPT !.scope = sc]
    BY <2>2, Zenon
  <2>4. [h EXCEPT !.scope = sc]
          = [user |-> g.user, client |-> g.client, scope |-> sc, resources |-> res]
    OBVIOUS
  <2> QED BY <2>3, <2>4, Zenon
<1>7. /\ tokens' \in [Token -> BearerRow \cup {None}]
      /\ \A s \in Token : tokens'[s] # None => clients'[tokens'[s].grant.client] # None
      /\ TokensWereSeen'
  <2>1. tokens' = [tokens EXCEPT ![t] =
          Bearer(clients[g.client].container, origin,
                 [user |-> g.user, client |-> g.client, scope |-> sc, resources |-> res], seen)]
    BY <1>4, <1>6
  <2>2. res \subseteq seen.resources /\ sc \subseteq seen.scope
    BY <1>2, <1>5
  <2> QED BY <1>1, <1>2, <1>3, <1>5, <2>1, <2>2, NarrowedToken
<1>8. FlowTypeOK'
  BY <1>3, <1>7 DEF FlowInv, FlowTypeOK
<1>9. HoldersRegistered' /\ RedirectsValid' /\ RegisteredClientsServed'
  BY <1>3, <1>7 DEF FlowInv, HoldersRegistered, RedirectsValid, RegisteredClientsServed
<1>10. ConsentsWereSeen' /\ CodesWereSeen' /\ CodesReachTheClient'
  BY <1>3 DEF FlowInv, ConsentsWereSeen, CodesWereSeen, CodesReachTheClient
<1> QED BY <1>7, <1>8, <1>9, <1>10 DEF FlowInv

LEMMA LapseInv == FlowInv /\ Lapse => FlowInv'
<1> SUFFICES ASSUME FlowInv, Lapse PROVE FlowInv'
  OBVIOUS
<1>1. UNCHANGED <<pinned, mcp, clients, session, forms, consents>>
  BY DEF Lapse, settings
<1>2. /\ codes' \in [Code -> CodeRow \cup {None}]
      /\ \A c \in Code : codes'[c] # None => codes'[c] = codes[c]
      /\ tokens' \in [Token -> BearerRow \cup {None}]
      /\ \A t \in Token : tokens'[t] # None => tokens'[t] = tokens[t]
  BY DEF Lapse, FlowInv, FlowTypeOK
<1>3. FlowTypeOK'
  BY <1>1, <1>2 DEF FlowInv, FlowTypeOK
<1>4. HoldersRegistered' /\ RedirectsValid' /\ RegisteredClientsServed'
  BY <1>1, <1>2 DEF FlowInv, HoldersRegistered, RedirectsValid, RegisteredClientsServed
<1>5. ConsentsWereSeen' /\ CodesWereSeen' /\ CodesReachTheClient'
  BY <1>1, <1>2 DEF FlowInv, ConsentsWereSeen, CodesWereSeen, CodesReachTheClient
<1>6. TokensWereSeen'
  BY <1>1, <1>2 DEF FlowInv, TokensWereSeen, TokenWasSeen
<1> QED BY <1>3, <1>4, <1>5, <1>6 DEF FlowInv

LEMMA StepInv == FlowInv /\ [Next]_vars => FlowInv'
<1> SUFFICES ASSUME FlowInv, [Next]_vars PROVE FlowInv'
  OBVIOUS
<1>1. CASE \E cl \in Client, m \in Registrations, container \in Container : Register(cl, m, container)
  BY <1>1, RegisterInv
<1>2. ASSUME NEW b \in Browser, NEW q \in Requests, NEW origin \in Origin,
             NEW login \in User \cup {Nobody},
             \/ \E d \in {"none", "allow", "deny"} : ShowForm(b, q, origin, login, d)
             \/ \E f \in forms : Allow(b, q, origin, f, login)
             \/ Skip(b, q, origin, login)
      PROVE  FlowInv'
  BY <1>2, ShowFormInv, AllowInv, SkipInv
<1>3. CASE \/ \E b \in Browser : SignOut(b)
           \/ \E f \in forms : Close(f)
           \/ \E k \in consents : Forget(k)
           \/ Tick
  BY <1>3, BrowserInv
<1>4. ASSUME NEW origin \in Origin, NEW want \in Narrowings,
             \/ \E c \in Code, t \in Token : Exchange(c, t, origin, want)
             \/ \E t \in Token, scope \in SUBSET Scope : Refresh(t, origin, want, scope)
      PROVE  FlowInv'
  BY <1>4, ExchangeInv, RefreshInv
<1>5. CASE Lapse
  BY <1>5, LapseInv
<1>6. CASE UNCHANGED vars
  <2>1. FlowTypeOK'
    BY <1>6 DEF FlowInv, FlowTypeOK, vars
  <2> QED BY <1>6, <2>1, QuietInv DEF vars
<1> QED BY <1>1, <1>2, <1>3, <1>4, <1>5, <1>6 DEF Next

LEMMA Inductive == Spec => []FlowInv
BY InitInv, StepInv, PTL DEF Spec
-----------------------------------------------------------------------------
(* What the invariant says of a bearer token at a path. *)

LEMMA InvAccess == FlowInv => AccessWasSeen
<1> SUFFICES ASSUME FlowInv, NEW t \in Token, NEW origin \in Origin,
                    NEW place \in Container \cup {NoContainer}, NEW below \in Below,
                    tokens[t] # None, Accepted(t, origin, place, below)
             PROVE  LET seen == tokens[t].seen
                    IN  /\ seen.user = tokens[t].grant.user
                        /\ seen.client = tokens[t].grant.client
                        /\ DefaultScope \in seen.scope /\ tokens[t].grant.scope \subseteq seen.scope
                        /\ place # NoContainer =>
                             /\ Required(Issuer(pinned, origin, place), mcp, place \o below)
                                  \in seen.resources
                             /\ pinned = Unpinned => clients[seen.client].container = place
  BY DEF AccessWasSeen
<1>1. TokenWasSeen(tokens[t])
  BY DEF FlowInv, TokensWereSeen
<1>2. DefaultScope \in tokens[t].grant.scope
  BY DEF Accepted
<1>3. ASSUME place # NoContainer
      PROVE  /\ Required(Issuer(pinned, origin, place), mcp, place \o below)
                  \in tokens[t].grant.resources
             /\ pinned = Unpinned => clients[tokens[t].grant.client].container = place
  <2>1. /\ tokens[t].iss = Issuer(pinned, origin, place)
        /\ Required(Issuer(pinned, origin, place), mcp, place \o below)
             \in tokens[t].grant.resources
    BY <1>3 DEF Accepted
  <2>2. PICK o \in Origin :
          tokens[t].iss = Issuer(pinned, o, clients[tokens[t].grant.client].container)
    BY <1>1 DEF TokenWasSeen
  <2> QED BY <2>1, <2>2 DEF Issuer
<1> QED BY <1>1, <1>2, <1>3 DEF TokenWasSeen

\* Only an allowed form brings a consent: the step of ApprovalIsFresh.
LEMMA FreshStep ==
  ASSUME FlowInv, [Next]_vars
  PROVE  \A k \in consents' \ consents : \E f \in forms, c \in Code :
           /\ Key(f.view) = k.key /\ f.age <= Ttl
           /\ \E b \in Browser : session[b] = f.view.user
           /\ codes[c] = None /\ codes'[c] # None /\ codes'[c].view = f.view
<1> SUFFICES ASSUME NEW k \in consents' \ consents
             PROVE  \E f \in forms, c \in Code :
                      /\ Key(f.view) = k.key /\ f.age <= Ttl
                      /\ \E b \in Browser : session[b] = f.view.user
                      /\ codes[c] = None /\ codes'[c] # None /\ codes'[c].view = f.view
  OBVIOUS
<1>1. PICK b \in Browser, q \in Requests, origin \in Origin, login \in User \cup {Nobody},
           f \in forms : Allow(b, q, origin, f, login)
  <2>1. ~UNCHANGED consents
    OBVIOUS
  <2>2. ~UNCHANGED vars
    BY <2>1 DEF vars
  <2>3. ~ \E x \in consents : Forget(x)
    BY DEF Forget
  <2>4. ~ \E cl \in Client, m \in Registrations, container \in Container :
            Register(cl, m, container)
    BY <2>1 DEF Register
  <2>5. \A x \in Browser, q \in Requests, origin \in Origin, login \in User \cup {Nobody} :
          /\ ~ \E d \in {"none", "allow", "deny"} : ShowForm(x, q, origin, login, d)
          /\ ~ Skip(x, q, origin, login)
    BY <2>1 DEF ShowForm, Skip
  <2>6. ~ \E x \in Browser : SignOut(x)
    BY <2>1 DEF SignOut
  <2>7. (~ \E x \in forms : Close(x)) /\ ~Tick
    BY <2>1 DEF Close, Tick
  <2>8. \A origin \in Origin, want \in Narrowings :
          /\ ~ \E c \in Code, t \in Token : Exchange(c, t, origin, want)
          /\ ~ \E t \in Token, scope \in SUBSET Scope : Refresh(t, origin, want, scope)
    BY <2>1, Zenon DEF Exchange, Refresh
  <2>9. ~Lapse
    BY <2>1 DEF Lapse
  <2> QED BY <2>2, <2>3, <2>4, <2>5, <2>6, <2>7, <2>8, <2>9 DEF Next
<1> DEFINE u == UserOf(b, login)
           v == Asked(q, origin, u)
<1>2. /\ u # Nobody /\ f.view = v /\ f.age <= Ttl
      /\ Decision(b, "allow") = "allow"
      /\ consents' = consents \cup {[key |-> Key(v), seen |-> Key(f.view)]}
      /\ IssueCode(v, Key(f.view))
      /\ clients[q.client] # None
  BY <1>1 DEF Allow, CsrfValid, Passes
<1>3. session[b] = f.view.user
  BY <1>2 DEF Decision, UserOf, Asked
<1>4. v \in View
  BY <1>2, UserOfTyped, AskedIsView DEF FlowInv
<1> HIDE DEF u, v
<1>5. PICK c \in Code :
        codes[c] = None /\ codes' = [codes EXCEPT ![c] = [view |-> v, seen |-> Key(f.view)]]
  BY <1>2 DEF IssueCode
<1>6. [view |-> v, seen |-> Key(f.view)] \in CodeRow
  BY <1>2, <1>4, KeyOfView DEF CodeRow
<1>7. codes'[c] = [view |-> v, seen |-> Key(f.view)]
  BY <1>5 DEF FlowInv, FlowTypeOK
<1>8. codes'[c] # None /\ codes'[c].view = f.view
  BY <1>2, <1>6, <1>7, FlowConstants
<1>9. Key(f.view) = k.key
  BY <1>2
<1> QED BY <1>2, <1>3, <1>5, <1>8, <1>9
-----------------------------------------------------------------------------
(* What the invariant says of the three phases of a resource indicator. *)

LEMMA Prefixed ==
  ASSUME NEW container \in Seq(STRING), Len(container) = 2, NEW below \in Seq(STRING),
         IsMcp(below)
  PROVE  /\ IsMcp(container \o below)
         /\ StartsWith(container \o below, container)
         /\ container \o below # container
         /\ Len(container \o below) >= 2
         /\ ContainerOf(container \o below) = container
<1> DEFINE path == container \o below
<1>1. /\ path \in Seq(STRING) /\ Len(path) = 2 + Len(below)
      /\ \A i \in 1 .. 2 : path[i] = container[i]
      /\ \A i \in 1 .. Len(below) : path[2 + i] = below[i]
  <2>1. /\ path \in Seq(STRING) /\ Len(path) = Len(container) + Len(below)
        /\ \A i \in 1 .. Len(container) + Len(below) :
             path[i] = IF i <= Len(container) THEN container[i] ELSE below[i - Len(container)]
    BY ConcatProperties
  <2> HIDE DEF path
  <2> QED BY <2>1
<1>2. /\ Len(below) >= 2 /\ Len(below) \in Nat
      /\ below[Len(below) - 1] = "@mcp" /\ below[Len(below)] = "protocol"
  BY DEF IsMcp
<1> HIDE DEF path
<1>3. IsMcp(path)
  <2>1. /\ path[2 + (Len(below) - 1)] = below[Len(below) - 1]
        /\ path[2 + Len(below)] = below[Len(below)]
    BY <1>1, <1>2
  <2>2. Len(path) - 1 = 2 + (Len(below) - 1) /\ Len(path) >= 2
    BY <1>1, <1>2
  <2> QED BY <1>1, <1>2, <2>1, <2>2 DEF IsMcp
<1>4. StartsWith(path, container) /\ path # container /\ Len(path) >= 2
  BY <1>1, <1>2 DEF StartsWith
<1>5. ContainerOf(path) = container
  <2>1. SubSeq(path, 1, 2) \in Seq(STRING) /\ Len(SubSeq(path, 1, 2)) = 2
    BY <1>1, <1>2
  <2>2. \A i \in 1 .. 2 : SubSeq(path, 1, 2)[i] = container[i]
    BY <1>1, <1>2
  <2> QED BY <2>1, <2>2 DEF ContainerOf
<1> QED BY <1>3, <1>4, <1>5 DEF path

LEMMA InvPhases == FlowInv => PhasesAgree
<1> SUFFICES ASSUME FlowInv, NEW origin \in Origin, NEW container \in Container,
                    NEW below \in Below, mcp, IsMcp(below),
                    Issuer(pinned, origin, container).path = container
             PROVE  LET iss      == Issuer(pinned, origin, container)
                        required == Required(iss, mcp, container \o below)
                    IN  /\ Metadata(pinned, mcp, Container, WellKnown(required)) = {required}
                        /\ Accepts(iss, mcp, {required})
  BY DEF PhasesAgree
<1> DEFINE iss  == Issuer(pinned, origin, container)
           path == container \o below
           url  == [origin |-> iss.origin, path |-> path]
<1>1. /\ IsMcp(path) /\ StartsWith(path, container) /\ path # container
      /\ Len(path) >= 2 /\ ContainerOf(path) = container
  BY PathConstants, Prefixed
<1>2. iss = [origin |-> iss.origin, path |-> container]
  BY PathConstants DEF Issuer, FlowInv, FlowTypeOK
<1>3. Issuer(pinned, iss.origin, container) = iss
  BY <1>2 DEF Issuer
<1> HIDE DEF iss, path
<1>4. [iss EXCEPT !.path = path] = url
  BY <1>2
<1>5. McpUrlFromPath(iss, path) = {url}
  BY <1>1, <1>2, <1>4 DEF McpUrlFromPath
<1>6. Required(iss, mcp, path) = url
  BY <1>1, <1>4, <1>5 DEF Required, McpIndicator
<1>7. WellKnown(url) = [origin |-> iss.origin, about |-> path]
  BY DEF WellKnown
<1>8. Metadata(pinned, mcp, Container, WellKnown(url)) = {url}
  BY <1>1, <1>3, <1>5, <1>7 DEF Metadata, Serves, McpProvider
<1>9. McpUrlFromValue(iss, url) = {url}
  BY <1>5 DEF McpUrlFromValue
<1>10. Accepts(iss, mcp, {url})
  BY <1>9 DEF Accepts, Allowed, McpAllowed
<1> QED BY <1>6, <1>8, <1>10 DEF iss, path

-----------------------------------------------------------------------------
\* Every row, form and token holds what the code stores in it.
THEOREM FlowTypeCorrect == Spec => []FlowTypeOK
BY Inductive, PTL DEF FlowInv

\* A code stands for what its user saw, whoever's tab, request or consent it came from.
THEOREM CodesSeen == Spec => []CodesWereSeen
BY Inductive, PTL DEF FlowInv

\* A code goes to a redirect URI of the client it is for, and over a network only by TLS.
THEOREM CodesReach == Spec => []CodesReachTheClient
BY Inductive, PTL DEF FlowInv

\* A client that was registered has a scope to ask for, a response type and a grant type.
THEOREM ClientsServed == Spec => []RegisteredClientsServed
BY Inductive, PTL DEF FlowInv

\* Consent is given on a form of the signed-in user that is not too old, and comes with
\* the code.
THEOREM ApprovalFresh == Spec => ApprovalIsFresh
<1>1. FlowInv /\ [Next]_vars =>
        [\A k \in consents' \ consents : \E f \in forms, c \in Code :
           /\ Key(f.view) = k.key /\ f.age <= Ttl
           /\ \E b \in Browser : session[b] = f.view.user
           /\ codes[c] = None /\ codes'[c] # None /\ codes'[c].view = f.view]_vars
  BY FreshStep
<1> QED BY <1>1, Inductive, PTL DEF Spec, ApprovalIsFresh

\* A bearer token opens only what its user saw, whatever narrowed it on the way: in a
\* container the very resource, outside of containers no more than user, client and scope.
THEOREM AccessSeen == Spec => []AccessWasSeen
BY Inductive, InvAccess, PTL

\* The resource a protected MCP path requires can be discovered and asked for.
THEOREM Phases == Spec => []PhasesAgree
BY Inductive, InvPhases, PTL
=============================================================================
