-------------------------- MODULE AuthorizationFlow --------------------------
(***************************************************************************)
(* From a client's registration to an accepted bearer token, as the people *)
(* involved see it: browsers whose user changes, consent forms that stay   *)
(* open, clients that ask for several resources of several containers, and *)
(* the token they end up with at a protected path.                         *)
(*                                                                         *)
(* A request is one step here and every instance of the server is alike;   *)
(* what happens between the statements of a handler is OAuthGrants.        *)
(***************************************************************************)
EXTENDS ClientMetadata, ResourceIndicators

CONSTANTS User, Browser, Client, Code, Token,
          Container,        \* paths of the containers with the addon
          NoContainer,      \* the paths / and /db are in none
          Global,           \* users that find_user finds there as well
          Origin,           \* what clients reach the server under
          Below,            \* paths below a container
          Url,              \* resources clients ask for
          Pin,              \* the settings of oauth.issuer to consider
          Registrations,    \* metadata clients try to register with
          Requests,         \* authorization requests: client, redirect, scope, resources
          Narrowings,       \* sets of resources asked for at the token endpoint
          Ttl,              \* authorize_csrf_ttl
          MaxForms,         \* bound on the consent forms open at one time
          MaxConsents,      \* bound on the consents remembered at one time
          Nobody, None

VARIABLES pinned,     \* oauth.issuer
          mcp,        \* guillotina.contrib.mcp is an application
          clients,    \* [Client -> its row or None]
          session,    \* [Browser -> the user of its auth_token cookie, or Nobody]
          forms,      \* the consent forms open in browsers, with their csrf tokens' age
          consents,   \* remembered consents
          codes,      \* [Code -> row or None]
          tokens      \* [Token -> a client's newest tokens of one grant, or None]

vars == <<pinned, mcp, clients, session, forms, consents, codes, tokens>>
settings == <<pinned, mcp>>

\* What a consent form shows, and what is approved by allowing it.
View == [user : User, client : Client, redirect : Uri, scope : SUBSET Scope,
         resources : SUBSET Url]

\* The tuple that build_consent_key joins.
Key(v) == [user |-> v.user, client |-> v.client, scope |-> v.scope, resources |-> v.resources]
Keys   == [user : User, client : Client, scope : SUBSET Scope, resources : SUBSET Url]

ClientRow == [container : Container, redirects : SUBSET Uri, grants : SUBSET GrantType,
              responses : SUBSET {"code"}, scope : SUBSET Scope]
CodeRow   == [view : View, seen : Keys]
BearerRow == [iss : Url, grant : Keys, seen : Keys]

ASSUME FlowConstants ==
  /\ {Ttl, MaxForms, MaxConsents} \subseteq Nat
  /\ Nobody \notin User /\ None \notin CodeRow
  /\ NoContainer \notin Container /\ Global \subseteq User
  /\ Registrations \subseteq [redirects : SUBSET Uri, grants : SUBSET GrantType,
                            responses : SUBSET {"code"}, scope : SUBSET Scope]
  /\ Requests \subseteq [client : Client, redirect : Uri, scope : SUBSET Scope,
                       resources : (SUBSET Url) \cup {Unasked}]
  /\ Narrowings \subseteq SUBSET Url
  /\ \A pin \in Pin, origin \in Origin, container \in Container :
       Issuer(pin, origin, container) \in Url

\* An issuer is a URL, and a container is addressed by its database and its name.
ASSUME PathConstants ==
  /\ \A pin \in Pin \ {Unpinned} : pin = [origin |-> pin.origin, path |-> pin.path]
  /\ Container \cup Below \subseteq Seq(STRING)
  /\ \A container \in Container : Len(container) = 2

Init ==
  /\ pinned \in Pin /\ mcp \in BOOLEAN
  /\ clients = [cl \in Client |-> None]
  /\ session = [b \in Browser |-> Nobody]
  /\ forms = {} /\ consents = {}
  /\ codes = [c \in Code |-> None] /\ tokens = [t \in Token |-> None]

-----------------------------------------------------------------------------
(* register.py *)

Register(cl, m, container) ==
  /\ clients[cl] = None
  /\ Registrable(m)
  /\ clients' = [clients EXCEPT ![cl] =
       [container |-> container, redirects |-> m.redirects, grants |-> m.grants,
        responses |-> m.responses, scope |-> m.scope]]
  /\ UNCHANGED <<settings, session, forms, consents, codes, tokens>>

-----------------------------------------------------------------------------
(* authorize.py *)

\* A request that is not answered with an error.  A client is looked up in the
\* container of the request.
Passes(q, origin) ==
  LET row == clients[q.client]
  IN  /\ row # None
      /\ RedirectRegistered(row, q.redirect)
      /\ "code" \in row.responses
      /\ ScopesValid(row, q.scope)
      /\ Accepts(Issuer(pinned, origin, row.container), mcp, q.resources)

\* What the request asks user u for.
Asked(q, origin, u) ==
  [user |-> u, client |-> q.client, redirect |-> q.redirect, scope |-> q.scope,
   resources |-> Granted(Issuer(pinned, origin, clients[q.client].container), q.resources)]

Remembered(v) == {k \in consents : k.key = Key(v)}

\* The user of the request: the browser's, or, on a POST with credentials that verify,
\* the one who logs in now.
UserOf(b, login) == IF session[b] # Nobody THEN session[b] ELSE login

\* Faulty: the form of another user is as good.
CsrfValidForAnyUser(f, v) == [f.view EXCEPT !.user = v.user] = v /\ f.age <= Ttl

\* Faulty: the time of issue is not compared.
CsrfValidForever(f, v) == f.view = v

\* csrf_valid: the fields of the request, the user and the resolved resources are those
\* the form was rendered for.  (redirect stands for the other parameters bound likewise.)
CsrfValid(f, v) == f.view = v /\ f.age <= Ttl

DecisionAlways(b, d) == d   \* faulty: also on the request that logs in

\* The decision of the form posted; the request that logs in carries none.
Decision(b, d) == IF session[b] = Nobody THEN "none" ELSE d

IssueCode(v, seen) ==
  \E c \in Code : codes[c] = None /\ codes' = [codes EXCEPT ![c] = [view |-> v, seen |-> seen]]

SignedIn(b, u) == session' = [session EXCEPT ![b] = u]

\* The consent form is shown: nothing is remembered and no decision is made.
ShowForm(b, q, origin, login, d) ==
  LET u == UserOf(b, login)
      v == Asked(q, origin, u)
  IN  /\ u # Nobody /\ Decision(b, d) = "none" /\ Cardinality(forms) < MaxForms
      /\ Passes(q, origin) /\ Remembered(v) = {}
      /\ forms' = forms \cup {[view |-> v, age |-> 0]}
      /\ SignedIn(b, u)
      /\ UNCHANGED <<settings, clients, consents, codes, tokens>>

\* A form is posted with "allow".  A request with parameters other than the form's is
\* an attempt all the same.
Allow(b, q, origin, f, login) ==
  LET u == UserOf(b, login)
      v == Asked(q, origin, u)
  IN  /\ u # Nobody /\ Decision(b, "allow") = "allow" /\ Cardinality(consents) < MaxConsents
      /\ Passes(q, origin) /\ CsrfValid(f, v) /\ Remembered(v) = {}
      /\ consents' = consents \cup {[key |-> Key(v), seen |-> Key(f.view)]}
      /\ IssueCode(v, Key(f.view))
      /\ SignedIn(b, u)
      /\ UNCHANGED <<settings, clients, forms, tokens>>

\* The consent is remembered: a code without a question, whatever the decision says, as
\* long as a decision comes with a valid csrf token.
Skip(b, q, origin, login) ==
  LET u == UserOf(b, login)
      v == Asked(q, origin, u)
  IN  /\ u # Nobody /\ Passes(q, origin)
      /\ \E k \in Remembered(v) : IssueCode(v, k.seen)
      /\ SignedIn(b, u)
      /\ UNCHANGED <<settings, clients, forms, consents, tokens>>

\* A session ends; another user may sign in.
SignOut(b) ==
  /\ session[b] # Nobody
  /\ SignedIn(b, Nobody)
  /\ UNCHANGED <<settings, clients, forms, consents, codes, tokens>>

Close(f) ==
  /\ forms' = forms \ {f}
  /\ UNCHANGED <<settings, clients, session, consents, codes, tokens>>

\* Time passes for the forms that are open.
Tick ==
  /\ \E f \in forms : f.age <= Ttl
  /\ forms' = {[f EXCEPT !.age = IF @ <= Ttl THEN @ + 1 ELSE @] : f \in forms}
  /\ UNCHANGED <<settings, clients, session, consents, codes, tokens>>

\* A consent is withdrawn, revoked or expires.
Forget(k) ==
  /\ consents' = consents \ {k}
  /\ UNCHANGED <<settings, clients, session, forms, codes, tokens>>

-----------------------------------------------------------------------------
(* token.py: the tokens of a grant, by exchange and rotation, with the issuer *)
(* of the request that asks for them.                                         *)

\* issue_access_token: aud is the resources of the grant.
Bearer(container, origin, grant, seen) ==
  [iss |-> Issuer(pinned, origin, container), grant |-> grant, seen |-> seen]


Within(asked, approved) == asked \subseteq approved

OrAll(asked, approved) == IF asked = {} THEN approved ELSE asked

Exchange(c, t, origin, want) ==
  /\ codes[c] # None /\ tokens[t] = None
  /\ LET g   == Key(codes[c].view)
         row == clients[g.client]
     IN  /\ "authorization_code" \in row.grants
         /\ Within(want, g.resources)
         /\ tokens' = [tokens EXCEPT ![t] =
              Bearer(row.container, origin, [g EXCEPT !.resources = OrAll(want, @)], codes[c].seen)]
  /\ codes' = [codes EXCEPT ![c] = None]
  /\ UNCHANGED <<settings, clients, session, forms, consents>>

Refresh(t, origin, want, scope) ==
  /\ tokens[t] # None
  /\ LET g   == tokens[t].grant
         row == clients[g.client]
     IN  /\ "refresh_token" \in row.grants
         /\ Within(want, g.resources) /\ Within(scope, g.scope)
         /\ tokens' = [tokens EXCEPT ![t] =
              Bearer(row.container, origin, [g EXCEPT !.resources = OrAll(want, @),
                                                      !.scope = OrAll(scope, @)], tokens[t].seen)]
  /\ UNCHANGED <<settings, clients, session, forms, consents, codes>>

\* A code or the tokens of a grant expire or are given up.
Lapse ==
  /\ \/ \E c \in Code : codes' = [codes EXCEPT ![c] = None] /\ UNCHANGED tokens
     \/ \E t \in Token : tokens' = [tokens EXCEPT ![t] = None] /\ UNCHANGED codes
  /\ UNCHANGED <<settings, clients, session, forms, consents>>

-----------------------------------------------------------------------------
(* auth/validators.py *)

\* Faulty: the audience is not looked at.
AcceptedByIssuer(t, origin, place, below) ==
  /\ place # NoContainer => tokens[t].iss = Issuer(pinned, origin, place)
  /\ place = NoContainer => tokens[t].grant.user \in Global
  /\ DefaultScope \in tokens[t].grant.scope

\* OAuthJWTValidator.validate, for an unexpired token of this server at a path below a
\* container, or in none: there neither issuer nor audience is looked at.
Accepted(t, origin, place, below) ==
  /\ place # NoContainer =>
       LET iss == Issuer(pinned, origin, place)
       IN  tokens[t].iss = iss /\ Required(iss, mcp, place \o below) \in tokens[t].grant.resources
  /\ place = NoContainer => tokens[t].grant.user \in Global
  /\ DefaultScope \in tokens[t].grant.scope

-----------------------------------------------------------------------------
Next ==
  \/ \E cl \in Client, m \in Registrations, container \in Container : Register(cl, m, container)
  \/ \E b \in Browser, q \in Requests, origin \in Origin, login \in User \cup {Nobody} :
       \/ \E d \in {"none", "allow", "deny"} : ShowForm(b, q, origin, login, d)
       \/ \E f \in forms : Allow(b, q, origin, f, login)
       \/ Skip(b, q, origin, login)
  \/ \E b \in Browser : SignOut(b)
  \/ \E f \in forms : Close(f)
  \/ \E k \in consents : Forget(k)
  \/ \E origin \in Origin, want \in Narrowings :
       \/ \E c \in Code, t \in Token : Exchange(c, t, origin, want)
       \/ \E t \in Token, scope \in SUBSET Scope : Refresh(t, origin, want, scope)
  \/ Lapse
  \/ Tick

Spec == Init /\ [][Next]_vars

-----------------------------------------------------------------------------
\* Every variable holds what the code stores in it.
FlowTypeOK ==
  /\ pinned \in Pin /\ mcp \in BOOLEAN
  /\ clients \in [Client -> ClientRow \cup {None}]
  /\ session \in [Browser -> User \cup {Nobody}]
  /\ forms \subseteq [view : View, age : 0 .. Ttl + 1]
  /\ consents \subseteq [key : Keys, seen : Keys]
  /\ codes \in [Code -> CodeRow \cup {None}]
  /\ tokens \in [Token -> BearerRow \cup {None}]

\* A code stands for what its user saw: the form that was allowed, now or when the consent
\* was given, showed this user, client and scope and these resources, although tabs stay
\* open while users, requests and forms change (csrf_valid, build_consent_key).
CodesWereSeen == \A c \in Code : codes[c] # None => codes[c].seen = Key(codes[c].view)

\* Consent is given on a form not older than its ttl, from a browser that was signed in
\* as the form's user before the request, and the code that comes with it goes where the
\* form said (authorize.py: a login carries no decision).
ApprovalIsFresh ==
  [][\A k \in consents' \ consents : \E f \in forms, c \in Code :
       /\ Key(f.view) = k.key /\ f.age <= Ttl
       /\ \E b \in Browser : session[b] = f.view.user
       /\ codes[c] = None /\ codes'[c] # None /\ codes'[c].view = f.view]_vars

\* The target is registered: literally, or on this machine with the same host name, path and
\* query.  (A star in neither path nor query is in a part that is not compared.)
Registered(row, u) ==
  \/ u \in row.redirects
  \/ \E v \in row.redirects :
       /\ v.scheme = "http" /\ v.host \in LoopbackHosts
       /\ [v EXCEPT !.userinfo = u.userinfo, !.port = u.port, !.params = u.params,
                    !.fragment = u.fragment, !.wildcard = u.wildcard] = u

\* A code goes to a redirect URI of the client it is for, up to the user, port, params and
\* fragment of one on this machine, and over a network only by TLS
\* (redirect_uri_registered_for_client, validate_redirect_uri).
CodesReachTheClient ==
  \A c \in Code : codes[c] # None =>
    LET u == codes[c].view.redirect
    IN  /\ Registered(clients[codes[c].view.client], u)
        /\ u.scheme = "http" => u.host \in LoopbackHosts
        /\ u.scheme # "script"

\* A client that was registered is never a dead end: the scope, response type and grant
\* type that authorize.py and token.py ask of it are there.
RegisteredClientsServed ==
  \A cl \in Client : clients[cl] # None =>
    /\ \E scope \in SUBSET Scope : ScopesValid(clients[cl], scope)
    /\ "code" \in clients[cl].responses /\ "authorization_code" \in clients[cl].grants

\* A bearer token opens only what its user saw: it speaks for the user and client of the
\* form that was allowed and for no wider scope, after any narrowing by exchange and
\* rotation.  In a container the resource that the path requires was on that form, and
\* without a pinned issuer it is the container of the approval.  (Outside of containers
\* the resources on the form limit nothing.)
AccessWasSeen ==
  \A t \in Token, origin \in Origin, place \in Container \cup {NoContainer}, below \in Below :
    tokens[t] # None /\ Accepted(t, origin, place, below) =>
      LET seen == tokens[t].seen
      IN  /\ seen.user = tokens[t].grant.user /\ seen.client = tokens[t].grant.client
          /\ DefaultScope \in seen.scope /\ tokens[t].grant.scope \subseteq seen.scope
          /\ place # NoContainer =>
               /\ Required(Issuer(pinned, origin, place), mcp, place \o below) \in seen.resources
               /\ pinned = Unpinned => clients[seen.client].container = place

\* The three phases agree: the resource a protected MCP path requires is described by the
\* document its challenge names, and may be asked for in a grant of its container.
\* (With an issuer pinned to another URL the document is looked up elsewhere.)
PhasesAgree ==
  \A origin \in Origin, container \in Container, below \in Below :
    LET iss      == Issuer(pinned, origin, container)
        required == Required(iss, mcp, container \o below)
    IN  mcp /\ IsMcp(below) /\ iss.path = container =>
          /\ Metadata(pinned, mcp, Container, WellKnown(required)) = {required}
          /\ Accepts(iss, mcp, {required})
=============================================================================
