--------------------------- MODULE ClientMetadata ---------------------------
(***************************************************************************)
(* flow/clients.py: which registrations are accepted and which redirect    *)
(* URIs and scopes a registered client may use.  A redirect URI is a       *)
(* record of its parts; a scheme is one of the classes the code tells      *)
(* apart, and a path is rooted when it starts with a slash.                *)
(***************************************************************************)
EXTENDS FiniteSets

CONSTANTS Uri,            \* redirect URIs, parsed
          Scope,          \* the scopes clients ask for
          DefaultScope,   \* OAUTH_DEFAULT_SCOPE
          Supported       \* oauth_scopes_supported()

\* "script": javascript and data; "dotted" and "word": private-use schemes with a dot,
\* and of letters only; "other" has neither.  params follow a semicolon in the last segment
\* of the path.  A wildcard is a star anywhere in the URI.
UriParts == [scheme : {"https", "http", "script", "dotted", "word", "other"},
             userinfo : {"", "u"}, host : {"localhost", "127.0.0.1", "::1", "host", ""},
             port : {"p1", "p2"}, path : {"/cb", "/other", "bare"}, params : {"", "x"},
             query : {"", "q"}, fragment : BOOLEAN, wildcard : BOOLEAN]

LoopbackHosts == {"localhost", "127.0.0.1", "::1"}

ASSUME MetadataConstants ==
  /\ Uri \subseteq UriParts
  /\ DefaultScope \in Scope /\ Supported \subseteq Scope

Rooted(u) == u.path # "bare"
Netloc(u) == u.host # "" \/ u.userinfo # ""

\* _is_loopback_http_redirect
LoopbackHttp(u) == u.scheme = "http" /\ u.host \in LoopbackHosts /\ Rooted(u)

\* _is_private_use_redirect
PrivateUse(u) ==
  /\ u.scheme \in {"dotted", "word", "other"} /\ Rooted(u)
  /\ u.scheme = "dotted" \/ (u.scheme = "word" /\ Netloc(u))

\* validate_redirect_uri
RedirectValid(u) ==
  /\ ~u.wildcard /\ ~u.fragment
  /\ \/ u.scheme = "https" /\ Netloc(u) /\ Rooted(u)
     \/ LoopbackHttp(u)
     \/ PrivateUse(u)

\* Faulty: the path of a loopback URI is not compared.
RedirectRegisteredAnyPath(row, u) ==
  \/ u \in row.redirects
  \/ LoopbackHttp(u) /\ \E v \in row.redirects :
       LoopbackHttp(v) /\ u.host = v.host /\ u.query = v.query

\* redirect_uri_registered_for_client: of a loopback URI the user, the port, the params
\* and the fragment are not compared.
RedirectRegistered(row, u) ==
  \/ u \in row.redirects
  \/ LoopbackHttp(u) /\ \E v \in row.redirects :
       LoopbackHttp(v) /\ u.host = v.host /\ u.path = v.path /\ u.query = v.query

-----------------------------------------------------------------------------
GrantType == {"authorization_code", "refresh_token"}

\* Faulty: a client may register for refresh tokens without the code they come from.
GrantsMatchOneWay(m) == "authorization_code" \in m.grants => "code" \in m.responses

GrantsMatch(m) == "authorization_code" \in m.grants <=> "code" \in m.responses

\* build_client_from_registration: the checks, on metadata with its defaults filled in.
Registrable(m) ==
  /\ m.redirects # {} /\ \A u \in m.redirects : RedirectValid(u)
  /\ m.grants # {} /\ m.grants \subseteq GrantType
  /\ m.responses # {} /\ m.responses \subseteq {"code"}
  /\ GrantsMatch(m)
  /\ DefaultScope \in m.scope /\ m.scope \subseteq Supported

\* scopes_registered_for_client
ScopesRegistered(row, scope) == scope \subseteq row.scope

\* The scope checks of _validate_authorization_request.
ScopesValid(row, scope) ==
  DefaultScope \in scope /\ scope \subseteq Supported /\ ScopesRegistered(row, scope)
=============================================================================
