------------------------- MODULE ResourceIndicators -------------------------
(***************************************************************************)
(* Resource indicators (RFC 8707) in the three phases of the protocol: what *)
(* discovery names, what a grant may ask for and what a protected path      *)
(* requires of a token (utils/urls.py, indicators/, discovery/ and          *)
(* integrations/mcp/).                                                      *)
(*                                                                         *)
(* A URL is an origin (scheme and authority) and the segments of its path; *)
(* the code strips and compares paths at the slashes between them.         *)
(***************************************************************************)
EXTENDS Sequences, Naturals

CONSTANTS Unpinned,   \* oauth.issuer is null
          Unasked     \* the request has no resource parameter, or an empty one

Mcp == <<"@mcp", "protocol">>

UnderPath(url, segments) == [url EXCEPT !.path = @ \o segments]

StartsWith(path, prefix) ==
  Len(prefix) <= Len(path) /\ \A i \in 1 .. Len(prefix) : path[i] = prefix[i]

IsMcp(path) ==
  /\ Len(path) >= 2
  /\ path[Len(path) - 1] = "@mcp" /\ path[Len(path)] = "protocol"

-----------------------------------------------------------------------------
\* container_issuer_url: the configured issuer, or the origin of the request and the
\* path of the container.
Issuer(pinned, origin, container) ==
  IF pinned # Unpinned THEN pinned ELSE [origin |-> origin, path |-> container]

\* _mcp_resource_url_from_path: the URL, or none.
McpUrlFromPath(iss, path) ==
  IF IsMcp(path) /\ StartsWith(path, iss.path) /\ path # iss.path
    THEN {[iss EXCEPT !.path = path]} ELSE {}

\* _mcp_resource_url_from_value
McpUrlFromValue(iss, url) ==
  IF url.origin = iss.origin THEN McpUrlFromPath(iss, url.path) ELSE {}

\* mcp_resource_indicator, for the path of a request.
McpIndicator(iss, path) ==
  IF McpUrlFromPath(iss, path) # {} THEN [iss EXCEPT !.path = path] ELSE UnderPath(iss, Mcp)

-----------------------------------------------------------------------------
(* Grant phase: the resolvers of includeme, and of the MCP integration.    *)

\* _mcp_protocol_resource_resolver
McpAllowed(iss, asked) == {UnderPath(iss, Mcp)} \cup UNION {McpUrlFromValue(iss, u) : u \in asked}

\* allowed_resource_indicators
Allowed(iss, mcp, asked) == {iss} \cup (IF mcp THEN McpAllowed(iss, asked) ELSE {})

\* Faulty: the path of the container is left out.
GrantedOfOrigin(iss, asked) == IF asked = Unasked THEN {[iss EXCEPT !.path = <<>>]} ELSE asked

\* validate_resource_indicator: no resource asks for the container's own.  A parameter of
\* blanks is one, and names no resource: the grant has none.
Accepts(iss, mcp, asked) == asked # Unasked => asked \subseteq Allowed(iss, mcp, asked)
Granted(iss, asked)      == IF asked = Unasked THEN {iss} ELSE asked

-----------------------------------------------------------------------------
(* Access phase. *)

\* required_resource_indicator
Required(iss, mcp, path) == IF mcp /\ IsMcp(path) THEN McpIndicator(iss, path) ELSE iss

-----------------------------------------------------------------------------
(* Discovery phase. *)

\* well_known_protected_resource_url, named by the challenge of a 401: where the
\* document is and what it is about.
WellKnown(url) == [origin |-> url.origin, about |-> url.path]

ContainerOf(path) == SubSeq(path, 1, 2)

\* serve_well_known_metadata finds a container by the first two segments.
Serves(containers, path) == Len(path) >= 2 /\ ContainerOf(path) \in containers

\* Faulty: the resource is the one of the container, whatever path was asked for.
McpProviderOfContainer(iss, path) == {UnderPath(iss, Mcp)}

\* _mcp_protected_resource_provider
McpProvider(iss, path) == McpUrlFromPath(iss, path)

\* _protected_resource_metadata: only the MCP integration provides documents.
Metadata(pinned, mcp, containers, doc) ==
  IF mcp /\ Serves(containers, doc.about)
    THEN McpProvider(Issuer(pinned, doc.origin, ContainerOf(doc.about)), doc.about) ELSE {}
=============================================================================
