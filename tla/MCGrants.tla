------------------------------ MODULE MCGrants ------------------------------
(***************************************************************************)
(* Small instances of OAuthGrants for TLC.                                 *)
(***************************************************************************)
EXTENDS GrantRefinement, GrantInvariant, TLC

FullRegistration == [cl \in Client |-> [scope |-> Scope, types |-> GrantType]]

\* The requests for every resource, and those with a parameter of blanks as well.
WholeGrants  == {g \in Grant : g.resource = Resource}
WholeOrBlank  == {g \in Grant : g.resource \in {Resource, {}}}

TokenOps == {"authorize", "exchange", "rotate"}
ExpiryOps == TokenOps \cup {"cleanup"}
RevokeOps == TokenOps \cup {"revoke", "consents"}
LockOps   == {"authorize", "exchange", "revoke", "consents", "cleanup"}
AnswerOps == AllOps \ {"register", "cleanup"}
ServeOps  == AllOps \ {"uninstall", "cleanup"}

Symmetry == UNION {Permutations(S) : S \in {Req, Token, Code, Resource}}
=============================================================================
