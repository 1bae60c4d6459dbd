------------------------------ MODULE Overlap ------------------------------
(***************************************************************************)
(* What an endpoint's answer means while other requests run: the rows each *)
(* request could not have seen, because another committed them after it    *)
(* had read their table.                                                   *)
(***************************************************************************)
EXTENDS RequestWaits

VARIABLE meanwhile   \* ghost: [Req -> keys others committed since the request read them]

overlapVars == <<waitVars, meanwhile>>

\* The keys whose current rows a step of r reads or deletes.
Reread(r) ==
  CASE pc'[r] = "revoking" -> Token
    [] pc'[r] = "purge"    -> PurgePlan(job'[r].op)[job'[r].table]
    [] pc[r] = "forget"    -> {job[r].grant}
    [] OTHER -> {}

Observe ==
  meanwhile' = [r \in Req |->
    IF pc'[r] = "idle" THEN {}
    ELSE IF pc'[r] # pc[r] THEN meanwhile[r] \ Reread(r)
    ELSE meanwhile[r] \cup {k \in Key : committed'[k] # committed[k]}]

OverlapInit == WaitInit /\ meanwhile = [r \in Req |-> {}]

OverlapSpec == OverlapInit /\ [][WaitNext /\ Observe]_overlapVars

-----------------------------------------------------------------------------
\* Request r is answered in this step.
Replies(r, op) == Answered(r) /\ job[r].op = op

\* /oauth/revoke misses no token of the family but those another request committed after
\* the UPDATE took its snapshot (revoke_refresh_family beside rotate_refresh_token).
RevokeMissesOnlyNewer ==
  [][\A r \in Req : Replies(r, "revoke") /\ job[r].code # None =>
       \A t \in Token : Live(committed'[t]) /\ committed'[t].code = job[r].code =>
         t \in meanwhile[r]]_overlapVars

\* The withdrawal of a consent leaves the user no live token of the client but those
\* another request committed after the UPDATE took its snapshot
\* (revoke_user_client_refresh_tokens beside an exchange or a rotation).
WithdrawalMissesOnlyNewer ==
  [][\A r \in Req : Replies(r, "consents") /\ job[r].grant # None =>
       \A t \in Token : Live(committed'[t]) => \/ committed'[t].grant.user # job[r].grant.user
                                               \/ committed'[t].grant.client # job[r].grant.client
                                               \/ t \in meanwhile[r]]_overlapVars

\* An exchange that is denied because its code was used leaves no live token of the code
\* but those another request committed after this one had read the code, or after its
\* UPDATE took its snapshot (token.py: get_active_code, then consume_code or
\* revoke_refresh_tokens_by_auth_code).
ReplayMissesOnlyNewer ==
  [][\A r \in Req : Replies(r, "exchange") /\ job[r].key # None /\ job[r].new = None =>
       \A t \in Token : Live(committed'[t]) /\ committed'[t].code = job[r].key =>
         t \in meanwhile[r]]_overlapVars

\* /oauth/revoke with a token as wide as its grant forgets the consent the grant was
\* approved under, unless another request stored that consent again after the DELETE.
RevokeForgetsUnlessRenewed ==
  [][\A r \in Req :
       Replies(r, "revoke") /\ job[r].code # None /\ job[r].grant = origin[job[r].code] =>
         committed'[job[r].grant] = Absent \/ job[r].grant \in meanwhile[r]]_overlapVars

\* The uninstall leaves no row of the container but those another request committed after
\* the DELETE of their table took its snapshot (delete_container_data, table by table).
UninstallMissesOnlyNewer ==
  [][\A r \in Req : Replies(r, "uninstall") =>
       \A k \in Key : committed'[k] # Absent => k \in meanwhile[r]]_overlapVars
=============================================================================
