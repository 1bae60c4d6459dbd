---------------------------- MODULE OAuthGrants ----------------------------
(***************************************************************************)
(* The life of a grant: the endpoints that create, use, rotate, revoke and *)
(* forget authorization codes, refresh tokens and consents, run by         *)
(* concurrent requests over the OAuth store, with the expired-row cleanup  *)
(* and the addon's uninstall.                                              *)
(*                                                                         *)
(* A request is a slot of Req: idle, then at one statement of its handler  *)
(* after another.  Each SQL statement is a step of its own, so everything  *)
(* another request does between two awaits of a handler is in the model.   *)
(* A request may fail at any step (a crash, a cancelled client, a deadlock *)
(* victim); its transaction is then rolled back.                           *)
(***************************************************************************)
EXTENDS OAuthStore, Sequences

CONSTANTS DefaultScope,    \* OAUTH_DEFAULT_SCOPE
          Registration,    \* the row a client registers with
          Preregistered,   \* clients already registered
          Ops,             \* the operations the requests may run
          Requested,       \* the grants clients ask for
          BatchSize,       \* cleanup_batch_size
          MaxClock         \* bound on the clock

AllOps == {"register", "authorize", "exchange", "rotate", "revoke", "consents",
           "cleanup", "uninstall"}

\* A grant without a row is never equal to one: model values compare unequal.
ASSUME StoreConstants ==
  /\ None \notin Client \cup Code \cup Token \cup Grant
  /\ Absent \notin ClientRow \cup CodeRow \cup ConsentRow \cup TokenRow
  /\ Untouched \notin ClientRow \cup CodeRow \cup ConsentRow \cup TokenRow \cup {Absent}

ASSUME KeysDisjoint ==
  /\ Client \cap Code = {} /\ Client \cap Token = {} /\ Code \cap Token = {}
  /\ Grant \cap (Client \cup Code \cup Token) = {}
  /\ Req \cap (Code \cup Token) = {}

ASSUME Limits ==
  /\ AutoCommit \in BOOLEAN
  /\ {CodeTTL, RefreshTTL, ConsentTTL, MaxClock} \subseteq Nat
  /\ BatchSize \in Nat \ {0}
  /\ Ops \subseteq AllOps
  /\ Registration \in [Client -> ClientRow] /\ Preregistered \subseteq Client
  /\ Requested \subseteq Grant

VARIABLES pc,         \* [Req -> the statement the request is at]
          job,        \* [Req -> what its handler holds in local variables]
          generated,  \* random identifiers generated so far
          installed,  \* the addon is enabled in the container
          origin,     \* ghost: the grant each code was created for
          answers     \* ghost: the codes and tokens sent in responses

vars == <<committed, dirty, clock, pc, job, generated, installed, origin, answers>>

NoJob == [op |-> "none", since |-> 0, key |-> None, grant |-> None, code |-> None,
          new |-> None, hit |-> {}, decision |-> "none", table |-> 0]

\* now() is the start of the database transaction.
Now(r) == IF AutoCommit /\ job[r].op # "cleanup" THEN clock ELSE job[r].since

Delivered == {a.new : a \in answers}

Init ==
  /\ PgInit([k \in Key |-> IF k \in Preregistered THEN Registration[k] ELSE Absent])
  /\ clock = 0
  /\ pc = [r \in Req |-> "idle"]
  /\ job = [r \in Req |-> NoJob]
  /\ generated = Preregistered
  /\ installed \in BOOLEAN /\ (Preregistered # {} => installed)
  /\ origin = [c \in Code |-> None]
  /\ answers = {}

-----------------------------------------------------------------------------
(* Steps common to all requests. *)

Goto(r, label) == pc' = [pc EXCEPT ![r] = label]
Keep(r, j)     == job' = [job EXCEPT ![r] = j]

\* The parts of the state that only few steps change.
Rest == UNCHANGED <<clock, installed, origin, answers>>

\* generate_opaque_token: 48 random bytes never repeat.
FreshTokensRepeat == Token   \* faulty: they may
FreshTokens == Token \ generated
FreshCodes  == Code \ generated

Generate(x) == generated' = generated \cup {x}

\* The code or token in the request.  One the server never sent finds no row in any
\* statement and is left out.
Presented(op) == IF op = "exchange" THEN Code \cap Delivered
                 ELSE IF op \in {"rotate", "revoke"} THEN Token \cap Delivered
                 ELSE {None}

\* A request arrives and its transaction starts.
Begin(r, op) ==
  /\ pc[r] = "idle" /\ op \in Ops
  /\ installed \/ op = "cleanup"
  /\ Goto(r, IF op \in {"uninstall", "cleanup"} THEN "select" ELSE op)
  /\ \E key \in Presented(op) :
       Keep(r, [NoJob EXCEPT !.op = op, !.key = key,
                             !.since = IF AutoCommit /\ op # "cleanup" THEN 0 ELSE clock])
  /\ UNCHANGED <<committed, dirty, generated>> /\ Rest

\* An error response, or a page, that leaves nothing to do.
Refuse(r) == Goto(r, "reply") /\ Keep(r, [NoJob EXCEPT !.op = job[r].op])

\* The response is sent after the commit.
Finish(r) ==
  /\ pc[r] = "reply"
  /\ Commit(r)
  /\ Goto(r, "idle") /\ Keep(r, NoJob)
  /\ answers' = IF job[r].new = None THEN answers
                ELSE answers \cup {[op |-> job[r].op, from |-> job[r].key, new |-> job[r].new]}
  /\ installed' = (installed /\ job[r].op # "uninstall")
  /\ UNCHANGED <<clock, generated, origin>>

Fail(r) ==
  /\ pc[r] # "idle"
  /\ Rollback(r)
  /\ Goto(r, "idle") /\ Keep(r, NoJob)
  /\ UNCHANGED <<generated>> /\ Rest

Tick ==
  /\ clock < MaxClock /\ clock' = clock + 1
  /\ UNCHANGED <<committed, dirty, pc, job, generated, installed, origin, answers>>

\* The addon is installed, for the first time or again.
Install ==
  /\ ~installed /\ installed' = TRUE
  /\ UNCHANGED <<committed, dirty, clock, pc, job, generated, origin, answers>>

-----------------------------------------------------------------------------
(* register.py *)

Register(r) ==
  /\ pc[r] = "register"
  /\ \E cl \in Client \ generated :
       /\ CreateClient(r, cl, Registration[cl]) /\ Generate(cl)
  /\ Goto(r, "reply") /\ UNCHANGED job /\ Rest

-----------------------------------------------------------------------------
(* authorize.py, for an authenticated user.  An unregistered client or an  *)
(* invalid request ends it; a request that passes reads the consent next.  *)

MayRequest(r, g) ==
  /\ Row(r, g.client) # Absent
  /\ DefaultScope \in g.scope /\ g.scope \subseteq Row(r, g.client).scope

Authorize(r) ==
  /\ pc[r] = "authorize"
  /\ \E g \in Requested :
       IF MayRequest(r, g)
         THEN Goto(r, "consent") /\ Keep(r, [job[r] EXCEPT !.grant = g])
         ELSE Refuse(r)
  /\ UNCHANGED <<committed, dirty, generated>> /\ Rest

\* _grant_or_request_consent.  The decision is "none" on a GET, after a login and
\* when the form carries none; a decision without a valid csrf token is refused.
Decide(r) ==
  /\ pc[r] = "consent"
  /\ \E decision \in {"none", "allow", "deny"}, csrf \in BOOLEAN :
       LET known == HasConsent(r, job[r].grant, Now(r))
       IN  IF (decision # "none" /\ ~csrf) \/ (~known /\ decision # "allow")
             THEN Refuse(r)
             ELSE /\ Goto(r, IF known THEN "issue" ELSE "approve")
                  /\ Keep(r, [job[r] EXCEPT !.decision = decision])
  /\ UNCHANGED <<committed, dirty, generated>> /\ Rest

Approve(r) ==
  /\ pc[r] = "approve"
  /\ CreateConsent(r, job[r].grant, Now(r))
  /\ Goto(r, "issue") /\ UNCHANGED <<job, generated>> /\ Rest

Issue(r) ==
  /\ pc[r] = "issue"
  /\ \E c \in FreshCodes :
       /\ CreateCode(r, c, job[r].grant, Now(r)) /\ Generate(c)
       /\ Keep(r, [job[r] EXCEPT !.new = c])
       /\ origin' = [origin EXCEPT ![c] = job[r].grant]
  /\ Goto(r, "reply")
  /\ UNCHANGED <<clock, installed, answers>>

-----------------------------------------------------------------------------
(* token.py, grant_type=authorization_code *)

\* Faulty: only the scope is compared.
NarrowerScopeOnly(scope, resource, g) == scope \subseteq g.scope

Narrower(scope, resource, g) == scope \subseteq g.scope /\ resource \subseteq g.resource

\* get_client and get_active_code.  A client's row outlives its codes, so the two
\* reads are one step.  bound: the redirect_uri is the code's and the code_verifier
\* matches its challenge.
Exchange(r) ==
  /\ pc[r] = "exchange"
  /\ \E client \in Client, bound \in BOOLEAN, want \in SUBSET Resource :
       LET c   == job[r].key
           row == Row(r, c)
           accepted == /\ row.grant.client = client
                       /\ Row(r, client) # Absent
                       /\ "authorization_code" \in Row(r, client).types
                       /\ bound
                       /\ Narrower({}, want, row.grant)
           narrowed == IF want = {} THEN row.grant ELSE [row.grant EXCEPT !.resource = want]
       IN  IF ~CodeActive(r, c, Now(r))
             THEN Goto(r, "replayed") /\ UNCHANGED job
             ELSE IF accepted
               THEN Goto(r, "consume") /\ Keep(r, [job[r] EXCEPT !.grant = narrowed])
               ELSE Refuse(r)
  /\ UNCHANGED <<committed, dirty, generated>> /\ Rest

\* revoke_refresh_tokens_by_auth_code: the snapshot of the UPDATE.
Replayed(r) ==
  /\ pc[r] = "replayed"
  /\ Keep(r, [job[r] EXCEPT !.hit = CodeTokenRows(r, job[r].key)])
  /\ Goto(r, "revoking")
  /\ UNCHANGED <<committed, dirty, generated>> /\ Rest

Consume(r) ==
  /\ pc[r] = "consume"
  /\ IF CodeActive(r, job[r].key, Now(r))
       THEN ConsumeCode(r, job[r].key) /\ Goto(r, "mint")
       ELSE NoRow /\ Goto(r, "reply")
  /\ UNCHANGED <<job, generated>> /\ Rest

Mint(r) ==
  /\ pc[r] = "mint"
  /\ \E t \in FreshTokens :
       /\ CreateRefreshToken(r, t, job[r].grant, job[r].key, Now(r)) /\ Generate(t)
       /\ Keep(r, [job[r] EXCEPT !.new = t])
  /\ Goto(r, "reply") /\ Rest

-----------------------------------------------------------------------------
(* token.py, grant_type=refresh_token *)

\* get_client and get_valid_refresh, and the checks on what they returned.  A request
\* that names no scope or no resource has the ones of the row.
Rotate(r) ==
  /\ pc[r] = "rotate"
  /\ \E client \in Client, scope \in (SUBSET Scope) \ {{}}, resource \in SUBSET Resource :
       LET t   == job[r].key
           row == Row(r, t)
           accepted == /\ RefreshValid(r, t, Now(r))
                       /\ row.grant.client = client
                       /\ Row(r, client) # Absent
                       /\ "refresh_token" \in Row(r, client).types
                       /\ Narrower(scope, resource, row.grant)
                       /\ resource = {} => row.grant.resource = {}
           narrowed == [row.grant EXCEPT !.scope = scope, !.resource = resource]
       IN  IF accepted
             THEN Goto(r, "retire") /\ Keep(r, [job[r] EXCEPT !.grant = narrowed])
             ELSE Refuse(r)
  /\ UNCHANGED <<committed, dirty, generated>> /\ Rest

\* rotate_refresh_token: UPDATE ... RETURNING user_id, auth_code_hash.
Retire(r) ==
  /\ pc[r] = "retire"
  /\ LET t == job[r].key
     IN  IF Rotatable(r, t, job[r].grant.client, Now(r))
           THEN \E n \in FreshTokens :
                  /\ RetireToken(r, t, n) /\ Generate(n)
                  /\ Keep(r, [job[r] EXCEPT !.new = n, !.code = Row(r, t).code])
                  /\ Goto(r, "chain")
           ELSE NoRow /\ Refuse(r) /\ UNCHANGED generated
  /\ Rest

Chain(r) ==
  /\ pc[r] = "chain"
  /\ ChainToken(r, job[r].new, job[r].grant, job[r].code, job[r].key, Now(r))
  /\ Goto(r, "reply") /\ UNCHANGED <<job, generated>> /\ Rest

-----------------------------------------------------------------------------
(* revoke.py *)

\* get_refresh_token: a token of the client, live or not.
Revoke(r) ==
  /\ pc[r] = "revoke"
  /\ \E client \in Client :
       LET row == Row(r, job[r].key)
       IN  IF row # Absent /\ row.grant.client = client
             THEN /\ Goto(r, "family")
                  /\ Keep(r, [job[r] EXCEPT !.grant = row.grant, !.code = row.code])
             ELSE Refuse(r)
  /\ UNCHANGED <<committed, dirty, generated>> /\ Rest

\* revoke_refresh_family: the snapshot of the UPDATE.
Family(r) ==
  /\ pc[r] = "family"
  /\ Keep(r, [job[r] EXCEPT !.hit = FamilyRows(r, job[r].grant.user, job[r].grant.client, job[r].code)])
  /\ Goto(r, "revoking")
  /\ UNCHANGED <<committed, dirty, generated>> /\ Rest

AfterRevokingReply(op) == "reply"   \* faulty: the consent is kept

\* What follows the revocation of rows: only /oauth/revoke also forgets a consent.
AfterRevoking(op) == IF op = "revoke" THEN "forget" ELSE "reply"

\* The UPDATE of any of the three revocations.
Revoking(r) ==
  /\ pc[r] = "revoking"
  /\ RevokeRows(r, job[r].hit)
  /\ Goto(r, AfterRevoking(job[r].op)) /\ UNCHANGED <<job, generated>> /\ Rest

\* The consent key is built from the presented token's own scope and resource.
Forget(r) ==
  /\ pc[r] = "forget"
  /\ DeleteConsent(r, job[r].grant)
  /\ Goto(r, "reply") /\ UNCHANGED <<job, generated>> /\ Rest

-----------------------------------------------------------------------------
(* consents.py *)

Consents(r) ==
  /\ pc[r] = "consents"
  /\ \E g \in ConsentKey :
       IF HasConsent(r, g, Now(r))
         THEN Goto(r, "withdraw") /\ Keep(r, [job[r] EXCEPT !.grant = g])
         ELSE Refuse(r)
  /\ UNCHANGED <<committed, dirty, generated>> /\ Rest

Withdraw(r) ==
  /\ pc[r] = "withdraw"
  /\ DeleteConsent(r, job[r].grant)
  /\ Goto(r, "sessions") /\ UNCHANGED <<job, generated>> /\ Rest

\* revoke_user_client_refresh_tokens: the snapshot of the UPDATE.
Sessions(r) ==
  /\ pc[r] = "sessions"
  /\ Keep(r, [job[r] EXCEPT !.hit = UserClientRows(r, job[r].grant.user, job[r].grant.client)])
  /\ Goto(r, "revoking")
  /\ UNCHANGED <<committed, dirty, generated>> /\ Rest

-----------------------------------------------------------------------------
(* cleanup_expired, in its own transaction, and delete_container_data: DELETEs *)
(* of one table after the other.                                               *)

\* Faulty: the refresh tokens are not deleted.
PurgePlanNoTokens(op) == IF op = "cleanup" THEN <<Code, Token, ConsentKey>>
                                           ELSE <<ConsentKey, Code, Client>>

\* Faulty: the uninstall deletes the tokens before the consents.
PurgePlanTokensFirst(op) == IF op = "cleanup" THEN <<Code, Token, ConsentKey>>
                                              ELSE <<Token, ConsentKey, Code, Client>>

PurgePlan(op) == IF op = "cleanup" THEN <<Code, Token, ConsentKey>>
                                   ELSE <<ConsentKey, Token, Code, Client>>

NextTableSame(i) == 1   \* faulty: the purge does not move on

NextTable(i) == i + 1

Select(r) ==
  /\ pc[r] = "select"
  /\ LET next  == NextTable(job[r].table)
         table == PurgePlan(job[r].op)[next]
     IN  \E K \in IF job[r].op = "cleanup" THEN ExpiredBatch(r, table, BatchSize, Now(r))
                                          ELSE {StoredRows(r, table)} :
           Keep(r, [job[r] EXCEPT !.hit = K, !.table = next])
  /\ Goto(r, "purge")
  /\ UNCHANGED <<committed, dirty, generated>> /\ Rest

Purge(r) ==
  /\ pc[r] = "purge"
  /\ DeleteRows(r, job[r].hit, AutoCommit /\ job[r].op # "cleanup")
  /\ Goto(r, IF job[r].table = Len(PurgePlan(job[r].op)) THEN "reply" ELSE "select")
  /\ UNCHANGED <<job, generated>> /\ Rest

-----------------------------------------------------------------------------
Step(r) ==
  \/ Register(r)
  \/ Authorize(r) \/ Decide(r) \/ Approve(r) \/ Issue(r)
  \/ Exchange(r) \/ Replayed(r) \/ Consume(r) \/ Mint(r)
  \/ Rotate(r) \/ Retire(r) \/ Chain(r)
  \/ Revoke(r) \/ Family(r) \/ Revoking(r) \/ Forget(r)
  \/ Consents(r) \/ Withdraw(r) \/ Sessions(r)
  \/ Select(r) \/ Purge(r)
  \/ Finish(r)

Next ==
  \/ \E r \in Req : Step(r) \/ Fail(r) \/ \E op \in AllOps : Begin(r, op)
  \/ Tick \/ Install

Spec == Init /\ [][Next]_vars
=============================================================================
