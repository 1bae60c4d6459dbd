--------------------------- MODULE GrantProperties ---------------------------
(***************************************************************************)
(* What the life of a grant promises, over OAuthGrants.                    *)
(***************************************************************************)
EXTENDS OAuthGrants

Cell == ClientRow \cup CodeRow \cup ConsentRow \cup TokenRow \cup {Absent}

\* What the table of key k holds.
Rows(k) == {Absent} \cup (IF k \in Client THEN ClientRow
                          ELSE IF k \in Code THEN CodeRow
                          ELSE IF k \in Token THEN TokenRow ELSE ConsentRow)

Labels == {"idle", "register", "authorize", "consent", "approve", "issue",
           "exchange", "replayed", "consume", "mint", "rotate", "retire", "chain",
           "revoke", "family", "revoking", "forget", "consents", "withdraw",
           "sessions", "select", "purge", "reply"}

Job == [op : AllOps \cup {"none"}, since : Nat,
        key : Code \cup Token \cup {None}, grant : Grant \cup {None},
        code : Code \cup {None}, new : Code \cup Token \cup {None},
        hit : SUBSET Key, decision : {"none", "allow", "deny"}, table : Nat]

Answer == [op : AllOps \cup {"none"}, from : Code \cup Token \cup {None}, new : Code \cup Token]

StoreOK ==
  /\ committed \in [Key -> Cell]
  /\ dirty \in [Req -> [Key -> Cell \cup {Untouched}]]
  /\ \A k \in Key : /\ committed[k] \in Rows(k)
                    /\ \A r \in Req : dirty[r][k] \in Rows(k) \cup {Untouched}

RequestsOK ==
  /\ clock \in Nat
  /\ pc \in [Req -> Labels]
  /\ job \in [Req -> Job]
  /\ generated \subseteq Client \cup Code \cup Token
  /\ installed \in BOOLEAN
  /\ origin \in [Code -> Grant \cup {None}]
  /\ answers \subseteq Answer

\* Every variable holds what the code stores in it.
TypeOK == StoreOK /\ RequestsOK

-----------------------------------------------------------------------------
(* One grant, one right. *)

\* In autocommit mode a request between two statements may hold the right to the
\* family's next token with no row that shows it.
Carries(r, c) ==
  /\ AutoCommit
  /\ \/ pc[r] = "mint" /\ job[r].key = c
     \/ pc[r] = "chain" /\ job[r].code = c

LiveTokens(c) == {t \in Token : Live(committed[t]) /\ committed[t].code = c}

Rights(c) == ({c} \cap {k \in Code : committed[k] # Absent})
             \cup LiveTokens(c) \cup {r \in Req : Carries(r, c)}

\* Everything an authorization code leads to is one right that is handed on: the code
\* itself, or one live refresh token, or a request that is about to store one
\* (consume_code, rotate_refresh_token).
OneRightPerGrant == \A c \in Code : \A x, y \in Rights(c) : x = y

\* A code and a refresh token are answered with at most one new token, whatever
\* requests present them at the same time or later (consume_code's DELETE RETURNING,
\* rotate_refresh_token's conditional UPDATE).
OneSuccessor ==
  \A a, b \in answers :
     a.from = b.from /\ a.op \in {"exchange", "rotate"} => a.new = b.new

\* Narrowing never widens: a stored token belongs to the user and client the user
\* approved and its scope and resource stay within what was approved for its code
\* (token.py: the subset checks of exchange and rotation, over a whole chain).
WithinApproved ==
  \A t \in Token : committed[t] # Absent =>
     LET g == committed[t].grant  o == origin[committed[t].code]
     IN  /\ o # None /\ g.user = o.user /\ g.client = o.client
         /\ g.scope \subseteq o.scope /\ g.resource \subseteq o.resource

\* The two ends of a rotation agree: a stored successor names the token it was rotated
\* from, both belong to one family, and the predecessor is revoked in favour of it
\* unless it was deleted meanwhile (rotate_refresh_token).
ChainsLinked ==
  \A t \in Token : committed[t] # Absent /\ committed[t].from # None =>
     LET p == committed[committed[t].from]
     IN  p # Absent => p.revoked /\ p.next = t /\ p.code = committed[t].code

\* A refresh token is retired only together with its successor: no failure between the
\* two statements of rotate_refresh_token loses the client's session.  (In one
\* transaction; the README says what happens when statements commit one by one.)
NoTokenLost ==
  \A t \in Token : committed[t] # Absent /\ committed[t].next # None =>
     committed[committed[t].next] # Absent \/ Expired(committed[t], clock)

\* What was used up stays used up: a code or token the server handed out is never
\* valid again once its row was deleted or revoked, whatever stale row versions the
\* concurrent statements started from.
SpentStaysSpent ==
  [][/\ \A c \in Code \cap Delivered : committed[c] = Absent => committed'[c] = Absent
     /\ \A t \in Token \cap Delivered : ~Live(committed[t]) => ~Live(committed'[t])]_vars

\* Request r asked for the end of token t.
EndsToken(r, t) ==
  \/ job[r].op = "exchange" /\ job[r].key = committed[t].code
  \/ job[r].op = "rotate"   /\ job[r].key = t
  \/ job[r].op = "revoke"   /\ job[r].code = committed[t].code
  \/ /\ job[r].op = "consents"
     /\ job[r].grant.user = committed[t].grant.user
     /\ job[r].grant.client = committed[t].grant.client
  \/ job[r].op = "cleanup"  /\ Expired(committed[t], clock)
  \/ job[r].op = "uninstall"

\* A session ends only for a reason of its own: a live token is revoked or deleted by
\* its rotation, a replay of its code, a revocation of its family, the user's
\* withdrawal of that client's consent, its expiry or the uninstall, and never by an
\* operation on another grant.
SessionsEndForCause ==
  [][\A t \in Token : Live(committed[t]) /\ ~Live(committed'[t]) =>
       \E r \in Req : pc'[r] # pc[r] /\ EndsToken(r, t)]_vars

\* Request r is answered in this step.
Answered(r) == pc[r] = "reply" /\ Finish(r)

\* A revocation reaches every token its UPDATE found live, even when it had to wait
\* for a rotation or another revocation of that row.
RevocationReachesWhatItSaw ==
  [][\A r \in Req :
       Answered(r) /\ job[r].op \in {"exchange", "revoke", "consents"} =>
         \A t \in job[r].hit : ~Live(committed'[t])]_vars

\* Cleanup deletes only expired codes and tokens.
CleanupOnlyExpired ==
  [][\A r \in Req : Answered(r) /\ job[r].op = "cleanup" =>
       \A k \in Code \cup Token : committed[k] # Absent /\ committed'[k] = Absent =>
         Expired(committed[k], clock)]_vars

-----------------------------------------------------------------------------
(* What the README says of /oauth/revoke without reserve.  Another request in  *)
(* between, or a narrowed token, breaks either; Overlap says what is left.     *)

\* After /oauth/revoke answers, no token of the presented token's family is live.
RevokeEndsFamily ==
  [][\A r \in Req : Answered(r) /\ job[r].op = "revoke" /\ job[r].code # None =>
       \A t \in Token : Live(committed'[t]) => committed'[t].code # job[r].code]_vars

\* After /oauth/revoke answers, the consent the family's grant was approved under is
\* no longer remembered, so an authorization request asks the user again.
RevokeForgetsConsent ==
  [][\A r \in Req : Answered(r) /\ job[r].op = "revoke" /\ job[r].code # None =>
       committed'[origin[job[r].code]] = Absent]_vars
=============================================================================
