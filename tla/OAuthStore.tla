----------------------------- MODULE OAuthStore -----------------------------
(***************************************************************************)
(* storage/pg/repository.py: the rows of the four OAuth tables of one      *)
(* container and the SQL statements of PostgresOAuthStore.                 *)
(*                                                                         *)
(* A statement on one row is one step.  A statement on many rows is two:   *)
(* its snapshot selects the candidate rows, and its application, possible  *)
(* once no other transaction holds any of them, evaluates the WHERE clause *)
(* again on their current versions and writes those that still match.     *)
(* Names and tokens are members of small sets.  Token hashing is injective *)
(* and left out.  Scope and resource lists are sets: their order never     *)
(* matters to the code, and repeated entries are not modelled.             *)
(***************************************************************************)
EXTENDS Integers, FiniteSets

CONSTANTS Req,           \* request handlers and background jobs
          User, Client, Scope, Resource,
          Code, Token,   \* random values an endpoint may generate
          AutoCommit,    \* TRUE: statements of a request commit one by one
          CodeTTL, RefreshTTL, ConsentTTL,
          None, Absent, Untouched

VARIABLES committed, dirty, clock

GrantType == {"authorization_code", "refresh_token"}

\* What a user lets a client do.  A resource parameter of blanks names no resource.
Grant == [user : User, client : Client, scope : (SUBSET Scope) \ {{}},
          resource : SUBSET Resource]

\* flow/consent.py joins exactly these four fields, the lists sorted.
ConsentKey == Grant

Key == Client \cup Code \cup Token \cup ConsentKey

INSTANCE PgStore WITH Txn <- Req

Never == -1   \* expires_at IS NULL

ClientRow  == [scope : SUBSET Scope, types : SUBSET GrantType]
CodeRow    == [grant : Grant, expires : Nat]
ConsentRow == [expires : Nat \cup {Never}]
TokenRow   == [grant : Grant,
               code : Code,                \* auth_code_hash
               from : Token \cup {None},   \* rotated_from
               next : Token \cup {None},   \* replaced_by
               revoked : BOOLEAN,          \* revoked_at IS NOT NULL
               expires : Nat]

Unexpired(row, now) == row # Absent /\ (row.expires = Never \/ row.expires > now)
Expired(row, now)   == row # Absent /\ row.expires # Never /\ row.expires < now
Live(row)           == row # Absent /\ ~row.revoked

-----------------------------------------------------------------------------
(* Statements on one row. *)

Put(r, k, row) == Write(r, [NoWrites EXCEPT ![k] = row], AutoCommit)
NoRow          == UNCHANGED <<committed, dirty>>

HasConsent(r, g, now) == Unexpired(Row(r, g), now)

\* INSERT ... ON CONFLICT DO UPDATE: a second grant refreshes the expiry.
CreateConsentUntimed(r, g, now) == Put(r, g, [expires |-> None])   \* faulty: TTL ignored

CreateConsent(r, g, now) ==
  Put(r, g, [expires |-> IF ConsentTTL = 0 THEN Never ELSE now + ConsentTTL])

DeleteConsent(r, g) == IF Row(r, g) = Absent THEN NoRow ELSE Put(r, g, Absent)

CreateCode(r, c, g, now) == Put(r, c, [grant |-> g, expires |-> now + CodeTTL])

CodeActive(r, c, now) == Unexpired(Row(r, c), now)

ConsumeCodeKept(r, c) == NoRow   \* faulty: the code is read and not deleted

\* DELETE ... RETURNING: the row is returned only to the request that deletes it.
ConsumeCode(r, c) == Put(r, c, Absent)

NewToken(g, c, old, now) ==
  [grant |-> g, code |-> c, from |-> old, next |-> None,
   revoked |-> FALSE, expires |-> now + RefreshTTL]

CreateRefreshToken(r, t, g, c, now) == Put(r, t, NewToken(g, c, None, now))

RefreshValid(r, t, now) == Unexpired(Row(r, t), now) /\ Live(Row(r, t))

\* Faulty: the UPDATE lacks revoked_at IS NULL.
RotatableAgain(r, t, client, now) ==
  Unexpired(Row(r, t), now) /\ Row(r, t).grant.client = client

\* The WHERE clause of rotate_refresh_token's UPDATE.
Rotatable(r, t, client, now) ==
  RefreshValid(r, t, now) /\ Row(r, t).grant.client = client

\* rotate_refresh_token: the UPDATE of the old row, then the INSERT of the new.
\* Faulty: the UPDATE commits before the INSERT.
RetireTokenAtOnce(r, t, new) ==
  Write(r, [NoWrites EXCEPT ![t] = [Row(r, t) EXCEPT !.revoked = TRUE, !.next = new]], TRUE)

RetireToken(r, t, new) == Put(r, t, [Row(r, t) EXCEPT !.revoked = TRUE, !.next = new])
ChainToken(r, t, g, c, old, now) == Put(r, t, NewToken(g, c, old, now))

CreateClient(r, cl, row) == Put(r, cl, row)

-----------------------------------------------------------------------------
(* Statements on many rows: what their snapshot selects, and what they do. *)

\* Faulty: auth_code_hash is not compared.
FamilyRowsAnyCode(r, user, client, c) ==
  {t \in Token : /\ Live(Row(r, t))
                 /\ Row(r, t).grant.user = user
                 /\ Row(r, t).grant.client = client}

\* Faulty: only the token of the exchange belongs to the family.
FamilyRowsFirst(r, user, client, c) ==
  {t \in Token : /\ Live(Row(r, t)) /\ Row(r, t).from = None
                 /\ Row(r, t).code = c}

FamilyRows(r, user, client, c) ==
  {t \in Token : /\ Live(Row(r, t))
                 /\ Row(r, t).code = c
                 /\ Row(r, t).grant.user = user
                 /\ Row(r, t).grant.client = client}

\* Faulty: a rotated token loses its link to the code.
CodeTokenRowsFirst(r, c) ==
  {t \in Token : Live(Row(r, t)) /\ Row(r, t).code = c /\ Row(r, t).from = None}

CodeTokenRows(r, c) == {t \in Token : Live(Row(r, t)) /\ Row(r, t).code = c}

\* Faulty: only tokens that were never rotated.
UserClientRowsFirst(r, user, client) ==
  {t \in Token : /\ Live(Row(r, t)) /\ Row(r, t).from = None
                 /\ Row(r, t).grant.user = user
                 /\ Row(r, t).grant.client = client}

UserClientRows(r, user, client) ==
  {t \in Token : /\ Live(Row(r, t))
                 /\ Row(r, t).grant.user = user
                 /\ Row(r, t).grant.client = client}

\* Faulty: rows another transaction holds are skipped, not waited for.
RevokeRowsSkipLocked(r, K) ==
  Write(r, [k \in Key |-> IF k \in K /\ Live(Row(r, k)) /\ ~Blocked(r, {k})
                            THEN [Row(r, k) EXCEPT !.revoked = TRUE]
                            ELSE Untouched], AutoCommit)

\* SET revoked_at = COALESCE(revoked_at, now()) WHERE ... revoked_at IS NULL
RevokeRows(r, K) ==
  /\ ~Blocked(r, K)
  /\ Write(r, [k \in Key |-> IF k \in K /\ Live(Row(r, k))
                               THEN [Row(r, k) EXCEPT !.revoked = TRUE]
                               ELSE Untouched], AutoCommit)

\* Faulty: a row that expires now is already taken.
ExpiredBatchEarly(r, T, limit, now) ==
  LET due == {k \in T : Row(r, k) # Absent /\ ~Unexpired(Row(r, k), now)}
  IN  {K \in SUBSET due : K = due \/ Cardinality(K) = limit}

\* The subselect of one DELETE of cleanup_expired: LIMIT picks any such rows.
ExpiredBatch(r, T, limit, now) ==
  LET due == {k \in T : Expired(Row(r, k), now)}
  IN  {K \in SUBSET due : K = due \/ Cardinality(K) = limit}

StoredRows(r, T) == {k \in T : Row(r, k) # Absent}

\* The DELETE finds its rows by primary key: a candidate that was updated
\* meanwhile is deleted all the same, one that is gone is skipped.
DeleteRows(r, K, auto) ==
  /\ ~Blocked(r, K)
  /\ Write(r, [k \in Key |-> IF k \in StoredRows(r, K) THEN Absent ELSE Untouched], auto)
=============================================================================
