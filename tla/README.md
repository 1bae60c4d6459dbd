# A verification project for guillotina_oauth_server

`guillotina_oauth_server` is an OAuth 2.1 authorization server that runs inside
[Guillotina] workers. It issues authorization codes, rotates refresh tokens, remembers
consents and keeps all of it in four PostgreSQL tables that every worker shares. This
directory holds TLA+ models of it, the TLC instances that check them, and TLAPS proofs
about them. Paths below are relative to `src/guillotina_oauth_server/`.

[Guillotina]: https://github.com/plone/guillotina

## 1. The system

| Component | State | Operations | Talks to | Modelled by |
|---|---|---|---|---|
| Row store, `storage/pg/repository.py` | clients, codes, refresh tokens, consents, one row per key and container | one SQL statement per method | every endpoint, the cleanup, the addon | `PgStore`, `OAuthStore` |
| Token endpoint, `api/endpoints/token.py` | handler locals between awaits | exchange of a code, rotation of a token | row store, PKCE, resource indicators | `OAuthGrants`, `AuthorizationFlow` |
| Revocation endpoint, `api/endpoints/revoke.py` | handler locals | revoke a family, forget a consent | row store, consent key | `OAuthGrants`, `RequestWaits`, `Overlap` |
| Consent endpoints, `api/endpoints/consents.py` | handler locals | list, withdraw | row store | `OAuthGrants`, `RequestWaits`, `Overlap` |
| Authorization endpoint, `api/endpoints/authorize.py`, `flow/csrf.py`, `flow/consent.py` | handler locals, the signed form in the browser, the session cookie | ask for consent, create consent and code, log in | row store, rate limiter, resource indicators | statements: `OAuthGrants`; sessions, forms, logins: `AuthorizationFlow`; throttled login: `RateLimiter` |
| Registration, `api/endpoints/register.py`, `flow/clients.py` | - | check metadata, create a client | row store, rate limiter | `ClientMetadata`, `AuthorizationFlow`, `OAuthGrants` |
| Cleanup, `cleanup_expired`, `storage/utility.py` | its transaction, the loop's task | delete a batch of expired rows per table, periodically; start and stop | row store | one run: `OAuthGrants`; the task: `CleanupLoop` |
| Addon, `install.py`, `storage/access.py` | the container's enabled addons | install, uninstall | row store | `OAuthGrants`, `Overlap` |
| Schema, `storage/pg/schema_ops.py`, `ensure_oauth_schema`, `commands/migrate.py` | tables, recorded version, advisory lock | install, adopt, migrate | PostgreSQL catalog | `SchemaBootstrap` |
| Rate limiter, `utils/ratelimit.py` | windows in memory or in Redis | check, hit, prune, fall back | Redis | `RateLimiter` |
| Resource indicators, `indicators/`, `integrations/mcp/`, `discovery/` | lists of resolvers and providers | allowed indicators, required indicator, protected-resource document | bearer validation | `ResourceIndicators` |
| Bearer validation, `auth/` | - | issuer, audience and scope of a JWT | resource indicators | `AuthorizationFlow` (not its signature) |
| Keys, the server's own discovery document, parsing, pages | - | pure functions | - | not modelled |

Handlers are coroutines. Between two `await`s of one handler any other handler, of the same
worker or another, may run; what they share is PostgreSQL. Guillotina runs a request in a
transaction that it commits before the response is sent and rolls back when the handler
raises, at READ COMMITTED: each statement sees what was committed when it began, and a row
that was written is locked until its transaction ends. That makes the hard behaviours of
this system:

* a statement acts on rows its handler read earlier, by a statement of its own;
* an UPDATE or DELETE of many rows cannot see rows inserted while it runs, and waits for
  rows that are locked;
* a request fails half way (client gone, deadlock victim, worker killed);
* `now()` is the start of the transaction, not of the statement;
* requests wait for each other in different orders, of tables and of the rows of one UPDATE;
* start-up and migration processes, of several versions of the code, see each other's
  schema change between two questions about it;
* a consent form stays open while the browser's user, the time and other forms change;
* the three phases of a resource indicator (grant, access, discovery) each derive it anew,
  from the Host of their own request;
* the limiter checks and counts in two calls, and with Redis reads and writes in two
  commands, each of which may fail, or be executed after its caller is gone.

## 2. Modules

Each module EXTENDS the ones to its left (PgStore and GrantLife are instances;
RefinementProofs also extends GrantRefinement, and TransactionProofs Overlap).

```
PgStore ── OAuthStore ── OAuthGrants ── GrantProperties ─┬─ RequestWaits
                                                         ├─ GrantRefinement (GrantLife)
                                                         └─ GrantInvariant
GrantInvariant ─┬─ MCGrants (with GrantRefinement) ─┬─ MCLoop (with CleanupLoop)
                │                                   └─ MCAnswers (with Overlap)
                └─ GrantTypeProofs ── OneRightProofs ── SuccessionProofs ── RefinementProofs ── TransactionProofs
RequestWaits ─┬─ CleanupLoop
              └─ Overlap
ClientMetadata ─────┬─ AuthorizationFlow ─┬─ MCFlow
ResourceIndicators ─┘                     └─ FlowProofs
RateLimiter ─────┬─ MCRateLimiter
                 └─ LimiterProofs
SchemaBootstrap ─┬─ MCSchema
                 └─ SchemaProofs
```

**PgStore** is PostgreSQL as the store uses it: committed rows, the uncommitted row versions
of each transaction, row locks. It is external code; the repository's SQL depends on exactly
these rules.

**OAuthStore** is `PostgresOAuthStore`. A statement on one row is one step, with its WHERE
clause as the condition. A statement on many rows is two: the snapshot that selects the
candidates (`FamilyRows`, `CodeTokenRows`, `UserClientRows`, `ExpiredBatch`, `StoredRows`)
and the application (`RevokeRows`, `DeleteRows`), which waits until no candidate is locked by
another transaction and evaluates the WHERE clause again on the current versions, as
PostgreSQL does. The subselect with LIMIT in `cleanup_expired` is not evaluated again: the
outer DELETE only compares primary keys, so `DeleteRows` deletes a candidate that was changed
meanwhile.

**OAuthGrants** is the handlers. `Req` is a set of request slots; `pc[r]` is the statement a
request is at and `job[r]` its local variables. The labels are the statements of the code:

| Code | Steps |
|---|---|
| `register.py` | `Register` |
| `authorize.py` | `Authorize` (client and request checks), `Decide` (`has_consent` and the decision), `Approve` (`create_consent`), `Issue` (`create_code`) |
| `token.py`, code | `Exchange` (`get_active_code`, checks), then `Consume`, `Mint`; or `Replayed`, `Revoking` |
| `token.py`, refresh | `Rotate` (`get_valid_refresh`, checks), `Retire` (UPDATE), `Chain` (INSERT) |
| `revoke.py` | `Revoke`, `Family`, `Revoking`, `Forget` |
| `consents.py` | `Consents`, `Withdraw`, `Sessions`, `Revoking` |
| `cleanup_expired`, `delete_container_data` | `Select`, `Purge`, once per table |
| the transaction | `Begin`, `Finish` (commit, then the response), `Fail` (rollback) |
| `install.py` | `Install`, for the first time or again; the uninstall is an operation of `Begin` |

**RequestWaits** adds the row locks of statements on many rows. PostgreSQL takes them one after
the other, in no order the code can rely on, and keeps those it has while it waits for the next.
`OAuthGrants` writes all rows in one step, the one after the last lock; nothing tells the
difference but who waits for whom: a locked row does not change, and nobody else reads a version
that is not committed. So `RequestWaits` has a variable `locked` beside those of `OAuthGrants`,
`LockRow` locks any one row that is free, and `Execute` runs the statement once nothing it
`Wanted` is left. `WaitsFor`, `Deadlocked` and the victim of a deadlock are about both kinds of
locks.

**Overlap** adds the ghost `meanwhile[r]`: the keys that others committed since request r read
their table. With it the properties say what an answer is worth while other requests run.

**GrantProperties** states the other properties, **GrantLife** the abstract promise (a right that is issued once, handed on, ended),
**GrantRefinement** the mapping from the rows to it, **GrantInvariant** the inductive
invariant, **GrantTypeProofs**, **OneRightProofs**, **SuccessionProofs**, **RefinementProofs**
(which also EXTENDS GrantRefinement) and **TransactionProofs** the proofs, each on top of the
one before.

**CleanupLoop** adds the task of `storage/utility.py` to the requests of `OAuthGrants`: it is
the only one that starts a cleanup, a run that raises is logged and followed by the next one,
`finalize` cancels it wherever it is and rolls its transaction back, `initialize` starts it
again. The rows are those of one database; a run visits several one after the other.

**ClientMetadata** is `flow/clients.py`, `flow/scopes.py` and the checks of `register.py`:
predicates over redirect URIs (records of the parts `urlparse` gives, those the code does not
compare included) and metadata.
**ResourceIndicators** is the pure part of `indicators/`, `integrations/mcp/`, `discovery/` and
`utils/urls.py`: what a grant may ask for, what a path requires, where the document about it
is. **AuthorizationFlow** composes the two with people: browsers whose user changes, forms
that stay open and age, remembered consents, codes, narrowing exchanges and rotations, and
the acceptance of the bearer token at a path of some container, or of none, under some Host.
`seen` is a
ghost that carries what a user was shown from the form to the token.

| Code | Steps |
|---|---|
| `register.py` | `Register` |
| `authorize.py` | `ShowForm` (also the request that logs in), `Allow`, `Skip` (consent remembered) |
| the browser | `SignOut`, `Close`, and `Tick`, which ages the forms |
| `token.py` | `Exchange`, `Refresh` (a grant's newest tokens replace the ones before) |
| `auth/validators.py` | `Accepted`, a predicate on a token and a path |

**RateLimiter** is `utils/ratelimit.py` with its callers. A call on the in-memory windows
awaits nothing and is one step; with Redis the connection, the GET and the SET are steps that
other handlers come between and that may fail. `Arrive` is a request that is counted (or, for a
login, checked); `LoginFails` the count after a wrong password. `Cancel` is a handler that is
cancelled (`CancelledError` is no `Exception`, so there is no fallback), `Restart` a worker that is
killed; in both a SET that was sent stays `sent`, and `SetLate` is Redis executing it, or not,
whenever it comes to it. The ghosts say where a guarantee is given up: `loose` (a window that
may have lost hits) and `torn` (a hit in Redis that nobody was granted); `round` numbers the
failed logins that were counted, for `GuessesBounded`.

**SchemaBootstrap** is a worker's `ensure_oauth_schema` and an operator's `oauth-migrate`.
Every question of `get_schema_status` is a step, because nothing puts them in one
transaction; installation and each migration are one step, because a transaction does. The
advisory lock counts how often its session took it (the command takes it twice when it
installs) and is released by `finally` or by the end of the session. Processes carry their
own `OAUTH_SCHEMA_VERSION`, because the code handles schemas older and newer than itself. The
process-local set of initialized pools only makes a second call return at once and is left
out, as is `--show-version`, which only reads.

### Modelling decisions

* *Transactions.* Whether the statements of a request share a database transaction depends on
  Guillotina's transaction strategy, which is not part of this repository. `AutoCommit`
  selects: FALSE is one transaction per request, TRUE commits every statement by itself (the
  cleanup has its own transaction either way). What holds in both is checked in both.
* *What a client sends.* Codes and tokens presented are ones the server sent (`Delivered`);
  any other finds no row. The value presented is chosen when the request begins.
* *Reads merged.* `Exchange` and `Rotate` read the row and the client in one step. Only the
  uninstall deletes clients, after codes and tokens, so a client's row outlives them.
* *Random identifiers* never repeat (`FreshTokens`); hashing is injective. Random values are
  a finite set, so a request that finds none left can only fail.
* *Lists of scopes and resources* are sets: the code only sorts, joins and compares them.
  `ConsentKey` is the exact tuple `build_consent_key` joins.
* *Grants that are asked for* are `Requested`: a resource parameter of blanks makes a grant with
  no resource (section 5), which `expiry` asks for too. `Unasked` in ResourceIndicators is a
  request without the parameter, or with an empty one, which is not the same.
* *PKCE and redirect_uri* equality are one boolean of an exchange, and the validity of a
  csrf token is one of a decision.
* *One step per request* in `AuthorizationFlow`: what happens between the statements of a
  handler is the business of `OAuthGrants`, whose rows do not know users or forms. `Token` is a
  grant's session there, not one refresh token.
* *Redirect URIs* are records: scheme class, userinfo, host, port, path, params, query, whether
  there is a fragment or a star. *Paths* are sequences of segments, since the code strips and
  compares them at slashes; *resource lists* are sets.
* *Databases before ours* in a run of the cleanup: that they fail in this run counts as the
  task sleeping on, and they are assumed not to fail in every run.
* *Time in the limiter* is one integer clock; a window counts the hits that are younger than
  it. A limit of 0 switches a limiter off and is left out.
* *Outside of containers* (`/`, `/db`) a token is accepted for the users that Guillotina finds
  there; which those are is the constant `Global`.
* *Unversioned schemas* predate the recorded version: their columns are version 1's or not
  compatible with it (`shape`).

## 3. What is checked

| Run | Instance | Properties |
|---|---|---|
| `concurrent` | three requests, one grant, three tokens, one transaction per request | `TypeOK`, `OneRightPerGrant`, `OneSuccessor`, `ChainsLinked`, `NoTokenLost`, `RevocationReachesWhatItSaw`, `ImplementsGrantLife` |
| `autocommit` | two requests, two codes, the addon perhaps not installed, a client that registers, every statement commits | `OneRightPerGrant`, `SpentStaysSpent`, `SessionsEndForCause`, `ImplementsGrantLife` |
| `expiry` | two requests and cleanup, clock to 2, two resources or a blank one | `NoTokenLost`, `ChainsLinked`, `WithinApproved`, `CleanupOnlyExpired` |
| `answers` | two requests, two codes, two tokens, revocations, withdrawals and uninstalls, rows locked one by one | `DeadlocksHaveCause`, `RevokeMissesOnlyNewer`, `WithdrawalMissesOnlyNewer`, `ReplayMissesOnlyNewer`, `RevokeForgetsUnlessRenewed`, `UninstallMissesOnlyNewer` |
| `locks` | two requests and a cleanup task that fails, stops and starts, rows locked one by one, expiring rows, fairness | `EveryRequestEnds`, `ExpiredRowsGo` |
| `throttle` | two workers, with and without Redis, two calls at a time, more keys than are tracked, failures, cancellations and restarts | `ThrottleTypeOK`, `LimitPerStore`, `RefusalsAreEarned`, `MemoryBounded`, `GuessesBounded` |
| `front` | two users in one browser, one client, two containers and none, two hosts, three settings of the issuer | `FlowTypeOK`, `CodesWereSeen`, `CodesReachTheClient`, `RegisteredClientsServed`, `AccessWasSeen`, `PhasesAgree`, `ApprovalIsFresh` |
| `schema` | workers of versions 1 and 2, a command of version 3, crashes and restarts, every initial database | `SchemaTypeOK`, `VersionTruthful`, `ReadyMeansInstalled`, `LockNotLeaked`, `NeverDowngraded` |
| `race_revoke`, `forget_narrowed`, `schema_newer`, `schema_fresh` | the smallest instance | one property each, violated: section 5 |

The `answers` properties say what an answer means to the client that receives it, beside any
other request: a revocation, a withdrawal, a replay and an uninstall miss only what another
request committed after the statement took its snapshot (for an exchange that finds the code
used too late, after it read the code). That window is what `race_revoke` shows and section 5
lists; a statement whose condition selects too little is found by the mutants.
`RevocationReachesWhatItSaw` adds that a revocation which waits for a rotation still ends what
its snapshot found, and `RevokeForgetsUnlessRenewed` is about tokens as wide as their grant:
`forget_narrowed` shows the others.

The passing runs visit 417,775 (`concurrent`), 200,694 (`autocommit`), 680,974 (`expiry`),
1,396,877 (`answers`), 235,906 (`locks`), 1,079,036 (`throttle`) and 357,924 (`front`) distinct
states, and `schema` its whole state space likewise.

*Bounds.* Every race here is between two statements of different handlers, so two requests
show each pairwise race and three let one of them wait behind another. Three tokens are an
exchange and two rotations: a chain with a first, a middle and a last link, and a rotation
still to lose. Two codes are there where a property tells grants apart, or two rows of one table
are wanted by one statement (a code has one live token): in `answers` two withdrawals, and two
uninstalls, lock the same two tokens in both orders and deadlock. With
a TTL of 1 and a clock to 2 each row is seen fresh, at its expiry and past it; `BatchSize` 1
makes LIMIT bite. `MaxClock`, the sizes of `Code` and `Token`, and `Retries` are the only
bounds on behaviour. Two tables stand for four in the schema run: a count is none, some or
all; one retry stands for thirty, since every attempt is alike. `concurrent` and the other
safety runs use the symmetry of requests, codes, tokens and resources; `locks` has none, because
it checks liveness.

In `throttle` a limit of 1, a window of 1 and a clock to 1 show a hit within its window and
exactly as old as it;
one tracked key and two keys make every new key evict the other; three requests are
one that is let pass, one that races it and one that comes after. In `front` one open form and
one remembered consent are enough for a form of one user posted by another, a form posted for
another request and one that outlived its ttl, since each such mistake is about one form and
one request; two containers, two hosts and three pins (none, a container's own URL, the root)
are every way an issuer can agree or not with the place a request goes to. `locks` leaves out
rotation and the uninstall: a rotation locks one token as an exchange locks one code, and the
uninstall meets the others in `answers`. One cleanup runs there, since a worker has one task;
two of them, of two workers, with two expired tokens and `BatchSize` 2, were checked for
`DeadlocksHaveCause` alone (5.6 million states), which is proved for any number.

*Fairness* (`locks`). `LoopFairness`: each handler's step is strongly fair, for the event loop resumes it when its
statement returns, and PostgreSQL queues waiters of a row lock, so a lock that is free again
and again is granted. The deadlock detector is weakly fair. Nothing makes requests arrive or
fail. `Exhausted` ends a request that needs a random value when the finite set has none; it is
an artefact of the bound, and as fair as the step it stands for. The cleanup task is strongly fair too: it wakes, reaches this
database and is handed a connection as long as one is free again and again. `ExpiredRowsGo` has
a premise, that runs of the cleanup fail only finitely often, and holds only while the worker
is not shut down. Under these every request ends (its handler is idle again and again).

*Deadlocks* happen, and PostgreSQL ends one of the requests in it. `DeadlocksHaveCause` says which
can: a request at an UPDATE or DELETE of many rows, or at the consent it forgets after one. Either
one that locks tokens before consents (`/oauth/revoke`, the cleanup) meets one that locks
consents before tokens (`/oauth/consents`, the uninstall), or two such statements lock rows they
share in different orders. Authorizing, exchanging a code for the first time and rotating a token are never
in one.

Every property has a mutant in PROJECT.json: a definition with a plausible bug (the
definitions commented `faulty`) under which TLC finds that property violated.

## 4. What is proved

| Module | Theorem | Statement |
|---|---|---|
| GrantTypeProofs | `TypeCorrect` | `Spec => []TypeOK` |
| OneRightProofs | `OneRight` | `Spec => []OneRightPerGrant` |
| SuccessionProofs | `SpentForGood` | `Spec => SpentStaysSpent` |
| | `Successor` | `Spec => []OneSuccessor` |
| | `Chained` | `Spec => []ChainsLinked` |
| | `StaysApproved` | `Spec => []WithinApproved` |
| RefinementProofs | `Refinement` | `Spec => ImplementsGrantLife`, that is `Spec => Life!Spec` |
| TransactionProofs | `DeadlockCause` | `WaitSpec => []DeadlocksHaveCause` |
| | `RevocationReaches`, `CleanupSpares` | `Spec => RevocationReachesWhatItSaw`, `Spec => CleanupOnlyExpired` |
| | `EndsForCause` | `Spec => SessionsEndForCause` |
| | `NothingLost` | `~AutoCommit` implies `Spec => []NoTokenLost` |
| | `RevokeReachesFamily`, `WithdrawalReachesSessions`, `ReplayReachesFamily` | `OverlapSpec => RevokeMissesOnlyNewer`, `WithdrawalMissesOnlyNewer`, `ReplayMissesOnlyNewer` |
| | `RevokeForgetsWhole`, `UninstallEmpties` | `OverlapSpec => RevokeForgetsUnlessRenewed`, `UninstallMissesOnlyNewer` |
| FlowProofs | `FlowTypeCorrect`, `CodesSeen`, `CodesReach`, `ClientsServed` | `Spec => []FlowTypeOK`, `[]CodesWereSeen`, `[]CodesReachTheClient`, `[]RegisteredClientsServed` |
| | `ApprovalFresh`, `AccessSeen` | `Spec => ApprovalIsFresh`, `Spec => AccessWasSeen` |
| | `Phases` | `PhasesAgree` |
| SchemaProofs | `SchemaTypeCorrect`, `VersionIsTruthful`, `ReadyIsInstalled`, `LockIsReturned` | `Spec => []SchemaTypeOK`, `[]VersionTruthful`, `[]ReadyMeansInstalled`, `[]LockNotLeaked` |
| | `VersionKept` | `Spec => NeverDowngraded` |
| LimiterProofs | `ThrottleTypeCorrect`, `MemoryIsBounded` | `Spec => []ThrottleTypeOK`, `[]MemoryBounded` |
| | `LimitIsKept`, `GuessesAreBounded`, `RefusalsEarned` | `Spec => []LimitPerStore`, `[]GuessesBounded`, `[]RefusalsAreEarned` |

`Spec` is the specification of the component the module proves about; `WaitSpec` and
`OverlapSpec` are those of RequestWaits and Overlap. All hold for every value
of the constants: any requests, users, clients, scopes, resources, codes, tokens, TTLs and both
values of `AutoCommit`, but for `NothingLost` (the store); any paths, hosts, URLs, registrations and issuer setting
(the flow); any processes, code versions, tables and numbers of attempts (the schema); any workers, keys,
limits, windows and bound on the memory (the limiter). The assumptions are

* `StoreConstants` (the marks for "no row" are not rows), `KeysDisjoint` (primary keys of
  different tables, and requests, are different values) and `Limits` (the constants have their
  types); for the refinement also `HolderKinds` (the mark of an ended grant is no code, no token
  and not the mark of one that was never issued);
* `PathConstants` (paths are sequences of segments, two for a container; a fixed issuer is an
  origin and a path), `MetadataConstants` and `FlowConstants` (the constants have their types);
* `SchemaConstants` (types, positive versions, and no process both serves and migrates);
* `LimiterConstants` (types; limits, windows and the number of tracked keys are positive).

### The store and its requests

`TypeOK` is not inductive: that a token row is inserted under a token's key needs to know that
`job[r].new` is a token when the request is at `chain`. `Typed` adds `Fits`: the locals each
label relies on.

`OneRightPerGrant` says that a code is either itself in the table, or has exactly one live
token, or (statement by statement) one request about to store that token. The invariant it
needs is `IInv`:

* `RowLocks`: two transactions never hold versions of one row.
* `Names`: an identifier about to be sent is known to its request only (`NewIsSecret`), and
  everything presented, and every code a stored token names, has been sent
  (`SentBeforeUse`). So a code that is being created cannot have tokens yet.
* `Paid`: in a transaction, an uncommitted live token exists only beside an uncommitted
  version, of the same transaction, that takes away a *committed* right of the same code
  (`Claims`). By `RowLocks` nobody else can take that right, so it is still there at commit,
  and by `OneRightPerGrant` it is the only one: the commit replaces one right by one.
* `OnlyDeletes`: statement by statement, only the cleanup has anything uncommitted, and it
  only deletes; then `Issue`, `Consume`, `Mint`, `Retire` and `Chain` hand the right on
  directly.

Most steps are `Quiet` (they bring no code or token to life) and are dispatched by one lemma
per part of the invariant.

`SpentStaysSpent` and `OneSuccessor` follow from `UseInv` on top of `IInv`: what a request has
taken (the code it deleted, the token it retired) is gone from what it sees (`TakenIsGone`) and
no other request has taken it (`OneTaker`); what has been traded, in a reply that was sent, is
gone for everybody (`TradedIsGone`); and a request that holds something to hand out got it by
taking something (`Handing`). The lemma `SpentStep` says that no step makes a spent code or
token usable, so the second taker `OneTaker` and `TradedIsGone` exclude would have needed a
row that cannot be there.

`ChainsLinked` and `WithinApproved` follow from `LineInv` on top of `IInv`. A token row is
stored once and then only gets `Later`: it is revoked, which keeps its grant, code and origin,
or deleted. `InLine` says of a set of rows that successors and predecessors agree and that
every grant is within the one its code was issued for. It holds of the committed rows and of
what each request sees (`view`), because an open transaction holds `Later` versions of committed
rows beside the one token it is about to send (`Versions`); so a commit, which changes what
every other transaction sees, merges two sets of rows that are in line into one that is
(`MergeLine`: by `RowLocks` they wrote different rows). `JobLine` is what a handler between two
statements still owes: the narrowed grant is within its source, and the retired token expects
the identifier that is about to be stored.

`Refinement` maps each code to the holder of its right. `OneRightPerGrant` makes that a
function: at most one code, token or request has `Held` the grant, so `HolderIs` gives the
holder before and after a step from what the step did to `Held` alone. In transactions every
step but a commit is a stutter of `GrantLife`; a commit is `Issue`, `HandOn` or `End`, and
which one needs `OwnWrites`, inductive on top of `IInv`, `UseInv` and `LineInv`: a transaction
that will hand a right on, or issue a code, has written no other codes and tokens (its
`Footprint`), and what is stored has been sent. Statement by statement `Issue` is the abstract
`Issue`; `Consume` and `Retire` leave the holder alone, for the request stands for what it took;
`Mint` and `Chain` are `HandOn`; any other step, a failure included, only ends grants. An ended
grant stays ended since a held one has been issued (`Issued`).

`TransactionProofs` is about what a transaction has written and has not committed.

* `LockInv` and `KeepInv`: when a request reaches a statement it has written rows of the tables
  of its statements before, and no others (`MayLock`), and has locked, row by row, at most
  those it selected (`MayKeep`). A request that waits with nothing locked is in no cycle, which
  leaves three kinds of requests (`DeadlockedStuck`): a revocation at the tokens, `/oauth/revoke`
  at the consent and a purge at a table. If all of a cycle took consents before tokens, each is
  `Orderly`: it waits for a row at some `Level`, and holds rows below it or rows of that level it
  selected. Levels cannot rise for ever (`NoClimb`), so two at the highest one wait for each
  other's selected rows (`OrderlyShare`); in the other order likewise (`Depth`).
* `EndInv`: a row that a request has selected, or ended and not committed, is one it has a
  reason to end. The reason has to outlive what other requests commit between the snapshot and
  the locks, and it does since a stored row only gets `Later` (`StoredStays`): it keeps its
  code and grant, its expiry does not move, and an identifier is not stored a second time.
  What an UPDATE has found is not live for its request any more (`Row(r, t)`).
  `EndedByStep` then says that the step that ends a session is one of a request with a reason.
* `LossInv`: the INSERT that follows a rotation's UPDATE is in the same transaction, so what
  commits a retired token commits its successor, which expires no earlier. A cleanup that
  deletes the successor therefore finds the predecessor expired, and an uninstall, which selects
  all tokens at once, has selected the predecessor too.
* What an answer means is `ServeInv`: from the snapshot to the answer every live token the
  answer speaks of is among those selected or in `meanwhile` (`Reaches`), a code that was found
  active has no other live token (`Unspent`), and a revocation has deleted the consent under its
  token's own grant (`Forgets`), which is the approved one up to a narrowing. A step of another
  request that could break one of them is a commit, and `Observe` notes what it changes. `EmptyInv`: an
  uninstall has emptied the tables before the one it is at (`Emptied`), again but for what is
  in `meanwhile`.

### The flow

One invariant, `FlowInv`, carries all theorems: the types, that every holder of a row is a
registered client (`HoldersRegistered`), that stored redirect URIs passed registration
(`RedirectsValid`), that registered clients are served, that every consent, code and token goes
back to an allowed form (`ConsentsWereSeen`, `CodesWereSeen`, `TokensWereSeen`) and that codes
reach their client. `TokensWereSeen` also fixes the issuer of a token to that of its client's
container under some origin; `AccessWasSeen` needs it, since the check at an MCP path compares
strings and would otherwise accept another container's token. `Phases` is about the operators of
ResourceIndicators alone.

### The schema

`SchemaInv` adds to the types: `DbSound` (the version row is truthful, a meta table stands beside complete tables only, and
unversioned tables have version 1's columns),
`LockIsHeld` (the counter of the advisory lock is the number of times its holder took it) and,
for each process, `Role` (what its label implies about the lock), `Learned` (facts it read that
nobody can undo: a meta table stays, a version only grows, and tables are never dropped) and
`Exact` (what a holder of the lock has read is still so, for everybody who writes holds it).
A worker becomes ready on `Learned` facts only: it does not hold the lock.

### The limiter

* `Base`: the types, that every handler in mid-call has what its next step needs (`Handled`),
  that `_windows` has every key at most once and no more of them than its bound, and that no
  call is later than the clock. `PrunedKeys` and `Tracking` are about the one list operation,
  moving or adding a key and dropping the oldest.
* `WorkerWindows`, for `LimitIsKept`: a window never holds more hits than the limit, and one
  that is not `loose` holds every recent hit that was let pass. So the hits let pass within the
  window are a subset of a set that is small enough. In Redis (`RedisWindows`) the same is said
  of the stored window and of the copy a handler has between GET and SET; that the two agree
  needs that only one handler is at work on the key (`OnKey`), which is when the window is not
  `loose`, and that a window is forgotten no earlier than its last hit (`Kept`).
* `Guesses`, for `GuessesAreBounded`: a handler that is verifying a password while the window is
  full has not failed in the current round, since the failure that filled it began that round
  and the handler's own check came before; and since a failure of the window there are as many
  hits in it as there were rounds. The hits are no more than the limit (`WorkerWindows`).
* `Accounted`, for `RefusalsEarned`: requests are numbered, no two handlers have the same one,
  and the hits of a window are of different requests that are not handled any more
  (`Distinct`, `Fresh`). Every hit of a window, a copy included, was let pass by some store
  (`Earned`), at that time or later: a hit whose SET fails is counted in memory with a time of
  its own. A full window therefore shows as many different requests as the limit; the theorem
  counts them by an injection into the numbers of what was let pass.

### Only model-checked

* Liveness (`EveryRequestEnds`, `ExpiredRowsGo`), out of TLAPS' reach. Every other property of a
  passing run is proved.

TLC checked each inductive invariant on the instances above before it was proved.

## 5. Disagreements between the code and what is said of it

Checked by a run that TLC finds violated:

* `race_revoke`: `README.rst:456` and `storage/interfaces.py:75` say a revocation ends the
  whole family. A rotation that inserts its new token after the UPDATE took its snapshot
  leaves that token live.
* `forget_narrowed`: `revoke.py:47` means to drop the remembered consent; the key is built
  from the presented token's scope and resource, which may be narrower than the consent's.
* `schema_newer`: `README.rst:282` says a newer schema always raises; a worker that waited for
  the lock ignores the CODE_TOO_OLD it gets back and starts.
* `schema_fresh`: `README.rst:193` says a fresh database is installed automatically with any
  number of workers; one whose questions straddle another's commit reads UNVERSIONED or
  PARTIAL and starts without the cleanup task, or refuses to start with `schema_strict`.

Seen in the same models, without a listed run. The grant:

* When the consent asked for was granted meanwhile, in another tab, the decision on the form is
  not looked at: "deny" issues a code (`Decide` goes to `issue` whatever the decision;
  `api/templates/consent.html:25` says a denial returns `access_denied`).
* Two requests that revoke, withdraw, clean up or uninstall may deadlock on rows of one table,
  and one of them fails: the statements lock their rows in no order (`repository.py:249`, `:541`).
* The loser of two concurrent exchanges of one code is refused without revoking the winner's
  token, though a second use of a code revokes when it comes later (`token.py:60` and `:83`).
* A consent withdrawal misses a token that a concurrent exchange or rotation stores
  (`consents.py:64`), for the reason of `race_revoke`; the Overlap properties say that nothing
  else is missed.
* A cleanup that waits for a consent deletes it although its expiry was refreshed meanwhile.
* A request that passed the installed check commits rows after the uninstall deleted the
  container's, or while it does.
* With `AutoCommit`, a failure between the two statements of a rotation or an exchange loses
  the session (`NoTokenLost` is checked for transactions only); `OneRightPerGrant` and
  `GrantLife` hold all the same.
* `mark_existing_schema_as_v1` is two statements outside a transaction. A crash in between
  leaves a meta table without a version, which every later start and command calls partial.
* A database that fails in every run of the cleanup starves the ones after it
  (`storage/utility.py:172`).
* `README.rst:227` wants `OAUTH_BASELINE_COLUMNS` kept as the columns of version 1, while
  `tests/test_oauth_schema_migration.py:217` compares them with a fresh installation of the
  current version. The two agree only as long as the version is 1.

The limiter:

* With Redis two overlapping calls on one key write back the window they read: a hit is lost,
  or hits of others come back, so that more than the limit pass (`LimitPerStore` excepts them;
  `utils/ratelimit.py:141`).
* One failed connection makes a worker use its own memory until it is restarted, so the limit
  holds per worker from then on.
* A SET whose answer is lost may have counted the hit, which is then counted in memory too. A
  SET of a handler that was cancelled, or of a worker that was killed, may count a hit nobody was
  let pass for, and refuse the next caller (`torn`; `ratelimit.py:135`).
* Logins that are checked at the same time are counted afterwards: more passwords than the limit
  are tried, up to one for each handler between two counted failures (`GuessesBounded` says so;
  `authorize.py:172`).
* A worker that is restarted, or tracks too many keys, forgets windows, and the limit with them
  (`LimitPerStore` and `GuessesBounded` except them).

The flow:

* Of a loopback redirect URI neither the user, the params of the last segment nor the fragment is
  compared, beside the port (`flow/clients.py:61`): `http://u@localhost/cb;x#f` goes for
  `http://localhost/cb`, although the registration refuses fragments.
* A `resource` parameter of blanks is no resource: it is not empty when `indicators/grant.py:34`
  looks, and is when the list is returned. The grant has no resource and its tokens no
  audience, where a missing parameter means the container's own.
* Outside of containers, at `/` and `/db`, a bearer token is accepted with neither its issuer nor
  its audience looked at (`auth/validators.py:51`), if its user is found there: what the form
  showed limits nothing but the scope.
* A code approved under one Host and exchanged under another yields a token with the issuer of
  the second and the audience of the first, which no path accepts.
* With a pinned issuer all containers share it. A token may then be asked for, and shown on the
  form, for another container's MCP path; and where its path is not the container's, the
  document that a challenge names is not found (`PhasesAgree` assumes it is).
* A csrf token may be used again as long as it is fresh.
* Repeated scopes or resources in a request make another consent key.

## 6. What is left

All modules planned at the start are written, and every invariant and action property that a
passing run checks is proved. What may follow: resolvers of other packages beside the MCP
integration's.

*Not modelled.* Cryptography (`flow/keys.py`, `utils/crypto.py`, `flow/pkce.py` beyond its
boolean, the signature and expiry of a JWT): hashing is injective and signatures are
unforgeable here. The authorization-server document, which is a constant record over the
issuer. Pages, templates and the parsing of forms and headers, which keep no state; repeated
entries of lists. The middleware that adds a challenge to a 401. `delete_code` and
`revoke_refresh_token` of the store, which nothing calls.

## 7. Running

```
tlc -workers 2 -config concurrent.cfg MCGrants.tla      # those of MCGrants alike
tlc -workers 2 -config answers.cfg MCAnswers.tla
tlc -workers 2 -config locks.cfg MCLoop.tla
tlc -workers 2 -config throttle.cfg MCRateLimiter.tla
tlc -workers 2 -config front.cfg MCFlow.tla
tlc -workers 2 -config schema.cfg MCSchema.tla          # schema_newer, schema_fresh alike
tlapm GrantTypeProofs.tla                               # the other *Proofs modules alike
```
