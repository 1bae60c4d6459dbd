-------------------------- MODULE SchemaBootstrap --------------------------
(***************************************************************************)
(* storage/pg/schema_ops.py, ensure_oauth_schema and the oauth-migrate     *)
(* command: workers that start and operators that migrate, possibly with   *)
(* different versions of the code, on one database.                        *)
(*                                                                         *)
(* get_schema_status asks for one table after another, outside any         *)
(* transaction, so each question is a step.  DDL, the version and COMMIT   *)
(* of an installation or a migration are one step: nobody else sees part   *)
(* of it.  The advisory lock belongs to a session and is reentrant.        *)
(***************************************************************************)
EXTENDS Integers, FiniteSets

CONSTANTS Worker,        \* server processes: initialize, at startup
          Migrator,      \* oauth-migrate commands
          CodeVersion,   \* OAUTH_SCHEMA_VERSION of the code each of them runs
          Registered,    \* the keys of OAUTH_MIGRATIONS
          TableCount,    \* length of OAUTH_TABLE_NAMES
          Retries,       \* attempts to get the lock after the first one
          Strict,        \* schema_strict
          Nobody

Proc  == Worker \cup Migrator
Table == 1 .. TableCount

NoMeta == -2   \* there is no table oauth_schema_meta
NoRow  == -1   \* it is empty

ASSUME SchemaConstants ==
  /\ Worker \cap Migrator = {} /\ Nobody \notin Proc
  /\ CodeVersion \in [Proc -> Nat \ {0}]
  /\ TableCount \in Nat \ {0} /\ Retries \in Nat
  /\ Strict \in BOOLEAN

VARIABLES tables,   \* the OAuth tables that exist
          shape,    \* the version whose columns they have, 0 for none
          meta,     \* the version in oauth_schema_meta, NoRow or NoMeta
          lock,     \* the advisory lock
          pc,       \* [Proc -> where the process is]
          me,       \* [Proc -> its local variables]
          fresh     \* ghost: there was no OAuth table to begin with

vars == <<tables, shape, meta, lock, pc, me, fresh>>
db   == <<tables, shape, meta>>

Local == [meta |-> FALSE, seen |-> 0, next |-> 1, status |-> "unknown",
          then |-> "idle", tries |-> 0, dry |-> FALSE, current |-> 0]

Free == [by |-> Nobody, depth |-> 0]

\* Empty, unversioned (of version 1, or not compatible with it), partial, versioned.
Init ==
  /\ \E t \in SUBSET Table, s \in Nat \cap ({0, 1} \cup {CodeVersion[p] : p \in Proc}),
        v \in {NoMeta} \cup {CodeVersion[p] : p \in Proc} :
       /\ tables = t /\ shape = s /\ meta = v
       /\ IF v # NoMeta THEN t = Table /\ s = v
          ELSE IF t = Table THEN s \in {0, 1} ELSE s = 0
  /\ fresh = (meta = NoMeta /\ tables = {})
  /\ lock = Free
  /\ pc = [p \in Proc |-> "idle"]
  /\ me = [p \in Proc |-> Local]

Ended == {"ready", "warned", "refused", "done"}

Goto(p, label) == pc' = [pc EXCEPT ![p] = label]
Set(p, l)      == me' = [me EXCEPT ![p] = l]
Keep           == UNCHANGED <<db, lock, fresh>>

-----------------------------------------------------------------------------
(* get_schema_status, and what it returns to *)

ReadStatus(p, l, then) ==
  /\ Goto(p, "meta")
  /\ Set(p, [l EXCEPT !.seen = 0, !.next = 1, !.then = then])

Return(p, status) ==
  /\ Goto(p, me[p].then)
  /\ Set(p, [me[p] EXCEPT !.status = status])

ReadMeta(p) ==
  /\ pc[p] = "meta"
  /\ Set(p, [me[p] EXCEPT !.meta = (meta # NoMeta)])
  /\ Goto(p, "tables") /\ Keep

\* The loop of _check_oauth_tables.
ReadTable(p) ==
  /\ pc[p] = "tables" /\ me[p].next <= TableCount
  /\ Set(p, [me[p] EXCEPT !.next = @ + 1,
                          !.seen = @ + (IF me[p].next \in tables THEN 1 ELSE 0)])
  /\ UNCHANGED pc /\ Keep

CountTables(p) ==
  /\ pc[p] = "tables" /\ me[p].next > TableCount
  /\ LET all == me[p].seen = TableCount
     IN  IF me[p].meta /\ all THEN Goto(p, "version") /\ UNCHANGED me
         ELSE Return(p, IF ~me[p].meta /\ me[p].seen = 0 THEN "empty"
                        ELSE IF ~me[p].meta /\ all THEN "unversioned" ELSE "partial")
  /\ Keep

ReadVersion(p) ==
  /\ pc[p] = "version"
  /\ Return(p, IF meta = NoRow THEN "partial"
               ELSE IF meta = CodeVersion[p] THEN "versioned"
               ELSE IF meta < CodeVersion[p] THEN "needs_migration" ELSE "code_too_old")
  /\ Keep

-----------------------------------------------------------------------------
(* The advisory lock: pg_try_advisory_lock and pg_advisory_unlock *)

FreeForAll(p) == TRUE   \* faulty: the result of pg_try_advisory_lock is not looked at

FreeFor(p) == lock.by \in {Nobody, p}

Acquire(p) == lock' = [by |-> p, depth |-> lock.depth + 1]

ReleaseForgotten(p) == UNCHANGED lock   \* faulty: no finally

Release(p) == lock' = IF lock.depth = 1 THEN Free ELSE [lock EXCEPT !.depth = @ - 1]

-----------------------------------------------------------------------------
(* ensure_oauth_schema: ready is VERSIONED, warned any other status it returns, *)
(* refused a RuntimeError.                                                      *)

StartWorker(p) ==
  /\ pc[p] = "idle" /\ p \in Worker
  /\ ReadStatus(p, Local, "ensure") /\ Keep

Ensure(p) ==
  /\ pc[p] = "ensure"
  /\ LET s == me[p].status
     IN  Goto(p, IF s = "empty" THEN "trylock"
                 ELSE IF s = "versioned" THEN "ready"
                 ELSE IF s = "code_too_old" \/ Strict THEN "refused" ELSE "warned")
  /\ UNCHANGED me /\ Keep

-----------------------------------------------------------------------------
(* install_oauth_baseline *)

OutOfTriesLate(n) == n > Retries   \* faulty: one attempt too many
OutOfTries(n)     == n = Retries

AfterTimeoutReturns == "ready"   \* faulty: returns instead of raising
AfterTimeout == "refused"

\* ensure_oauth_schema does not look at the status that is returned.
AfterInstall(p) == IF p \in Worker THEN "ready" ELSE "unlock"

TryLock(p) ==
  /\ pc[p] = "trylock"
  /\ IF FreeFor(p)
       THEN Acquire(p) /\ ReadStatus(p, me[p], "install")
       ELSE /\ UNCHANGED lock
            /\ IF OutOfTries(me[p].tries)
                 THEN Goto(p, AfterTimeout) /\ UNCHANGED me
                 ELSE ReadStatus(p, [me[p] EXCEPT !.tries = @ + 1], "waiting")
  /\ UNCHANGED <<db, fresh>>

Waiting(p) ==
  /\ pc[p] = "waiting"
  /\ Goto(p, IF me[p].status \in {"versioned", "needs_migration"} THEN AfterInstall(p)
             ELSE "trylock")
  /\ UNCHANGED me /\ Keep

\* BEGIN, every CREATE TABLE IF NOT EXISTS, the version, COMMIT.
CreateBaseline(p) ==
  /\ tables' = Table /\ meta' = CodeVersion[p]
  /\ shape' = IF tables = {} THEN CodeVersion[p] ELSE shape

\* Faulty: the status is not read again under the lock.
InstallBlindly(p) ==
  /\ pc[p] = "install"
  /\ CreateBaseline(p)
  /\ Goto(p, "release") /\ UNCHANGED <<lock, me, fresh>>

Install(p) ==
  /\ pc[p] = "install"
  /\ IF me[p].status = "empty" THEN CreateBaseline(p) ELSE UNCHANGED db
  /\ Goto(p, "release") /\ UNCHANGED <<lock, me, fresh>>

\* The DDL fails and is rolled back.
InstallFails(p) ==
  /\ pc[p] = "install" /\ me[p].status = "empty"
  /\ Release(p)
  /\ Goto(p, IF p \in Worker THEN "refused" ELSE "unlock")
  /\ UNCHANGED <<db, me, fresh>>

LeaveInstall(p) ==
  /\ pc[p] = "release"
  /\ Release(p) /\ Goto(p, AfterInstall(p)) /\ UNCHANGED <<db, me, fresh>>

-----------------------------------------------------------------------------
(* OAuthMigrateCommand._migrate on one database *)

StartMigrator(p) ==
  /\ pc[p] = "idle" /\ p \in Migrator
  /\ \E dry \in BOOLEAN :
       IF FreeFor(p)
         THEN Acquire(p) /\ ReadStatus(p, [Local EXCEPT !.dry = dry], "migrate")
         ELSE Goto(p, "done") /\ UNCHANGED <<me, lock>>
  /\ UNCHANGED <<db, fresh>>

\* validate_unversioned_baseline: every column of version 1 is there.
Compatible == shape >= 1

Migrate(p) ==
  /\ pc[p] = "migrate"
  /\ LET s == me[p].status
         adopt == s = "unversioned" /\ Compatible
     IN  /\ Goto(p, IF s = "empty" /\ ~me[p].dry THEN "trylock"
                    ELSE IF adopt THEN IF me[p].dry THEN "step" ELSE "adopt"
                    ELSE IF s = "needs_migration" THEN "current" ELSE "unlock")
         /\ Set(p, [me[p] EXCEPT !.current = IF adopt THEN 1 ELSE 0])
  /\ Keep

\* mark_existing_schema_as_v1: two statements, not in a transaction.
Adopt(p) ==
  /\ pc[p] = "adopt"
  /\ meta' = IF meta = NoMeta THEN NoRow ELSE meta
  /\ Goto(p, "mark") /\ UNCHANGED <<tables, shape, lock, me, fresh>>

Mark(p) ==
  /\ pc[p] = "mark"
  /\ meta' = 1
  /\ Goto(p, "step") /\ UNCHANGED <<tables, shape, lock, me, fresh>>

ReadCurrent(p) ==
  /\ pc[p] = "current"
  /\ Set(p, [me[p] EXCEPT !.current = meta])
  /\ Goto(p, "step") /\ Keep

\* run_oauth_migrations: one version, its SQL and its number in one transaction,
\* rolled back in a dry run.
MigrateStep(p) ==
  LET v == me[p].current + 1
  IN  /\ pc[p] = "step" /\ v <= CodeVersion[p] /\ v \in Registered
      /\ Set(p, [me[p] EXCEPT !.current = v])
      /\ IF me[p].dry THEN UNCHANGED db ELSE shape' = v /\ meta' = v /\ UNCHANGED tables
      /\ UNCHANGED <<pc, lock, fresh>>

\* All done, no migration registered, or a failure, which is rolled back.
MigrateEnds(p) ==
  /\ pc[p] = "step"
  /\ Goto(p, "unlock") /\ UNCHANGED me /\ Keep

Unlock(p) ==
  /\ pc[p] = "unlock"
  /\ Release(p) /\ Goto(p, "done") /\ UNCHANGED <<db, me, fresh>>

-----------------------------------------------------------------------------
(* A process dies, and its session with it; a process starts again. *)

Crash(p) ==
  /\ pc[p] \notin Ended \cup {"idle"}
  /\ lock' = IF lock.by = p THEN Free ELSE lock
  /\ Goto(p, "done") /\ UNCHANGED <<db, me, fresh>>

Restart(p) ==
  /\ pc[p] \in Ended
  /\ Goto(p, "idle") /\ Set(p, Local) /\ Keep

Step(p) ==
  \/ ReadMeta(p) \/ ReadTable(p) \/ CountTables(p) \/ ReadVersion(p)
  \/ StartWorker(p) \/ Ensure(p)
  \/ TryLock(p) \/ Waiting(p) \/ Install(p) \/ InstallFails(p) \/ LeaveInstall(p)
  \/ StartMigrator(p) \/ Migrate(p) \/ Adopt(p) \/ Mark(p)
  \/ ReadCurrent(p) \/ MigrateStep(p) \/ MigrateEnds(p) \/ Unlock(p)

Next == \E p \in Proc : Step(p) \/ Crash(p) \/ Restart(p)

Spec == Init /\ [][Next]_vars

-----------------------------------------------------------------------------
Status == {"unknown", "empty", "versioned", "needs_migration", "code_too_old",
           "unversioned", "partial"}

Labels == Ended \cup {"idle", "meta", "tables", "version", "ensure", "trylock", "waiting",
                      "install", "release", "migrate", "adopt", "mark", "current",
                      "step", "unlock"}

\* Every variable holds what the code stores in it.
SchemaTypeOK ==
  /\ tables \subseteq Table /\ shape \in Nat /\ meta \in Nat \cup {NoRow, NoMeta}
  /\ lock \in [by : Proc \cup {Nobody}, depth : Nat]
  /\ pc \in [Proc -> Labels]
  /\ me \in [Proc -> [meta : BOOLEAN, seen : Nat, next : Nat \ {0}, status : Status,
                      then : Labels, tries : 0 .. Retries, dry : BOOLEAN,
                      current : Nat \cup {NoRow, NoMeta}]]
  /\ fresh \in BOOLEAN

\* The recorded version is the version of the tables, whoever installed, adopted and
\* migrated them with whatever version of the code (install_oauth_baseline,
\* mark_existing_schema_as_v1, run_oauth_migrations).
VersionTruthful == meta >= 0 => tables = Table /\ shape = meta

\* No step takes a recorded version back: a baseline or a migration decided on an older
\* state of the database is never applied to a newer one.
NeverDowngraded == [][meta >= 0 => meta' >= meta]_vars

\* A worker serves OAuth requests as initialized only on a complete schema with a
\* recorded version, whoever created it (ensure_oauth_schema).
ReadyMeansInstalled == \A p \in Worker : pc[p] = "ready" => tables = Table /\ meta >= 0

\* A process that has ended, however it ended, does not keep the lock from the others.
LockNotLeaked == lock.by \in Proc => pc[lock.by] \notin Ended \cup {"idle"}

\* A worker that becomes ready runs code at least as new as the schema: a newer schema
\* always raises (ensure_oauth_schema).
NewerSchemaRefused ==
  [][\A p \in Worker : pc[p] # "ready" /\ pc'[p] = "ready" => meta <= CodeVersion[p]]_vars

\* On a database without OAuth tables every worker that gets through its startup finds
\* the schema one of them installed, never a corrupt or an unversioned one.
FreshStartServes ==
  fresh => \A p \in Worker : pc[p] = "warned" => me[p].status \notin {"unversioned", "partial"}
=============================================================================
