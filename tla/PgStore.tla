------------------------------ MODULE PgStore ------------------------------
(***************************************************************************)
(* The part of PostgreSQL the OAuth store relies on: rows that are read    *)
(* and written by concurrent transactions at the READ COMMITTED isolation  *)
(* level.  It is not code of this repository; it is modelled from how      *)
(* storage/pg/repository.py uses it.                                       *)
(*                                                                         *)
(* A transaction reads the committed rows under its own uncommitted ones.  *)
(* Writing a row locks it until the transaction ends: nobody else can      *)
(* write it meanwhile, everybody else still reads the committed version.   *)
(* A statement run outside a transaction block commits by itself.          *)
(***************************************************************************)
CONSTANTS Txn,         \* the sessions that may hold a transaction
          Key,         \* primary keys of all tables
          Absent,      \* "there is no such row"
          Untouched    \* "this transaction has not written the row"

VARIABLES committed,   \* [Key -> row or Absent]
          dirty        \* [Txn -> [Key -> row, Absent or Untouched]]

NoWrites == [k \in Key |-> Untouched]

Overlay(base, w) == [k \in Key |-> IF w[k] = Untouched THEN base[k] ELSE w[k]]

\* The version of row k that a SELECT of transaction t returns.
Row(t, k) == IF dirty[t][k] = Untouched THEN committed[k] ELSE dirty[t][k]

\* A write of t to a row of K would wait for another transaction.
Blocked(t, K) == \E k \in K, u \in Txn \ {t} : dirty[u][k] # Untouched

\* One INSERT, UPDATE or DELETE of transaction t: w holds the new versions.
\* With auto the statement is not inside a transaction block.
Write(t, w, auto) ==
  /\ ~Blocked(t, {k \in Key : w[k] # Untouched})
  /\ IF auto
       THEN committed' = Overlay(committed, w) /\ UNCHANGED dirty
       ELSE dirty' = [dirty EXCEPT ![t] = Overlay(@, w)] /\ UNCHANGED committed

Commit(t) ==
  /\ committed' = Overlay(committed, dirty[t])
  /\ dirty' = [dirty EXCEPT ![t] = NoWrites]

Rollback(t) ==
  /\ dirty' = [dirty EXCEPT ![t] = NoWrites]
  /\ UNCHANGED committed

PgInit(rows) ==
  /\ committed = rows
  /\ dirty = [t \in Txn |-> NoWrites]
=============================================================================
