---------------------------- MODULE RequestWaits ----------------------------
(***************************************************************************)
(* Who waits for whom: the row locks of concurrent requests, the deadlocks *)
(* they can close, and what ends a request all the same.                   *)
(*                                                                         *)
(* PostgreSQL locks the rows of an UPDATE or DELETE one after the other,   *)
(* in no order the code can rely on, and keeps those it has while it waits *)
(* for the next.  OAuthGrants writes them all in one step, which is the    *)
(* step that follows the last lock: a locked row does not change, and the  *)
(* versions written before that are seen by nobody else.  So this module   *)
(* adds the locks and leaves the rows alone: a step here is one of         *)
(* OAuthGrants or changes only the locks.                                  *)
(***************************************************************************)
EXTENDS GrantProperties

VARIABLE locked   \* [Req -> the rows its statements on many rows have locked]

waitVars == <<vars, locked>>

WaitInit == Init /\ locked = [r \in Req |-> {}]

\* The next statement of r writes rows it selected before.
ManyRows(r) == pc[r] \in {"revoking", "purge"}

Holds(q, k) == dirty[q][k] # Untouched \/ k \in locked[q]
Taken(r, k) == \E q \in Req \ {r} : Holds(q, k)

\* The rows the next statement of r has yet to lock.  One that is gone is skipped, but
\* one whose deletion is not committed is waited for.
Wanted(r) ==
  CASE pc[r] = "consume" -> {k \in {job[r].key} : CodeActive(r, k, Now(r))}
    [] pc[r] = "retire"  -> {k \in {job[r].key} : RefreshValid(r, k, Now(r))}
    [] pc[r] \in {"forget", "withdraw"} -> StoredRows(r, {job[r].grant})
    [] pc[r] = "approve" -> {job[r].grant}
    [] ManyRows(r)       -> {k \in job[r].hit \ locked[r] : Row(r, k) # Absent \/ Taken(r, k)}
    [] OTHER -> {}

\* A statement on many rows locks any one of those it still wants.
LockRow(r) ==
  /\ ManyRows(r)
  /\ \E k \in Wanted(r) : ~Taken(r, k) /\ locked' = [locked EXCEPT ![r] = @ \cup {k}]
  /\ UNCHANGED vars

\* Locks are kept to the end of the transaction.
Release(r) ==
  locked' = [locked EXCEPT ![r] = IF pc'[r] = "idle" \/ (AutoCommit /\ job[r].op # "cleanup")
                                    THEN {} ELSE @]

\* The next statement of r runs, with the lock of every row it writes.
Execute(r) ==
  /\ \A k \in Wanted(r) : ~ManyRows(r) /\ ~Taken(r, k)
  /\ Step(r) /\ Release(r)

Drop(r) == Fail(r) /\ Release(r)

WaitNext ==
  \/ \E r \in Req : \/ LockRow(r) \/ Execute(r) \/ Drop(r)
                    \/ \E op \in AllOps : Begin(r, op) /\ UNCHANGED locked
  \/ (Tick \/ Install) /\ UNCHANGED locked

WaitSpec == WaitInit /\ [][WaitNext]_waitVars

-----------------------------------------------------------------------------
WaitsFor(r, q) == r # q /\ \E k \in Wanted(r) : Holds(q, k)

\* Every request of S waits for one of S, and is waited for by one of S.
Deadlocked(S) ==
  /\ S # {}
  /\ \A r \in S : (\E q \in S : WaitsFor(r, q)) /\ (\E q \in S : WaitsFor(q, r))

\* PostgreSQL's deadlock detector ends a transaction of a cycle.
Victim(r) == (\E S \in SUBSET Req : r \in S /\ Deadlocked(S)) /\ Drop(r)

\* The bound on random identifiers: a request that finds none left is ended.
Exhausted(r) ==
  /\ \/ pc[r] = "issue" /\ FreshCodes = {}
     \/ pc[r] \in {"mint", "retire"} /\ FreshTokens = {}
     \/ pc[r] = "register" /\ Client \subseteq generated
  /\ Drop(r)

\* A request that locks tokens before consents (/oauth/revoke, cleanup_expired) and one
\* that locks consents before tokens (/oauth/consents, delete_container_data) are in S.
OppositeOrders(S) ==
  /\ \E r \in S : job[r].op \in {"revoke", "cleanup"}
  /\ \E r \in S : job[r].op \in {"consents", "uninstall"}

\* Two requests of S are locking rows they both selected.
SharedRows(S) ==
  \E q, r \in S : q # r /\ ManyRows(q) /\ ManyRows(r) /\ job[q].hit \cap job[r].hit # {}

\* A deadlock closes in one of two ways: requests take the tables in opposite orders, or
\* two UPDATEs or DELETEs lock the rows they share in different orders (two cleanups,
\* two withdrawals, a replayed code beside a revocation).  A request in one is at an
\* UPDATE or DELETE of many rows or forgets a consent after one: authorizing, trading a
\* code and rotating a token never are.
DeadlocksHaveCause ==
  \A S \in SUBSET Req : Deadlocked(S) =>
     /\ \A r \in S : ManyRows(r) \/ pc[r] = "forget"
     /\ OppositeOrders(S) \/ SharedRows(S)

\* Every request is answered or fails, whatever locks it meets.
EveryRequestEnds == \A r \in Req : []<>(pc[r] = "idle")
=============================================================================
