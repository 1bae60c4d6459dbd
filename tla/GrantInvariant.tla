--------------------------- MODULE GrantInvariant ---------------------------
(***************************************************************************)
(* The inductive invariant behind TypeOK and OneRightPerGrant.             *)
(***************************************************************************)
EXTENDS GrantProperties

\* The local variables a handler has set by the time it reaches a label.
Fits(label, j) ==
  /\ label \in {"consent", "approve", "issue", "consume", "mint", "retire", "chain",
               "family", "forget", "withdraw", "sessions"} => j.grant \in Grant
  /\ label \in {"exchange", "replayed", "consume", "mint"} => j.key \in Code
  /\ label \in {"rotate", "retire", "chain", "revoke"} => j.key \in Token
  /\ label \in {"chain", "family"} => j.code \in Code
  /\ label = "chain" => j.new \in Token
  /\ label = "revoking" => j.hit \subseteq Token
  /\ label = "revoking" /\ j.op = "revoke" => j.grant \in Grant
  /\ label \in {"revoke", "family", "forget"} => j.op = "revoke"
  /\ label \in {"exchange", "replayed"} => j.op = "exchange"
  /\ label \in {"select", "purge"} => j.op \in {"cleanup", "uninstall"}
  /\ label = "select" => j.table < Len(PurgePlan(j.op))
  /\ label = "purge" => j.table \in 1 .. Len(PurgePlan(j.op))

Typed == TypeOK /\ \A r \in Req : Fits(pc[r], job[r])

\* A row is written by one transaction at a time.
RowLocks == \A q, r \in Req : \A k \in Key :
              q = r \/ dirty[q][k] = Untouched \/ dirty[r][k] = Untouched

\* The identifier a request is about to send is its own, and nobody else knows it.
NewIsSecret ==
  \A r \in Req : job[r].new # None =>
     /\ job[r].new \in generated \ Delivered
     /\ \A q \in Req : job[q].new = job[r].new => q = r

\* Clients present what they were sent, and tokens stem from codes that were sent.
SentBeforeUse ==
  /\ Delivered \subseteq generated
  /\ \A r \in Req : job[r].key \in Delivered \cup {None}
  /\ \A t \in Token : committed[t] # Absent => committed[t].code \in Delivered
  /\ \A r \in Req, t \in Token :
       dirty[r][t] \notin {Absent, Untouched} => dirty[r][t].code \in Delivered
  /\ \A r \in Req : pc[r] = "chain" => job[r].code \in Delivered

Names == NewIsSecret /\ SentBeforeUse

\* The open transaction of r takes away a committed right of code c.
Claims(r, c) ==
  \/ committed[c] # Absent /\ dirty[r][c] = Absent
  \/ \E t \in LiveTokens(c) : dirty[r][t] # Untouched /\ ~Live(dirty[r][t])

Fruitful(row) == row # Untouched /\ Live(row)

\* An uncommitted code or live token is what its request is about to send, and a token
\* is paid for with a committed right that only this request can touch.
PaidBy(r) ==
  /\ \A c \in Code : dirty[r][c] \notin {Absent, Untouched} =>
       pc[r] = "reply" /\ job[r].new = c
  /\ \A t \in Token : Fruitful(dirty[r][t]) =>
       pc[r] = "reply" /\ job[r].new = t /\ Claims(r, dirty[r][t].code)
  /\ ~AutoCommit /\ pc[r] = "mint"  => /\ committed[job[r].key] # Absent
                                       /\ dirty[r][job[r].key] = Absent
  /\ ~AutoCommit /\ pc[r] = "chain" => /\ job[r].key \in LiveTokens(job[r].code)
                                       /\ dirty[r][job[r].key] # Untouched
                                       /\ ~Live(dirty[r][job[r].key])

Paid == \A r \in Req : PaidBy(r)

\* Statement by statement, only the cleanup has a transaction, and it only deletes.
OnlyDeletes == AutoCommit => \A r \in Req, k \in Key : dirty[r][k] \in {Absent, Untouched}

IInv == Typed /\ RowLocks /\ Names /\ Paid /\ OnlyDeletes /\ OneRightPerGrant
=============================================================================
