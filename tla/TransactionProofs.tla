-------------------------- MODULE TransactionProofs --------------------------
(***************************************************************************)
(* What an open transaction has written by each of its statements, what it *)
(* is about to end, and what follows: which requests can deadlock, that a  *)
(* session ends only for a cause, that a revocation ends all it saw and    *)
(* misses only what came later, and that no rotation loses a token.        *)
(*                                                                         *)
(* LockInv says which tables a request has written when it reaches a       *)
(* statement, KeepInv which rows it has locked besides, one by one.        *)
(* EndInv says that a row it has selected, or ended and not committed, is  *)
(* one it has a reason to end; the reason outlives whatever other requests *)
(* commit meanwhile, since a stored row only gets Later.  LossInv says     *)
(* that a successor lasts as long as its predecessor and is deleted only   *)
(* after it or with it.                                                    *)
(*                                                                         *)
(* ServeInv says that a revocation has selected all it speaks of, EmptyInv *)
(* that an uninstall has emptied the tables it is done with, but for rows  *)
(* that other requests committed since theirs were read.                   *)
(***************************************************************************)
EXTENDS RefinementProofs, Overlap

-----------------------------------------------------------------------------
(* The rows a transaction has locked. *)

Locked(r) == {k \in Key : dirty[r][k] # Untouched}

\* The tables before the i-th of a purge.
Before(op, i) == UNION {PurgePlan(op)[n] : n \in 1 .. (i - 1)}

\* What a transaction may have written when its handler reaches a statement.
MayLock(label, j) ==
  CASE label \in {"issue", "sessions"} -> ConsentKey
    [] label \in {"mint", "chain"} -> {j.key}
    [] label = "revoking" -> IF j.op = "consents" THEN ConsentKey ELSE {}
    [] label = "forget" -> Token
    [] label = "select" -> Before(j.op, j.table + 1)
    [] label = "purge" -> Before(j.op, j.table)
    [] label = "reply" -> Key
    [] OTHER -> {}

\* The endpoint a statement belongs to, and the table its snapshot is of.
Route(label, j) ==
  /\ label \in {"consents", "withdraw", "sessions"} => j.op = "consents"
  /\ label = "revoking" => j.op \in {"exchange", "revoke", "consents"}
  /\ label = "purge" => j.hit \subseteq PurgePlan(j.op)[j.table]

Locking(r) == Locked(r) \subseteq MayLock(pc[r], job[r]) /\ Route(pc[r], job[r])

LockInv == \A r \in Req : Locking(r)

LEMMA LockStep ==
  ASSUME LockInv, NEW r \in Req, Others(r), \A q \in Req \ {r} : dirty'[q] = dirty[q],
         Locking(r)'
  PROVE  LockInv'
BY DEF LockInv, Locking, Locked, Others

LEMMA WriteLocked ==
  ASSUME StoreOK, NEW r \in Req, NEW w, NEW auto, Write(r, w, auto), NEW K,
         \A k \in Key \ K : w[k] = Untouched
  PROVE  Locked(r)' \subseteq Locked(r) \cup K /\ \A q \in Req \ {r} : dirty'[q] = dirty[q]
<1>1. CASE dirty' = dirty
  BY <1>1 DEF Locked
<1>2. CASE dirty' # dirty
  <2>1. dirty' = [dirty EXCEPT ![r] = Overlay(@, w)]
    BY <1>2 DEF Write
  <2>2. /\ \A q \in Req \ {r} : dirty'[q] = dirty[q]
        /\ \A k \in Key : dirty'[r][k] = IF w[k] = Untouched THEN dirty[r][k] ELSE w[k]
    BY <2>1 DEF Overlay, StoreOK
  <2> QED BY <2>2 DEF Locked
<1> QED BY <1>1, <1>2

LEMMA PutLocked ==
  ASSUME StoreOK, NEW r \in Req, NEW k, NEW row, Put(r, k, row) \/ NoRow
  PROVE  Locked(r)' \subseteq Locked(r) \cup {k} /\ \A q \in Req \ {r} : dirty'[q] = dirty[q]
<1>1. CASE NoRow
  BY <1>1 DEF NoRow, Locked
<1>2. CASE Put(r, k, row)
  <2> DEFINE w == [NoWrites EXCEPT ![k] = row]
  <2>1. \A i \in Key \ {k} : w[i] = Untouched
    BY DEF NoWrites
  <2>2. Write(r, w, AutoCommit)
    BY <1>2 DEF Put
  <2> HIDE DEF w
  <2> QED BY <2>1, <2>2, WriteLocked
<1> QED BY <1>1, <1>2

\* A step to the answer: the commit may write anything.
LEMMA FreeStep ==
  ASSUME Typed, LockInv, NEW r \in Req, Others(r), \A q \in Req \ {r} : dirty'[q] = dirty[q],
         pc'[r] = "reply"
  PROVE  LockInv'
<1>1. Locking(r)'
  BY DEF Locking, Locked, MayLock, Route
<1> QED BY <1>1, LockStep

\* A step that only reads, before the transaction has written anything.
Reads == {"authorize", "consent", "exchange", "replayed", "rotate", "revoke", "family", "consents"}

LEMMA ReadLocks ==
  ASSUME Typed, LockInv, NEW r \in Req, Others(r), dirty' = dirty, pc[r] \in Reads,
         Route(pc'[r], job'[r])
  PROVE  LockInv'
<1>1. Locked(r) = {}
  BY DEF LockInv, Locking, MayLock, Reads
<1>2. Locking(r)'
  BY <1>1 DEF Locking, Locked
<1> QED BY <1>2, LockStep

LEMMA QuietLocks ==
  ASSUME Typed, LockInv, NEW r \in Req, QuietStep(r)
  PROVE  LockInv'
<1>0. Others(r) /\ StoreOK
  BY QuietMoves DEF Typed, TypeOK
<1> DEFINE Reading == \/ Authorize(r) \/ Decide(r) \/ Exchange(r) \/ Replayed(r) \/ Rotate(r)
                      \/ Revoke(r) \/ Family(r) \/ Consents(r)
<1>1. CASE Reading /\ Refuse(r)
  <2>1. dirty' = dirty
    BY <1>1 DEF Authorize, Decide, Exchange, Replayed, Rotate, Revoke, Family, Consents
  <2> QED BY <1>0, <1>1, <2>1, RefuseMoves, FreeStep
<1>2. CASE Reading /\ ~Refuse(r)
  <2>1. dirty' = dirty /\ pc[r] \in Reads
    BY <1>2 DEF Authorize, Decide, Exchange, Replayed, Rotate, Revoke, Family, Consents, Reads
  <2>2. job'[r].op = job[r].op
    BY <1>2, QuietKeeps DEF QuietStep, Keeps
  <2>3. /\ pc[r] \in {"exchange", "replayed"} => job[r].op = "exchange"
        /\ pc[r] \in {"revoke", "family"} => job[r].op = "revoke"
        /\ pc[r] = "consents" => job[r].op = "consents"
    BY JobTyped DEF LockInv, Locking, Route, Fits
  <2>4. \/ pc[r] \in {"replayed", "family"} /\ Goto(r, "revoking")
        \/ pc[r] = "consents" /\ Goto(r, "withdraw")
        \/ \E label \in {"consent", "issue", "approve", "consume", "replayed", "retire", "family"} :
             Goto(r, label)
    BY <1>2 DEF Authorize, Decide, Exchange, Replayed, Rotate, Revoke, Family, Consents
  <2>5. Route(pc'[r], job'[r])
    BY <2>2, <2>3, <2>4, GotoMoves DEF Route
  <2> QED BY <1>0, <2>1, <2>5, ReadLocks
<1>3. CASE Register(r)
  <2>1. PICK cl : Put(r, cl, Registration[cl])
    BY <1>3 DEF Register, CreateClient
  <2> QED BY <1>0, <1>3, <2>1, PutLocked, GotoMoves, FreeStep DEF Register
<1>4. CASE Approve(r)
  <2> DEFINE g == job[r].grant
             row == [expires |-> IF ConsentTTL = 0 THEN Never ELSE Now(r) + ConsentTTL]
  <2>1. Put(r, g, row) /\ pc[r] = "approve"
    BY <1>4 DEF Approve, CreateConsent
  <2>2. pc'[r] = "issue" /\ g \in ConsentKey
    BY <1>4, JobTyped, GotoMoves DEF Approve, Fits, ConsentKey
  <2> HIDE DEF row
  <2>3. Locked(r)' \subseteq ConsentKey /\ \A q \in Req \ {r} : dirty'[q] = dirty[q]
    BY <1>0, <2>1, <2>2, PutLocked DEF LockInv, Locking, MayLock
  <2>4. Locking(r)'
    BY <2>2, <2>3 DEF Locking, MayLock, Route
  <2> QED BY <1>0, <2>3, <2>4, LockStep
<1>5. CASE Withdraw(r)
  <2> DEFINE g == job[r].grant
  <2>1. (Put(r, g, Absent) \/ NoRow) /\ pc[r] = "withdraw" /\ job' = job
    BY <1>5 DEF Withdraw, DeleteConsent
  <2>2. pc'[r] = "sessions" /\ g \in ConsentKey
    BY <1>5, JobTyped, GotoMoves DEF Withdraw, Fits, ConsentKey
  <2>3. Locked(r)' \subseteq ConsentKey /\ \A q \in Req \ {r} : dirty'[q] = dirty[q]
    BY <1>0, <2>1, <2>2, PutLocked DEF LockInv, Locking, MayLock
  <2>4. Locking(r)'
    BY <2>1, <2>2, <2>3 DEF LockInv, Locking, MayLock, Route
  <2> QED BY <1>0, <2>3, <2>4, LockStep
<1>6. CASE Sessions(r)
  <2>1. pc[r] = "sessions" /\ pc'[r] = "revoking" /\ dirty' = dirty
    BY <1>6, GotoMoves DEF Sessions
  <2>2. ~Refuse(r)
    BY <2>1, RefuseMoves
  <2>3. job'[r].op = "consents"
    BY <1>6, <2>1, <2>2, QuietKeeps DEF QuietStep, Keeps, LockInv, Locking, Route
  <2>4. Locking(r)'
    BY <2>1, <2>3 DEF LockInv, Locking, Locked, MayLock, Route
  <2> QED BY <1>0, <2>1, <2>4, LockStep
<1>7. CASE Revoking(r)
  <2> DEFINE w == RevokedRows(r, job[r].hit)
  <2>1. /\ job[r].hit \subseteq Token /\ pc[r] = "revoking" /\ job' = job
        /\ pc'[r] = AfterRevoking(job[r].op)
    BY <1>7, JobTyped, GotoMoves DEF Revoking, Fits
  <2>2. Write(r, w, AutoCommit)
    BY <1>7 DEF Revoking, RevokeRows, RevokedRows
  <2>3. \A k \in Key \ Token : w[k] = Untouched
    BY <2>1 DEF RevokedRows
  <2> HIDE DEF w
  <2>4. Locked(r)' \subseteq Locked(r) \cup Token /\ \A q \in Req \ {r} : dirty'[q] = dirty[q]
    BY <1>0, <2>2, <2>3, WriteLocked
  <2>5. CASE job[r].op = "revoke"
    <3>1. Locking(r)'
      BY <2>1, <2>4, <2>5 DEF AfterRevoking, LockInv, Locking, MayLock, Route
    <3> QED BY <1>0, <2>4, <3>1, LockStep
  <2>6. CASE job[r].op # "revoke"
    BY <1>0, <2>1, <2>4, <2>6, FreeStep DEF AfterRevoking
  <2> QED BY <2>5, <2>6
<1>8. CASE Forget(r)
  <2>1. Put(r, job[r].grant, Absent) \/ NoRow
    BY <1>8 DEF Forget, DeleteConsent
  <2> QED BY <1>0, <1>8, <2>1, PutLocked, GotoMoves, FreeStep DEF Forget
<1>9. CASE Select(r)
  <2> DEFINE n == job[r].table + 1
             table == PurgePlan(job[r].op)[n]
  <2>1. /\ pc[r] = "select" /\ job[r].table \in Nat /\ dirty' = dirty /\ pc'[r] = "purge"
    BY <1>9, JobTyped, GotoMoves DEF Select, Job
  <2>2. PICK K \in SUBSET table : Keep(r, [job[r] EXCEPT !.hit = K, !.table = n])
    BY <1>9 DEF Select, NextTable, ExpiredBatch, StoredRows
  <2> DEFINE j == [job[r] EXCEPT !.hit = K, !.table = n]
  <2> HIDE DEF n
  <2>3. j.op = job[r].op /\ j.hit = K /\ j.table = n
    BY JobTyped DEF Job
  <2>4. K \subseteq PurgePlan(j.op)[j.table]
    BY <2>2, <2>3
  <2> HIDE DEF j
  <2>5. job'[r] = j
    BY <2>2, KeepMoves DEF j
  <2>6. Locked(r)' \subseteq Before(j.op, j.table)
    BY <2>1, <2>3 DEF n, LockInv, Locking, Locked, MayLock
  <2>7. Locking(r)'
    BY <2>1, <2>3, <2>4, <2>5, <2>6 DEF Locking, MayLock, Route
  <2> QED BY <1>0, <2>1, <2>7, LockStep
<1>10. CASE Purge(r)
  <2> DEFINE op == job[r].op
             i == job[r].table
             w == [k \in Key |-> IF k \in StoredRows(r, job[r].hit) THEN Absent ELSE Untouched]
             auto == AutoCommit /\ op # "cleanup"
  <2>1. pc[r] = "purge" /\ job' = job /\ pc'[r] \in {"reply", "select"} /\ i \in Nat
    BY <1>10, JobTyped, GotoMoves DEF Purge, Job
  <2>2. /\ job[r].hit \subseteq PurgePlan(op)[i] /\ Locked(r) \subseteq Before(op, i)
        /\ i \in 1 .. Len(PurgePlan(op))
    BY <2>1, JobTyped DEF LockInv, Locking, MayLock, Route, Fits
  <2>3. Write(r, w, auto)
    BY <1>10 DEF Purge, DeleteRows
  <2>4. \A k \in Key \ job[r].hit : w[k] = Untouched
    BY DEF StoredRows
  <2> HIDE DEF w, auto
  <2>5. Locked(r)' \subseteq Locked(r) \cup job[r].hit /\ \A q \in Req \ {r} : dirty'[q] = dirty[q]
    BY <1>0, <2>3, <2>4, WriteLocked
  <2>6. CASE pc'[r] = "select"
    <3>1. Before(op, i) \cup PurgePlan(op)[i] \subseteq Before(op, i + 1)
      <4>1. i \in 1 .. (i + 1 - 1) /\ 1 .. (i - 1) \subseteq 1 .. (i + 1 - 1)
        BY <2>1, <2>2
      <4> QED BY <4>1 DEF Before
    <3>2. Locking(r)'
      BY <2>1, <2>2, <2>5, <2>6, <3>1 DEF Locking, MayLock, Route
    <3> QED BY <1>0, <2>5, <3>2, LockStep
  <2>7. CASE pc'[r] = "reply"
    BY <1>0, <2>5, <2>7, FreeStep
  <2> QED BY <2>1, <2>6, <2>7
<1> QED
  BY <1>1, <1>2, <1>3, <1>4, <1>5, <1>6, <1>7, <1>8, <1>9, <1>10 DEF QuietStep

LEMMA ConsumeLocks ==
  ASSUME Typed, LockInv, NEW r \in Req, Consume(r)
  PROVE  LockInv'
<1>0. Others(r) /\ job' = job /\ pc[r] = "consume" /\ StoreOK
  BY ConsumeMoves DEF Consume, Typed, TypeOK
<1>1. (Put(r, job[r].key, Absent) \/ NoRow) /\ pc'[r] \in {"mint", "reply"}
  BY GotoMoves DEF Consume, ConsumeCode
<1>2. Locked(r)' \subseteq {job[r].key} /\ \A q \in Req \ {r} : dirty'[q] = dirty[q]
  BY <1>0, <1>1, PutLocked DEF LockInv, Locking, MayLock
<1>3. Locking(r)'
  BY <1>0, <1>1, <1>2 DEF Locking, Locked, MayLock, Route
<1> QED BY <1>0, <1>2, <1>3, LockStep

LEMMA RetireLocks ==
  ASSUME Typed, LockInv, NEW r \in Req, Retire(r)
  PROVE  LockInv'
<1>0. Others(r) /\ pc[r] = "retire" /\ StoreOK
  BY RetireMoves DEF Retire, Typed, TypeOK
<1>1. CASE Lapse(r)
  BY <1>0, <1>1, FreeStep DEF Lapse, NoRow
<1>2. CASE ~Lapse(r)
  <2>1. PICK n \in Token : RetireFacts(r, n)
    BY <1>2, RetireMoves
  <2>2. /\ Put(r, job[r].key, [Row(r, job[r].key) EXCEPT !.revoked = TRUE, !.next = n])
        /\ job'[r].key = job[r].key /\ pc'[r] = "chain"
    BY <2>1 DEF RetireFacts, RetireToken
  <2>3. Locked(r)' \subseteq {job[r].key} /\ \A q \in Req \ {r} : dirty'[q] = dirty[q]
    BY <1>0, <2>2, PutLocked DEF LockInv, Locking, MayLock
  <2>4. Locking(r)'
    BY <2>2, <2>3 DEF Locking, MayLock, Route
  <2> QED BY <1>0, <2>3, <2>4, LockStep
<1> QED BY <1>1, <1>2

\* The statements that store what the answer sends.
LEMMA BornLocks ==
  ASSUME Typed, LockInv, NEW r \in Req, Issue(r) \/ Mint(r) \/ Chain(r)
  PROVE  LockInv'
<1>1. Others(r) /\ pc'[r] = "reply" /\ StoreOK
  BY IssueMoves, MintMoves, ChainMoves DEF IssueFacts, MintFacts, Typed, TypeOK
<1>2. \E k, row : Put(r, k, row)
  BY DEF Issue, CreateCode, Mint, CreateRefreshToken, Chain, ChainToken
<1> QED BY <1>1, <1>2, PutLocked, FreeStep

LEMMA EndLocked ==
  ASSUME Typed, LockInv, NEW r \in Req, Finish(r) \/ Fail(r)
  PROVE  LockInv'
<1>1. Others(r) /\ pc'[r] = "idle"
  BY EndMoves
<1>2. (\A k \in Key : dirty'[r][k] = Untouched) /\ \A q \in Req \ {r} : dirty'[q] = dirty[q]
  BY CommitFacts, FailQuiet DEF Quiet
<1>3. Locking(r)'
  BY <1>1, <1>2 DEF Locking, Locked, MayLock, Route
<1> QED BY <1>1, <1>2, <1>3, LockStep

LEMMA BeginLocks ==
  ASSUME Typed, LockInv, NEW r \in Req, NEW op \in AllOps, Begin(r, op)
  PROVE  LockInv'
<1>1. Others(r) /\ pc[r] = "idle" /\ dirty' = dirty
  BY BeginMoves DEF Begin
<1>2. Locked(r)' = {}
  BY <1>1 DEF LockInv, Locking, Locked, MayLock
<1>3. PICK key \in Presented(op) :
        Keep(r, [NoJob EXCEPT !.op = op, !.key = key,
                              !.since = IF AutoCommit /\ op # "cleanup" THEN 0 ELSE clock])
  BY DEF Begin
<1> DEFINE j == [NoJob EXCEPT !.op = op, !.key = key,
                              !.since = IF AutoCommit /\ op # "cleanup" THEN 0 ELSE clock]
<1>4. j.op = op
  BY DEF NoJob
<1> HIDE DEF j
<1>5. job'[r] = j
  BY <1>3, KeepMoves DEF j
<1>6. pc'[r] \in (AllOps \ {"uninstall", "cleanup"}) \cup {"select"} /\ (pc'[r] = "consents" => op = "consents")
  BY GotoMoves DEF Begin
<1>7. Route(pc'[r], job'[r])
  BY <1>4, <1>5, <1>6 DEF Route, AllOps
<1> QED BY <1>1, <1>2, <1>7, LockStep DEF Locking

LEMMA NextLockInv == Typed /\ LockInv /\ [Next]_vars => LockInv'
<1> SUFFICES ASSUME Typed, LockInv, [Next]_vars PROVE LockInv'
  OBVIOUS
<1>1. ASSUME NEW r \in Req, Step(r) PROVE LockInv'
  BY <1>1, QuietLocks, ConsumeLocks, RetireLocks, BornLocks, EndLocked DEF Step, QuietStep
<1>2. ASSUME NEW r \in Req, Fail(r) \/ \E op \in AllOps : Begin(r, op) PROVE LockInv'
  BY <1>2, EndLocked, BeginLocks
<1>3. CASE UNCHANGED <<dirty, pc, job>>
  BY <1>3 DEF LockInv, Locking, Locked
<1> QED BY <1>1, <1>2, <1>3 DEF Next, Tick, Install, vars

LEMMA InitLockInv == Init => LockInv
BY DEF Init, PgInit, NoWrites, LockInv, Locking, Locked, MayLock, Route

-----------------------------------------------------------------------------
(* The rows a statement locks one after the other. *)

\* What a request may have locked, row by row, when its handler reaches a statement.
MayKeep(label, j) ==
  CASE label = "revoking" -> j.hit
    [] label = "forget" -> Token
    [] label = "select" -> Before(j.op, j.table + 1)
    [] label = "purge" -> Before(j.op, j.table) \cup j.hit
    [] label = "reply" -> Key
    [] OTHER -> {}

KeepInv ==
  /\ locked \in [Req -> SUBSET Key]
  /\ \A r \in Req : locked[r] \subseteq MayKeep(pc[r], job[r])

LEMMA WaitIsNext == [WaitNext]_waitVars => [Next]_vars
BY DEF WaitNext, waitVars, LockRow, Execute, Drop, Next, Tick, Install, vars

LEMMA ManyWanted ==
  ASSUME Typed, NEW r \in Req
  PROVE  Wanted(r) \subseteq Key /\ (ManyRows(r) => Wanted(r) \subseteq job[r].hit)
<1>1. Fits(pc[r], job[r]) /\ job[r] \in Job
  BY JobTyped
<1>2. Wanted(r) \subseteq Key
  BY <1>1 DEF Wanted, ManyRows, Fits, Job, Key, ConsentKey, StoredRows
<1>3. ManyRows(r) => Wanted(r) \subseteq job[r].hit
  BY DEF Wanted, ManyRows
<1> QED BY <1>2, <1>3

LEMMA KeepStep ==
  ASSUME KeepInv, NEW r \in Req, Others(r), NEW K \in SUBSET Key,
         locked' = [locked EXCEPT ![r] = K], K \subseteq MayKeep(pc'[r], job'[r])
  PROVE  KeepInv'
BY DEF KeepInv, Others

\* A statement that writes no row it had to select.
LEMMA FirstLocks ==
  ASSUME KeepInv, NEW r \in Req, Others(r), Release(r),
         pc[r] \notin {"revoking", "forget", "select", "purge", "reply"}
  PROVE  KeepInv'
<1>1. locked[r] = {}
  BY DEF KeepInv, MayKeep
<1>2. locked' = [locked EXCEPT ![r] = {}]
  BY <1>1 DEF Release, KeepInv
<1> QED BY <1>2, KeepStep

\* The next statements keep what the one before locked.
LEMMA LaterLocks ==
  ASSUME KeepInv, NEW r \in Req, Others(r), Release(r),
         MayKeep(pc[r], job[r]) \subseteq MayKeep(pc'[r], job'[r]) \/ pc'[r] \in {"reply", "idle"}
  PROVE  KeepInv'
<1> DEFINE K == IF pc'[r] = "idle" \/ (AutoCommit /\ job[r].op # "cleanup") THEN {} ELSE locked[r]
<1>1. locked[r] \in SUBSET Key /\ locked[r] \subseteq MayKeep(pc[r], job[r])
  BY DEF KeepInv
<1>2. locked' = [locked EXCEPT ![r] = K] /\ K \in SUBSET Key
  BY <1>1 DEF Release
<1>3. K \subseteq MayKeep(pc'[r], job'[r])
  BY <1>1 DEF MayKeep
<1> QED BY <1>2, <1>3, KeepStep

LEMMA StepOthers ==
  ASSUME Typed, NEW r \in Req, Step(r)
  PROVE  Others(r)
BY QuietMoves, IssueMoves, MintMoves, RetireMoves, ConsumeMoves, ChainMoves, EndMoves
   DEF Step, QuietStep, IssueFacts, MintFacts

LEMMA ExecuteKeeps ==
  ASSUME Typed, LockInv, KeepInv, NEW r \in Req, Execute(r)
  PROVE  KeepInv'
<1>0. Step(r) /\ Release(r) /\ Others(r)
  BY StepOthers DEF Execute
<1>1. CASE Finish(r) \/ Forget(r)
  BY <1>0, <1>1, GotoMoves, EndMoves, LaterLocks DEF Forget
<1>2. CASE Revoking(r)
  <2>1. pc[r] = "revoking" /\ pc'[r] = AfterRevoking(job[r].op) /\ job[r].hit \subseteq Token
    BY <1>2, JobTyped, GotoMoves DEF Revoking, Fits
  <2>2. MayKeep(pc[r], job[r]) \subseteq MayKeep(pc'[r], job'[r]) \/ pc'[r] \in {"reply", "idle"}
    BY <2>1 DEF AfterRevoking, MayKeep
  <2> QED BY <1>0, <2>2, LaterLocks
<1>3. CASE Select(r)
  <2> DEFINE n == job[r].table + 1
  <2>1. pc[r] = "select" /\ pc'[r] = "purge"
    BY <1>3, GotoMoves DEF Select
  <2>2. PICK K : Keep(r, [job[r] EXCEPT !.hit = K, !.table = n])
    BY <1>3 DEF Select, NextTable
  <2> DEFINE j == [job[r] EXCEPT !.hit = K, !.table = n]
  <2> HIDE DEF n
  <2>3. j.op = job[r].op /\ j.table = n
    BY JobTyped DEF Job
  <2> HIDE DEF j
  <2>4. job'[r] = j
    BY <2>2, KeepMoves DEF j
  <2>5. MayKeep(pc[r], job[r]) \subseteq MayKeep(pc'[r], job'[r])
    BY <2>1, <2>3, <2>4 DEF MayKeep, n
  <2> QED BY <1>0, <2>5, LaterLocks
<1>4. CASE Purge(r)
  <2> DEFINE op == job[r].op
             i == job[r].table
  <2>1. pc[r] = "purge" /\ job' = job /\ pc'[r] \in {"reply", "select"} /\ i \in Nat
    BY <1>4, JobTyped, GotoMoves DEF Purge, Job
  <2>2. job[r].hit \subseteq PurgePlan(op)[i] /\ i \in 1 .. Len(PurgePlan(op))
    BY <2>1, JobTyped DEF LockInv, Locking, Route, Fits
  <2>3. Before(op, i) \cup PurgePlan(op)[i] \subseteq Before(op, i + 1)
    <3>1. i \in 1 .. (i + 1 - 1) /\ 1 .. (i - 1) \subseteq 1 .. (i + 1 - 1)
      BY <2>1, <2>2
    <3> QED BY <3>1 DEF Before
  <2>4. MayKeep(pc[r], job[r]) \subseteq MayKeep(pc'[r], job'[r]) \/ pc'[r] \in {"reply", "idle"}
    BY <2>1, <2>2, <2>3 DEF MayKeep
  <2> QED BY <1>0, <2>4, LaterLocks
<1>5. CASE pc[r] \notin {"revoking", "forget", "select", "purge", "reply"}
  BY <1>0, <1>5, FirstLocks
<1>6. ~(Finish(r) \/ Forget(r) \/ Revoking(r) \/ Select(r) \/ Purge(r)) =>
         pc[r] \notin {"revoking", "forget", "select", "purge", "reply"}
  BY <1>0
     DEF Step, Register, Authorize, Decide, Approve, Issue, Exchange, Replayed, Consume, Mint, Rotate,
         Retire, Chain, Revoke, Family, Consents, Withdraw, Sessions
<1> QED BY <1>1, <1>2, <1>3, <1>4, <1>5, <1>6

LEMMA NextKeepInv == Typed /\ LockInv /\ KeepInv /\ [WaitNext]_waitVars => KeepInv'
<1> SUFFICES ASSUME Typed, LockInv, KeepInv, [WaitNext]_waitVars PROVE KeepInv'
  OBVIOUS
<1>1. ASSUME NEW r \in Req, LockRow(r) PROVE KeepInv'
  <2>1. PICK k \in Wanted(r) : locked' = [locked EXCEPT ![r] = @ \cup {k}]
    BY <1>1 DEF LockRow
  <2>2. k \in Key /\ k \in job[r].hit /\ ManyRows(r) /\ pc' = pc /\ job' = job
    BY <1>1, ManyWanted DEF LockRow, vars
  <2>3. locked[r] \cup {k} \in SUBSET Key /\ locked[r] \subseteq MayKeep(pc[r], job[r])
    BY <2>2 DEF KeepInv
  <2>4. locked[r] \cup {k} \subseteq MayKeep(pc'[r], job'[r])
    BY <2>2, <2>3 DEF MayKeep, ManyRows
  <2> QED BY <2>1, <2>2, <2>3, <2>4, KeepStep DEF Others
<1>2. ASSUME NEW r \in Req, Execute(r) PROVE KeepInv'
  BY <1>2, ExecuteKeeps
<1>3. ASSUME NEW r \in Req, Drop(r) PROVE KeepInv'
  <2>1. Others(r) /\ pc'[r] = "idle"
    BY <1>3, EndMoves DEF Drop
  <2> QED BY <1>3, <2>1, LaterLocks DEF Drop
<1>4. ASSUME NEW r \in Req, NEW op \in AllOps, Begin(r, op), UNCHANGED locked PROVE KeepInv'
  <2>1. Others(r) /\ pc[r] = "idle" /\ locked[r] = {}
    BY <1>4, BeginMoves DEF Begin, KeepInv, MayKeep
  <2> QED BY <1>4, <2>1 DEF KeepInv, Others
<1>5. CASE UNCHANGED <<pc, job, locked>>
  BY <1>5 DEF KeepInv
<1> QED BY <1>1, <1>2, <1>3, <1>4, <1>5 DEF WaitNext, Tick, Install, waitVars, vars

LEMMA InitKeepInv == WaitInit => KeepInv
BY DEF WaitInit, KeepInv

-----------------------------------------------------------------------------
(* Who can be in a deadlock. *)

HeldRows(q) == Locked(q) \cup locked[q]

LEMMA WaitsKept ==
  ASSUME Typed, NEW r \in Req, NEW q \in Req, WaitsFor(r, q)
  PROVE  \E k \in Wanted(r) : k \in HeldRows(q)
BY ManyWanted DEF WaitsFor, Holds, HeldRows, Locked

\* A request both has row locks and waits for one at few statements.
LEMMA DeadlockedStuck ==
  ASSUME Typed, LockInv, KeepInv, NEW S \in SUBSET Req, Deadlocked(S), NEW r \in S
  PROVE  ManyRows(r) \/ pc[r] = "forget"
<1>1. Wanted(r) # {} /\ HeldRows(r) # {}
  <2>1. PICK p \in S : WaitsFor(r, p)
    BY DEF Deadlocked
  <2>2. PICK q \in S : WaitsFor(q, r)
    BY DEF Deadlocked
  <2> QED BY <2>1, <2>2, WaitsKept DEF WaitsFor
<1>2. pc[r] \in {"consume", "retire", "forget", "withdraw", "approve", "revoking", "purge"}
  BY <1>1 DEF Wanted, ManyRows
<1>3. pc[r] \in {"consume", "retire", "withdraw", "approve"} => HeldRows(r) = {}
  BY DEF HeldRows, KeepInv, MayKeep, LockInv, Locking, MayLock
<1> QED BY <1>1, <1>2, <1>3 DEF ManyRows

\* Nobody waits for somebody higher up for ever.
LEMMA NoClimb ==
  ASSUME NEW S, S # {}, NEW h \in [S -> 1 .. 4]
  PROVE  \E r \in S : \A q \in S : ~(h[r] < h[q])
<1> SUFFICES ASSUME \A r \in S : \E q \in S : h[r] < h[q] PROVE FALSE
  OBVIOUS
<1>1. \A r \in S : h[r] \in 1 .. 3
  OBVIOUS
<1>2. \A r \in S : h[r] \in 1 .. 2
  BY <1>1
<1>3. \A r \in S : h[r] = 1
  BY <1>2
<1> QED BY <1>3

\* A request that takes the tables in the order lev has what it wants at level i, and has
\* locked that far, its own rows at most of the table it is at.
Orderly(r, lev, i) ==
  /\ i \in 1 .. 4
  /\ \A k \in Wanted(r) : lev[k] = i
  /\ \A k \in HeldRows(r) : lev[k] < i \/ (lev[k] = i /\ ManyRows(r) /\ k \in job[r].hit)

\* If all take the tables in one order, two share the rows they are locking.
LEMMA OrderlyShare ==
  ASSUME Typed, NEW S \in SUBSET Req, Deadlocked(S), NEW lev \in [Key -> 1 .. 4],
         NEW h \in [S -> 1 .. 4], \A r \in S : Orderly(r, lev, h[r])
  PROVE  SharedRows(S)
<1>1. PICK r \in S : \A q \in S : ~(h[r] < h[q])
  BY NoClimb DEF Deadlocked
<1>2. ASSUME NEW p \in S, NEW q \in S, h[p] = h[r], WaitsFor(p, q)
      PROVE  h[q] = h[r] /\ ManyRows(q) /\ \E k \in Wanted(p) : k \in job[q].hit
  <2>1. PICK k \in Wanted(p) : k \in HeldRows(q)
    BY <1>2, WaitsKept
  <2>2. k \in Key /\ lev[k] = h[p]
    BY <2>1, ManyWanted DEF Orderly
  <2>3. lev[k] < h[q] \/ (lev[k] = h[q] /\ ManyRows(q) /\ k \in job[q].hit)
    BY <2>1 DEF Orderly
  <2> QED BY <1>1, <1>2, <2>2, <2>3
<1>3. PICK q \in S : WaitsFor(r, q)
  BY DEF Deadlocked
<1>4. h[q] = h[r] /\ ManyRows(q)
  BY <1>2, <1>3
<1>5. PICK p \in S : WaitsFor(q, p)
  BY DEF Deadlocked
<1>6. ManyRows(p) /\ \E k \in Wanted(q) : k \in job[p].hit
  BY <1>2, <1>4, <1>5
<1> QED BY <1>4, <1>5, <1>6, ManyWanted DEF SharedRows, WaitsFor

\* The place of a row's table in the order of /oauth/consents and delete_container_data,
\* and in that of /oauth/revoke and cleanup_expired.
Level == [k \in Key |-> IF k \in ConsentKey THEN 1 ELSE IF k \in Token THEN 2
                        ELSE IF k \in Code THEN 3 ELSE 4]
Depth == [k \in Key |-> IF k \in Code THEN 1 ELSE IF k \in Token THEN 2 ELSE 3]

At(r) == IF pc[r] = "revoking" THEN 2 ELSE IF pc[r] = "forget" THEN 3 ELSE job[r].table

\* A revocation, whoever it is for, is about tokens, after consents if any.
LEMMA RevokingOrderly ==
  ASSUME Typed, LockInv, KeepInv, NEW r \in Req, pc[r] = "revoking"
  PROVE  /\ job[r].op \in {"exchange", "revoke", "consents"}
         /\ Orderly(r, Level, 2)
         /\ job[r].op # "consents" => Orderly(r, Depth, 2)
<1>1. job[r].op \in {"exchange", "revoke", "consents"} /\ job[r].hit \subseteq Token
  BY JobTyped DEF LockInv, Locking, Route, Fits
<1>2. ManyRows(r) /\ Wanted(r) \subseteq Token /\ locked[r] \subseteq job[r].hit
  BY <1>1, ManyWanted DEF ManyRows, KeepInv, MayKeep
<1>3. Locked(r) \subseteq ConsentKey /\ (job[r].op # "consents" => Locked(r) = {})
  BY DEF LockInv, Locking, MayLock
<1>4. /\ \A k \in Token : Level[k] = 2 /\ Depth[k] = 2
      /\ \A k \in ConsentKey : Level[k] = 1
  BY KeysDisjoint DEF Level, Depth, Key, ConsentKey
<1> QED BY <1>1, <1>2, <1>3, <1>4 DEF Orderly, HeldRows

LEMMA ForgetOrderly ==
  ASSUME Typed, LockInv, KeepInv, NEW r \in Req, pc[r] = "forget"
  PROVE  job[r].op = "revoke" /\ Orderly(r, Depth, 3)
<1>1. job[r].op = "revoke" /\ job[r].grant \in ConsentKey
  BY JobTyped DEF Fits, ConsentKey
<1>2. Wanted(r) \subseteq ConsentKey /\ HeldRows(r) \subseteq Token
  BY <1>1 DEF Wanted, ManyRows, StoredRows, HeldRows, LockInv, Locking, MayLock, KeepInv, MayKeep
<1>3. /\ \A k \in Token : Depth[k] = 2
      /\ \A k \in ConsentKey : Depth[k] = 3
  BY KeysDisjoint DEF Depth, Key, ConsentKey
<1> QED BY <1>1, <1>2, <1>3 DEF Orderly

\* A purge is at one table after the other, in the order lev of its plan.
LEMMA PlanOrderly ==
  ASSUME Typed, LockInv, KeepInv, NEW r \in Req, pc[r] = "purge",
         NEW lev, Len(PurgePlan(job[r].op)) \in 1 .. 4,
         \A n \in 1 .. Len(PurgePlan(job[r].op)) : \A k \in PurgePlan(job[r].op)[n] : lev[k] = n
  PROVE  Orderly(r, lev, job[r].table)
<1> DEFINE i == job[r].table
           plan == PurgePlan(job[r].op)
<1>1. i \in 1 .. Len(plan) /\ job[r].hit \subseteq plan[i]
  BY JobTyped DEF LockInv, Locking, Route, Fits
<1>2. ManyRows(r) /\ Wanted(r) \subseteq job[r].hit
  BY ManyWanted DEF ManyRows
<1>3. \A k \in HeldRows(r) : k \in job[r].hit \/ \E n \in 1 .. (i - 1) : k \in plan[n]
  BY DEF HeldRows, LockInv, Locking, MayLock, KeepInv, MayKeep, Before
<1> HIDE DEF plan
<1>4. \A n \in 1 .. (i - 1) : n \in 1 .. Len(plan) /\ n < i
  BY <1>1
<1>5. \A k \in HeldRows(r) : lev[k] < i \/ (lev[k] = i /\ k \in job[r].hit)
  BY <1>1, <1>3, <1>4 DEF plan
<1>6. i \in 1 .. 4 /\ \A k \in Wanted(r) : lev[k] = i
  BY <1>1, <1>2 DEF plan
<1> QED BY <1>2, <1>5, <1>6 DEF Orderly

LEMMA PurgeOrderly ==
  ASSUME Typed, LockInv, KeepInv, NEW r \in Req, pc[r] = "purge"
  PROVE  /\ job[r].op \in {"cleanup", "uninstall"}
         /\ job[r].op = "uninstall" => Orderly(r, Level, job[r].table)
         /\ job[r].op = "cleanup" => Orderly(r, Depth, job[r].table)
<1>1. job[r].op \in {"cleanup", "uninstall"}
  BY JobTyped DEF Fits
<1>2. CASE job[r].op = "uninstall"
  <2> DEFINE plan == <<ConsentKey, Token, Code, Client>>
  <2>1. PurgePlan(job[r].op) = plan /\ Len(plan) = 4
    BY <1>2 DEF PurgePlan
  <2>2. \A n \in 1 .. 4 : \A k \in plan[n] : Level[k] = n
    BY KeysDisjoint DEF Level, Key, ConsentKey
  <2> HIDE DEF plan
  <2>3. /\ Len(PurgePlan(job[r].op)) \in 1 .. 4
        /\ \A n \in 1 .. Len(PurgePlan(job[r].op)) : \A k \in PurgePlan(job[r].op)[n] : Level[k] = n
    BY <2>1, <2>2
  <2> QED BY <1>2, <2>3, PlanOrderly
<1>3. CASE job[r].op = "cleanup"
  <2> DEFINE plan == <<Code, Token, ConsentKey>>
  <2>1. PurgePlan(job[r].op) = plan /\ Len(plan) = 3
    BY <1>3 DEF PurgePlan
  <2>2. \A n \in 1 .. 3 : \A k \in plan[n] : Depth[k] = n
    BY KeysDisjoint DEF Depth, Key, ConsentKey
  <2> HIDE DEF plan
  <2> QED BY <1>3, <2>1, <2>2, PlanOrderly
<1> QED BY <1>1, <1>2, <1>3

\* However many requests there are, each that is in a deadlock is at an UPDATE or DELETE of
\* many rows, or forgets the consent of a session it revoked; and either two of them take
\* the tables in opposite orders, or two are locking rows both selected.
THEOREM DeadlockCause == WaitSpec => []DeadlocksHaveCause
<1>1. Typed /\ LockInv /\ KeepInv => DeadlocksHaveCause
  <2> SUFFICES ASSUME Typed, LockInv, KeepInv, NEW S \in SUBSET Req, Deadlocked(S)
               PROVE  /\ \A r \in S : ManyRows(r) \/ pc[r] = "forget"
                      /\ OppositeOrders(S) \/ SharedRows(S)
    BY DEF DeadlocksHaveCause
  <2>1. \A r \in S : pc[r] \in {"revoking", "forget", "purge"}
    BY DeadlockedStuck DEF ManyRows
  <2>2. Level \in [Key -> 1 .. 4] /\ Depth \in [Key -> 1 .. 4]
    BY DEF Level, Depth
  <2>3. ASSUME \A r \in S : job[r].op \notin {"revoke", "cleanup"} PROVE SharedRows(S)
    <3> DEFINE h == [r \in S |-> At(r)]
    <3>1. \A r \in S : Orderly(r, Level, h[r])
      BY <2>1, <2>3, RevokingOrderly, ForgetOrderly, PurgeOrderly DEF At
    <3>2. h \in [S -> 1 .. 4]
      BY <3>1 DEF Orderly
    <3> HIDE DEF h
    <3> QED BY <2>2, <3>1, <3>2, OrderlyShare
  <2>4. ASSUME \A r \in S : job[r].op \notin {"consents", "uninstall"} PROVE SharedRows(S)
    <3> DEFINE h == [r \in S |-> At(r)]
    <3>1. \A r \in S : Orderly(r, Depth, h[r])
      BY <2>1, <2>4, RevokingOrderly, ForgetOrderly, PurgeOrderly DEF At
    <3>2. h \in [S -> 1 .. 4]
      BY <3>1 DEF Orderly
    <3> HIDE DEF h
    <3> QED BY <2>2, <3>1, <3>2, OrderlyShare
  <2> QED BY <2>1, <2>3, <2>4, DeadlockedStuck DEF OppositeOrders
<1>2. WaitInit => Init
  BY DEF WaitInit
<1> QED
  BY <1>1, <1>2, WaitIsNext, InitTyped, NextTyped, InitLockInv, NextLockInv, InitKeepInv, NextKeepInv,
     PTL DEF WaitSpec

-----------------------------------------------------------------------------
(* Rows once stored only get later. *)

StaysStored ==
  /\ \A t \in Token : WasStored(t) => WasStored(t)' /\ Later(committed[t], committed'[t])
  /\ \A c \in Code : WasIssued(c) => WasIssued(c)' /\ committed'[c] \in {committed[c], Absent}

\* The statement of r that stores what its answer sends, or retires a token.
LEMMA RetireWrote ==
  ASSUME IInv, NEW r \in Req, Retire(r)
  PROVE  Wrote(r, None) /\ Apart(r) /\ Unborn' \subseteq Unborn
<1>0. Typed /\ OnlyDeletes
  BY DEF IInv
<1>1. Others(r) /\ pc[r] = "retire"
  BY <1>0, RetireMoves DEF Retire
<1>2. CASE Lapse(r)
  BY <1>1, <1>2, ReadWrote, UnbornShrinks DEF Lapse, NoRow
<1>3. CASE ~Lapse(r)
  <2> DEFINE t == job[r].key
             old == Row(r, t)
  <2>1. PICK n \in Token : RetireFacts(r, n)
    BY <1>0, <1>3, RetireMoves
  <2>2. t \in Token /\ t \in Key /\ Live(old)
    BY <1>0, <1>1, <2>1, JobTyped DEF Fits, Key, RetireFacts
  <2> DEFINE row == [old EXCEPT !.revoked = TRUE, !.next = n]
             w == [NoWrites EXCEPT ![t] = row]
  <2>3. Aged(old, row)
    BY <1>0, <2>2, AgedRow
  <2>4. Put(r, t, row) /\ row \in Rows(t)
    BY <1>0, <2>1, <2>2, RetiredRow DEF RetireFacts, RetireToken, Live
  <2> HIDE DEF row
  <2>5. /\ w \in [Key -> Cell \cup {Untouched}]
        /\ w[t] = row /\ \A k \in Key \ {t} : w[k] = Untouched
    BY <2>2, <2>4, KeyKinds DEF NoWrites
  <2>6. /\ \A c \in Code : w[c] \in {Absent, Untouched}
        /\ \A i \in Token : w[i] \in {Absent, Untouched} \/ Aged(Row(r, i), w[i])
    BY <2>2, <2>3, <2>5, KeysDisjoint DEF Key
  <2>7. Write(r, w, AutoCommit) /\ AutoCommit \in BOOLEAN
    BY <2>4, Limits DEF Put
  <2> HIDE DEF w
  <2>8. Wrote(r, None) /\ Apart(r)
    BY <1>0, <2>5, <2>6, <2>7, WriteWrote
  <2>9. Unborn' \subseteq Unborn
    BY <1>1, <2>1 DEF Unborn, Others, RetireFacts
  <2> QED BY <2>8, <2>9
<1> QED BY <1>2, <1>3

LEMMA BornWrote ==
  ASSUME IInv, NEW r \in Req, Issue(r) \/ Mint(r) \/ Chain(r)
  PROVE  /\ \E x \in Unborn \cup (Code \ generated) : Wrote(r, x)
         /\ Apart(r) /\ Unborn' \subseteq Unborn
<1>0. Typed /\ OnlyDeletes /\ Names
  BY DEF IInv
<1>1. CASE Issue(r)
  <2>1. PICK c \in Code \ generated : /\ CreateCode(r, c, job[r].grant, Now(r))
                                      /\ generated' = generated \cup {c}
    BY <1>1 DEF Issue, FreshCodes, Generate
  <2> DEFINE row == [grant |-> job[r].grant, expires |-> Now(r) + CodeTTL]
  <2>2. job[r].grant \in Grant
    BY <1>0, <1>1, JobTyped DEF Issue, Fits
  <2>3. row \in CodeRow /\ Put(r, c, row)
    BY <1>0, <2>1, <2>2, JobTyped, Limits DEF CodeRow, CreateCode
  <2> HIDE DEF row
  <2>4. c \in Key /\ row \in Rows(c)
    BY <2>3, KeyKinds DEF Key
  <2>5. Others(r) /\ pc'[r] = "reply"
    BY <1>0, <1>1, IssueMoves DEF IssueFacts
  <2> QED BY <1>0, <2>1, <2>3, <2>4, <2>5, PutWrote, UnbornShrinks
<1>2. CASE Mint(r)
  <2>1. PICK t \in Token : MintFacts(r, t)
    BY <1>0, <1>2, MintMoves
  <2> DEFINE row == NewToken(job[r].grant, job[r].key, None, Now(r))
  <2>2. job[r].grant \in Grant /\ job[r].key \in Code
    BY <1>0, <1>2, JobTyped DEF Mint, Fits
  <2>3. row \in TokenRow
    BY <1>0, <2>2, BornRow
  <2>4. Put(r, t, row)
    BY <2>1 DEF MintFacts, CreateRefreshToken
  <2> HIDE DEF row
  <2>5. t \in Key /\ row \in Rows(t) /\ t \in Unborn
    BY <2>1, <2>3, KeyKinds DEF Key, MintFacts, Unborn
  <2>6. Others(r) /\ pc'[r] = "reply" /\ generated \subseteq generated'
    BY <1>0, <1>2, <2>1, MintMoves DEF MintFacts
  <2> QED BY <1>0, <2>4, <2>5, <2>6, PutWrote, UnbornShrinks
<1>3. CASE Chain(r)
  <2>1. /\ job[r].grant \in Grant /\ job[r].key \in Token
        /\ job[r].code \in Code /\ job[r].new \in Token /\ pc[r] = "chain"
    BY <1>0, <1>3, JobTyped DEF Chain, Fits
  <2> DEFINE row == NewToken(job[r].grant, job[r].code, job[r].key, Now(r))
             n == job[r].new
  <2>2. row \in TokenRow
    BY <1>0, <2>1, BornRow
  <2>3. Put(r, n, row) /\ Others(r) /\ pc'[r] = "reply" /\ generated' = generated
    BY <1>0, <1>3, ChainMoves
  <2> HIDE DEF row
  <2>4. n \in Key /\ row \in Rows(n) /\ n \in Unborn
    BY <2>1, <2>2, KeyKinds DEF Key, Unborn
  <2> QED BY <1>0, <2>3, <2>4, PutWrote, UnbornShrinks
<1> QED BY <1>1, <1>2, <1>3

\* Before its commit.
LEMMA WroteStays ==
  ASSUME IInv, LineInv, NEW r \in Req, NEW x, Wrote(r, x), Apart(r), Unborn' \subseteq Unborn,
         generated \subseteq generated',
         x \in Unborn \cup (Code \ generated) \/ x = None, Delivered' = Delivered,
         \A c \in Code : origin[c] # None => origin'[c] # None
  PROVE  StaysStored
<1>0. x \in Token => x \in Unborn
  BY KeysDisjoint, StoreConstants DEF Unborn
<1>1. CASE AutoCommit
  <2>1. ASSUME NEW t \in Token, WasStored(t)
        PROVE  WasStored(t)' /\ Later(committed[t], committed'[t])
    <3>1. t \notin Unborn
      BY <1>1, <2>1 DEF WasStored, Unborn
    <3>2. t \notin Unborn' /\ t # x
      BY <1>0, <3>1
    <3>3. WasStored(t)'
      BY <1>1, <3>2 DEF WasStored, Unborn
    <3> QED BY <3>2, <3>3 DEF Wrote
  <2>2. ASSUME NEW c \in Code, WasIssued(c)
        PROVE  WasIssued(c)' /\ committed'[c] \in {committed[c], Absent}
    <3>1. origin[c] # None /\ c \in generated
      BY <1>1, <2>2 DEF WasIssued, LineInv
    <3>2. c # x
      BY <3>1, KeysDisjoint, StoreConstants DEF Unborn
    <3> QED BY <1>1, <3>1, <3>2 DEF WasIssued, Wrote
  <2> QED BY <2>1, <2>2 DEF StaysStored
<1>2. CASE ~AutoCommit
  BY <1>2 DEF StaysStored, WasStored, WasIssued, Apart, Later
<1> QED BY <1>1, <1>2

LEMMA FinishStays ==
  ASSUME IInv, LineInv, NEW r \in Req, Finish(r)
  PROVE  StaysStored
<1>0. Typed /\ OnlyDeletes /\ Paid /\ Names /\ Ticket \subseteq Key
  BY DEF IInv, Key, Ticket
<1>1. /\ Others(r) /\ pc'[r] = "idle" /\ origin' = origin /\ generated' = generated
      /\ Delivered \subseteq Delivered'
  BY <1>0, EndMoves, FinishAnswers DEF Finish
<1>2. \A k \in Ticket : committed'[k] = Row(r, k)
  BY <1>0, CommitFacts DEF Row
<1>3. CASE AutoCommit
  <2>1. \A k \in Ticket : committed'[k] \in {committed[k], Absent}
    BY <1>0, <1>2, <1>3 DEF OnlyDeletes, Row
  <2>2. Unborn' \subseteq Unborn
    BY <1>1, UnbornShrinks
  <2>3. \A t \in Token : WasStored(t) => WasStored(t)'
    BY <1>1, <1>3 DEF WasStored, Others
  <2>4. \A c \in Code : WasIssued(c) => WasIssued(c)'
    BY <1>1, <1>3 DEF WasIssued
  <2> QED BY <2>1, <2>3, <2>4 DEF StaysStored, Later, Ticket
<1>4. CASE ~AutoCommit
  <2>1. ASSUME NEW t \in Token, t \in Delivered PROVE Later(committed[t], committed'[t])
    BY <1>2, <2>1, SentLater DEF Ticket
  <2>2. ASSUME NEW c \in Code, c \in Delivered PROVE committed'[c] \in {committed[c], Absent}
    <3>1. job[r].new # c
      BY <1>0, <2>2, StoreConstants DEF Names, NewIsSecret
    <3>2. dirty[r][c] \in {Absent, Untouched}
      BY <1>0, <3>1 DEF Paid, PaidBy
    <3> QED BY <1>2, <3>2 DEF Row, Ticket
  <2> QED BY <1>1, <1>4, <2>1, <2>2 DEF StaysStored, WasStored, WasIssued
<1> QED BY <1>3, <1>4

\* No step brings a row back, or changes a stored one but to end it.
LEMMA StoredStays ==
  ASSUME IInv, LineInv, [Next]_vars
  PROVE  StaysStored
<1>0. Typed
  BY DEF IInv
<1>1. ASSUME NEW r \in Req, QuietStep(r) \/ Consume(r) PROVE StaysStored
  <2>1. Wrote(r, None) /\ Apart(r)
    BY <1>1, QuietWrote
  <2>2. Others(r) /\ pc'[r] # "chain"
    BY <1>0, <1>1, QuietMoves, ConsumeMoves DEF Lapse
  <2>3. origin' = origin /\ answers' = answers /\ generated \subseteq generated'
    BY <1>1
       DEF QuietStep, Register, Authorize, Decide, Approve, Exchange, Replayed, Rotate, Revoke, Family,
           Revoking, Forget, Consents, Withdraw, Sessions, Select, Purge, Consume, Rest, Generate
  <2> QED BY <2>1, <2>2, <2>3, UnbornShrinks, WroteStays DEF Delivered
<1>2. ASSUME NEW r \in Req, Retire(r) PROVE StaysStored
  <2>1. origin' = origin /\ answers' = answers /\ generated \subseteq generated'
    BY <1>2 DEF Retire, Rest, Generate
  <2> QED BY <1>2, <2>1, RetireWrote, WroteStays DEF Delivered
<1>3. ASSUME NEW r \in Req, Issue(r) \/ Mint(r) \/ Chain(r) PROVE StaysStored
  <2>1. answers' = answers /\ generated \subseteq generated'
    BY <1>3 DEF Issue, Mint, Chain, Rest, Generate
  <2>2. \A c \in Code : origin[c] # None => origin'[c] # None
    <3>1. CASE origin' = origin
      BY <3>1
    <3>2. CASE Issue(r)
      <4>1. job[r].grant \in Grant
        BY <1>0, <3>2, JobTyped DEF Issue, Fits
      <4>2. PICK c \in Code : origin' = [origin EXCEPT ![c] = job[r].grant]
        BY <3>2 DEF Issue, FreshCodes
      <4>3. origin \in [Code -> Grant \cup {None}]
        BY <1>0 DEF Typed, TypeOK, RequestsOK
      <4> QED BY <4>1, <4>2, <4>3, StoreConstants
    <3> QED BY <1>3, <3>1, <3>2 DEF Mint, Chain, Rest
  <2> QED BY <1>3, <2>1, <2>2, BornWrote, WroteStays DEF Delivered
<1>4. ASSUME NEW r \in Req, Finish(r) PROVE StaysStored
  BY <1>4, FinishStays
<1>5. ASSUME NEW r \in Req, Fail(r) \/ \E op \in AllOps : Begin(r, op) PROVE StaysStored
  <2>1. Others(r) /\ pc'[r] # "chain"
    BY <1>0, <1>5, EndMoves, BeginMoves
  <2>2. committed' = committed /\ origin' = origin /\ answers' = answers /\ generated' = generated
    BY <1>5 DEF Fail, Rollback, Begin, Rest
  <2> QED BY <2>1, <2>2 DEF StaysStored, WasStored, WasIssued, Later, Delivered, Others
<1>6. CASE UNCHANGED <<committed, pc, job, generated, origin, answers>>
  BY <1>6 DEF StaysStored, WasStored, WasIssued, Later, Delivered
<1> QED
  BY <1>1, <1>2, <1>3, <1>4, <1>5, <1>6 DEF Next, Step, QuietStep, Tick, Install, vars

-----------------------------------------------------------------------------
(* What a request is about to end, it may end. *)

Revocations == {"exchange", "revoke", "consents"}

\* Request r has selected, or in its open transaction ended, row k.
Marked(r, k) == k \in job[r].hit \/ (dirty[r][k] # Untouched /\ Gone(k, dirty[r][k]))

\* The reason holds on, whatever becomes of the row meanwhile.
FatedT(r, t) == WasStored(t) /\ (committed[t] # Absent => EndsToken(r, t))
FatedC(r, c) == job[r].op = "cleanup" =>
                  WasIssued(c) /\ (committed[c] # Absent => Expired(committed[c], clock))

Ending(r) ==
  /\ job[r].since <= clock
  /\ \A t \in Token : Marked(r, t) => FatedT(r, t)
  /\ \A c \in Code : Marked(r, c) => FatedC(r, c)
  /\ pc[r] \notin {"revoking", "forget", "reply", "select", "purge"} => job[r].hit = {}
  /\ job[r].op \in Revocations => job[r].hit \subseteq Token
  /\ pc[r] \in {"forget", "reply"} /\ job[r].op \in Revocations =>
       \A t \in job[r].hit : ~Live(Row(r, t))

EndInv == \A r \in Req : Ending(r)

\* What the reasons are about.
SameCause(r) == /\ job'[r].op = job[r].op /\ job'[r].key = job[r].key
                /\ job'[r].code = job[r].code /\ job'[r].grant = job[r].grant

LEMMA LaterExpired ==
  ASSUME NEW old, NEW new, Later(old, new), NEW now \in Nat, NEW then \in Nat, now <= then,
         old # Absent => old.expires \in Int, Expired(old, now), new # Absent
  PROVE  Expired(new, then)
BY DEF Later, Aged, Expired, Live

LEMMA FateKept ==
  ASSUME Typed, Typed', StaysStored, clock <= clock', NEW r \in Req, SameCause(r)
  PROVE  /\ \A t \in Token : FatedT(r, t) => FatedT(r, t)'
         /\ \A c \in Code : FatedC(r, c) => FatedC(r, c)'
<1>0. clock \in Nat /\ clock' \in Nat
  BY DEF Typed, TypeOK, RequestsOK
<1>1. ASSUME NEW t \in Token, FatedT(r, t) PROVE FatedT(r, t)'
  <2>1. WasStored(t)' /\ Later(committed[t], committed'[t])
    BY <1>1 DEF FatedT, StaysStored
  <2>2. ASSUME committed'[t] # Absent PROVE EndsToken(r, t)'
    <3>1. /\ committed[t] # Absent /\ committed'[t].code = committed[t].code
          /\ committed'[t].grant = committed[t].grant
      BY <2>1, <2>2 DEF Later, Aged, Live
    <3>2. EndsToken(r, t)
      BY <1>1, <3>1 DEF FatedT
    <3>3. committed[t].expires \in Int
      BY <3>1, TokenRows DEF TokenRow
    <3>4. Expired(committed[t], clock) => Expired(committed'[t], clock')
      BY <1>0, <2>1, <2>2, <3>3, LaterExpired
    <3> QED BY <3>1, <3>2, <3>4 DEF EndsToken, SameCause
  <2> QED BY <2>1, <2>2 DEF FatedT
<1>2. ASSUME NEW c \in Code, FatedC(r, c) PROVE FatedC(r, c)'
  <2> SUFFICES ASSUME job'[r].op = "cleanup"
               PROVE  WasIssued(c)' /\ (committed'[c] # Absent => Expired(committed'[c], clock'))
    BY DEF FatedC
  <2>1. /\ WasIssued(c) /\ WasIssued(c)' /\ committed'[c] \in {committed[c], Absent}
        /\ committed[c] # Absent => Expired(committed[c], clock)
    BY <1>2 DEF FatedC, SameCause, StaysStored
  <2>2. committed[c] # Absent => committed[c].expires \in Int
    BY LineRows DEF CodeRow, Ticket
  <2> QED BY <1>0, <2>1, <2>2 DEF Expired
<1> QED BY <1>1, <1>2

\* Another request's step.
LEMMA EndingKept ==
  ASSUME Typed, Typed', StaysStored, clock <= clock', NEW r \in Req, Ending(r),
         pc'[r] = pc[r], job'[r] = job[r], dirty'[r] = dirty[r]
  PROVE  Ending(r)'
<1>1. clock \in Nat /\ clock' \in Nat /\ job[r].since \in Nat
  BY JobTyped DEF Typed, TypeOK, RequestsOK, Job
<1>2. job'[r].since <= clock'
  BY <1>1 DEF Ending
<1>3. \A k \in Ticket : Marked(r, k)' <=> Marked(r, k)
  BY DEF Marked
<1>4. /\ \A t \in Token : FatedT(r, t) => FatedT(r, t)'
      /\ \A c \in Code : FatedC(r, c) => FatedC(r, c)'
  BY FateKept DEF SameCause
<1>5. ASSUME NEW t \in Token, t \in job[r].hit, ~Live(Row(r, t)) PROVE ~Live(Row(r, t)')
  <2>1. Later(committed[t], committed'[t])
    BY <1>5 DEF Ending, Marked, FatedT, StaysStored
  <2> QED BY <1>5, <2>1 DEF Row, Later, Aged, Live
<1> QED BY <1>2, <1>3, <1>4, <1>5 DEF Ending, Ticket

LEMMA EndingOthers ==
  ASSUME Typed, Typed', EndInv, StaysStored, clock <= clock', NEW r \in Req, Others(r),
         \A q \in Req \ {r} : dirty'[q] = dirty[q], Ending(r)'
  PROVE  EndInv'
BY EndingKept DEF EndInv, Others

\* A step after which nothing is marked.
LEMMA CleanStep ==
  ASSUME NEW r \in Req, job'[r].hit = {}, job'[r].since <= clock',
         \A k \in Ticket : dirty'[r][k] = Untouched
  PROVE  Ending(r)'
BY DEF Ending, Marked, Ticket

\* A step that marks only what it may.
LEMMA MarkStep ==
  ASSUME Typed, Typed', StaysStored, clock' = clock, NEW r \in Req, Ending(r), SameCause(r),
         job'[r].since = job[r].since,
         \A t \in Token : Marked(r, t)' => Marked(r, t) \/ FatedT(r, t),
         \A c \in Code : Marked(r, c)' => Marked(r, c) \/ FatedC(r, c),
         pc'[r] \notin {"revoking", "forget", "reply", "select", "purge"} => job'[r].hit = {},
         job'[r].op \in Revocations => job'[r].hit \subseteq Token,
         pc'[r] \in {"forget", "reply"} /\ job'[r].op \in Revocations =>
           \A t \in job'[r].hit : ~Live(Row(r, t)')
  PROVE  Ending(r)'
<1>1. clock <= clock'
  BY DEF Typed, TypeOK, RequestsOK
<1>2. /\ \A t \in Token : FatedT(r, t) => FatedT(r, t)'
      /\ \A c \in Code : FatedC(r, c) => FatedC(r, c)'
  BY <1>1, FateKept
<1> QED BY <1>2 DEF Ending

-----------------------------------------------------------------------------
(* The rows a statement finds are stored ones. *)

LEMMA TokenFound ==
  ASSUME IInv, LineInv, OwnWrites, NEW r \in Req, pc[r] # "reply", NEW t \in Token,
         Row(r, t) # Absent
  PROVE  /\ WasStored(t) /\ committed[t] # Absent
         /\ Row(r, t).code = committed[t].code /\ Row(r, t).grant = committed[t].grant
         /\ Row(r, t).expires = committed[t].expires
<1>1. Later(committed[t], Row(r, t))
  BY DEF LineInv, Versions, Newborn
<1>2. /\ committed[t] # Absent /\ Row(r, t).code = committed[t].code
      /\ Row(r, t).grant = committed[t].grant /\ Row(r, t).expires = committed[t].expires
  BY <1>1 DEF Later, Aged, Live
<1>3. t \notin Unborn
  BY <1>2 DEF LineInv, InLine, base, Ticket
<1>4. WasStored(t)
  BY <1>2, <1>3 DEF WasStored, Unborn, OwnWrites, Ticket
<1> QED BY <1>2, <1>4

LEMMA CodeFound ==
  ASSUME IInv, LineInv, OwnWrites, NEW r \in Req, pc[r] # "reply", NEW c \in Code,
         Row(r, c) # Absent
  PROVE  WasIssued(c) /\ committed[c] = Row(r, c)
<1>1. committed[c] = Row(r, c)
  BY NothingBorn DEF IInv
<1> QED BY <1>1, HeldIssued DEF Issued, Held

LEMMA Unmarked ==
  ASSUME LockInv, NEW r \in Req, MayLock(pc[r], job[r]) \cap Ticket = {}
  PROVE  \A k \in Ticket : dirty[r][k] = Untouched
BY DEF LockInv, Locking, Locked, Ticket, Key

\* How a handler's step leaves its local variables.
Remembers(r) == SameCause(r) /\ job'[r].since = job[r].since

LEMMA SetHit ==
  ASSUME Typed, NEW r \in Req, NEW K, NEW n,
         \/ Keep(r, [job[r] EXCEPT !.hit = K])
         \/ Keep(r, [job[r] EXCEPT !.hit = K, !.table = n])
  PROVE  Remembers(r) /\ job'[r].hit = K
<1> DEFINE Same(j) == /\ j.op = job[r].op /\ j.key = job[r].key /\ j.code = job[r].code
                      /\ j.grant = job[r].grant /\ j.since = job[r].since /\ j.hit = K
<1>1. Same([job[r] EXCEPT !.hit = K]) /\ Same([job[r] EXCEPT !.hit = K, !.table = n])
  BY JobTyped DEF Job
<1>2. \A j : Keep(r, j) /\ Same(j) => Remembers(r) /\ job'[r].hit = K
  BY KeepMoves DEF Remembers, SameCause
<1> HIDE DEF Same
<1> QED BY <1>1, <1>2

LEMMA SetNew ==
  ASSUME Typed, NEW r \in Req, NEW x, Keep(r, [job[r] EXCEPT !.new = x])
  PROVE  Remembers(r) /\ job'[r].hit = job[r].hit
<1> DEFINE j == [job[r] EXCEPT !.new = x]
<1>1. /\ j.op = job[r].op /\ j.key = job[r].key /\ j.code = job[r].code
      /\ j.grant = job[r].grant /\ j.since = job[r].since /\ j.hit = job[r].hit
  BY JobTyped DEF Job
<1> HIDE DEF j
<1>2. job'[r] = j
  BY KeepMoves DEF j
<1> QED BY <1>1, <1>2 DEF Remembers, SameCause

LEMMA SetSame ==
  ASSUME Typed, NEW r \in Req, NEW x, NEW y,
         \/ job' = job
         \/ Keep(r, [job[r] EXCEPT !.grant = x])
         \/ Keep(r, [job[r] EXCEPT !.decision = x])
         \/ Keep(r, [job[r] EXCEPT !.grant = x, !.code = y])
         \/ Keep(r, [job[r] EXCEPT !.new = x, !.code = y])
  PROVE  job'[r].op = job[r].op /\ job'[r].since = job[r].since /\ job'[r].hit = job[r].hit
<1> DEFINE Same(j) == j.op = job[r].op /\ j.since = job[r].since /\ j.hit = job[r].hit
<1>1. /\ Same(job[r]) /\ Same([job[r] EXCEPT !.grant = x]) /\ Same([job[r] EXCEPT !.decision = x])
      /\ Same([job[r] EXCEPT !.grant = x, !.code = y]) /\ Same([job[r] EXCEPT !.new = x, !.code = y])
  BY JobTyped DEF Job
<1>2. \A j : (Keep(r, j) \/ (job' = job /\ j = job[r])) /\ Same(j) =>
        job'[r].op = job[r].op /\ job'[r].since = job[r].since /\ job'[r].hit = job[r].hit
  BY KeepMoves
<1> HIDE DEF Same
<1> QED BY <1>1, <1>2

LEMMA SetNone ==
  ASSUME Typed, NEW r \in Req, Refuse(r) \/ Keep(r, NoJob)
  PROVE  job'[r].hit = {} /\ job'[r].since = 0
<1>1. CASE Keep(r, NoJob)
  BY <1>1, KeepMoves DEF NoJob
<1>2. CASE Refuse(r)
  <2> DEFINE j == [NoJob EXCEPT !.op = job[r].op]
  <2>1. j.hit = {} /\ j.since = 0
    BY DEF NoJob
  <2> HIDE DEF j
  <2>2. Keep(r, j)
    BY <1>2 DEF Refuse, j
  <2> QED BY <2>1, <2>2, KeepMoves
<1> QED BY <1>1, <1>2

-----------------------------------------------------------------------------
(* Statement by statement. *)

CauseInv == IInv /\ UseInv /\ LineInv /\ OwnWrites /\ LockInv /\ EndInv

LEMMA SinceTyped ==
  ASSUME Typed, NEW r \in Req
  PROVE  job[r].since \in Nat /\ clock \in Nat
BY JobTyped DEF Job, Typed, TypeOK, RequestsOK

\* Reading changes nothing, and an early refusal ends the request.
LEMMA ReadEnding ==
  ASSUME CauseInv, NEW r \in Req,
         Authorize(r) \/ Decide(r) \/ Exchange(r) \/ Rotate(r) \/ Revoke(r) \/ Consents(r)
  PROVE  Ending(r)'
<1>0. Typed /\ LockInv /\ Ending(r) /\ dirty' = dirty /\ clock' = clock
  BY DEF CauseInv, IInv, EndInv, Authorize, Decide, Exchange, Rotate, Revoke, Consents, Rest
<1>1. pc[r] \in {"authorize", "consent", "exchange", "rotate", "revoke", "consents"}
  BY DEF Authorize, Decide, Exchange, Rotate, Revoke, Consents
<1>2. \A k \in Ticket : dirty'[r][k] = Untouched
  BY <1>0, <1>1, Unmarked DEF MayLock
<1>3. \/ Refuse(r)
      \/ job' = job
      \/ \E x, y : \/ Keep(r, [job[r] EXCEPT !.grant = x])
                   \/ Keep(r, [job[r] EXCEPT !.decision = x])
                   \/ Keep(r, [job[r] EXCEPT !.grant = x, !.code = y])
  BY DEF Authorize, Decide, Exchange, Rotate, Revoke, Consents
<1>4. job'[r].hit = {} /\ job'[r].since <= clock'
  <2>1. CASE Refuse(r)
    BY <1>0, <2>1, SetNone, SinceTyped
  <2>2. CASE ~Refuse(r)
    <3>1. job'[r].since = job[r].since /\ job'[r].hit = job[r].hit
      BY <1>0, <1>3, <2>2, SetSame
    <3> QED BY <1>0, <1>1, <3>1 DEF Ending
  <2> QED BY <2>1, <2>2
<1> QED BY <1>2, <1>4, CleanStep

\* What a snapshot selects, its request has a reason to end.
LEMMA SnapshotEnding ==
  ASSUME CauseInv, Typed', StaysStored, NEW r \in Req, Replayed(r) \/ Family(r) \/ Sessions(r)
  PROVE  Ending(r)'
<1>0. Typed /\ IInv /\ LineInv /\ OwnWrites /\ LockInv /\ Ending(r) /\ dirty' = dirty /\ clock' = clock
  BY DEF CauseInv, IInv, EndInv, Replayed, Family, Sessions, Rest
<1>1. /\ pc[r] \in {"replayed", "family", "sessions"} /\ pc'[r] = "revoking"
      /\ job[r].op = (CASE pc[r] = "replayed" -> "exchange" [] pc[r] = "family" -> "revoke"
                        [] OTHER -> "consents")
  BY <1>0, GotoMoves, JobTyped DEF Replayed, Family, Sessions, Fits, LockInv, Locking, Route
<1> DEFINE Found(K) ==
             /\ Keep(r, [job[r] EXCEPT !.hit = K]) /\ K \subseteq Token
             /\ \A t \in K : /\ Live(Row(r, t))
                             /\ \/ pc[r] = "replayed" /\ Row(r, t).code = job[r].key
                                \/ pc[r] = "family" /\ Row(r, t).code = job[r].code
                                \/ /\ pc[r] = "sessions"
                                   /\ Row(r, t).grant.user = job[r].grant.user
                                   /\ Row(r, t).grant.client = job[r].grant.client
<1>2. PICK K : Found(K)
  <2>1. CASE Replayed(r)
    <3>1. Found(CodeTokenRows(r, job[r].key))
      BY <2>1 DEF Replayed, CodeTokenRows
    <3> QED BY <3>1
  <2>2. CASE Family(r)
    <3>1. Found(FamilyRows(r, job[r].grant.user, job[r].grant.client, job[r].code))
      BY <2>2 DEF Family, FamilyRows
    <3> QED BY <3>1
  <2>3. CASE Sessions(r)
    <3>1. Found(UserClientRows(r, job[r].grant.user, job[r].grant.client))
      BY <2>3 DEF Sessions, UserClientRows
    <3> QED BY <3>1
  <2> QED BY <2>1, <2>2, <2>3
<1>3. Remembers(r) /\ job'[r].hit = K
  BY <1>0, <1>2, SetHit
<1>4. ASSUME NEW t \in K PROVE FatedT(r, t)
  <2>1. /\ WasStored(t) /\ Row(r, t).code = committed[t].code
        /\ Row(r, t).grant = committed[t].grant
    BY <1>0, <1>1, <1>2, TokenFound DEF Live
  <2> QED BY <1>1, <1>2, <2>1 DEF FatedT, EndsToken
<1>5. MayLock(pc[r], job[r]) \cap Ticket = {}
  BY <1>1, KeysDisjoint DEF MayLock, Ticket, ConsentKey
<1>6. \A k \in Ticket : dirty'[r][k] = Untouched
  BY <1>0, <1>5, Unmarked
<1>7. /\ \A t \in Token : Marked(r, t)' => FatedT(r, t)
      /\ \A c \in Code : ~Marked(r, c)'
  BY <1>2, <1>3, <1>4, <1>6, KeysDisjoint DEF Marked, Ticket
<1> QED BY <1>0, <1>1, <1>2, <1>3, <1>7, MarkStep DEF Remembers

\* The rows of codes and tokens stay.
TicketsStay(r) == \A k \in Ticket : dirty'[r][k] = dirty[r][k] /\ committed'[k] = committed[k]

LEMMA OtherRowPut ==
  ASSUME Typed, NEW r \in Req, NEW k \in Client \cup Grant, NEW row \in Rows(k),
         NoRow \/ Put(r, k, row)
  PROVE  TicketsStay(r)
<1>1. CASE NoRow
  BY <1>1 DEF NoRow, TicketsStay
<1>2. CASE Put(r, k, row)
  <2>1. k \in Key /\ k \notin Ticket /\ Ticket \subseteq Key /\ StoreOK /\ AutoCommit \in BOOLEAN
    BY KeysDisjoint, Limits DEF Key, Ticket, Typed, TypeOK, ConsentKey
  <2>2. \A i \in Key \ {k} : committed'[i] = committed[i] /\ dirty'[r][i] = dirty[r][i]
    BY <1>2, <2>1, PutFacts
  <2> QED BY <2>1, <2>2 DEF TicketsStay
<1> QED BY <1>1, <1>2

LEMMA OtherTickets ==
  ASSUME Typed, NEW r \in Req, Register(r) \/ Approve(r) \/ Forget(r) \/ Withdraw(r)
  PROVE  TicketsStay(r)
<1>1. CASE Register(r)
  <2>1. PICK cl \in Client : Put(r, cl, Registration[cl])
    BY <1>1 DEF Register, CreateClient
  <2>2. Registration[cl] \in Rows(cl)
    BY Limits, KeyKinds DEF Key
  <2> QED BY <2>1, <2>2, OtherRowPut
<1>2. CASE Approve(r)
  <2> DEFINE row == [expires |-> IF ConsentTTL = 0 THEN Never ELSE Now(r) + ConsentTTL]
  <2>1. job[r].grant \in Grant /\ Put(r, job[r].grant, row)
    BY <1>2, JobTyped DEF Approve, Fits, CreateConsent
  <2>2. row \in ConsentRow
    BY JobTyped, Limits DEF ConsentRow
  <2>3. row \in Rows(job[r].grant)
    BY <2>1, <2>2, KeyKinds DEF Key, ConsentKey
  <2> QED BY <2>1, <2>3, OtherRowPut
<1>3. CASE Forget(r) \/ Withdraw(r)
  <2>1. job[r].grant \in Grant /\ (NoRow \/ Put(r, job[r].grant, Absent))
    BY <1>3, JobTyped DEF Forget, Withdraw, Fits, DeleteConsent
  <2>2. Absent \in Rows(job[r].grant)
    BY DEF Rows
  <2> QED BY <2>1, <2>2, OtherRowPut
<1> QED BY <1>1, <1>2, <1>3

LEMMA OtherEnding ==
  ASSUME CauseInv, Typed', StaysStored, NEW r \in Req,
         Register(r) \/ Approve(r) \/ Forget(r) \/ Withdraw(r)
  PROVE  Ending(r)'
<1>0. Typed /\ LockInv /\ Ending(r) /\ clock' = clock /\ job' = job
  BY DEF CauseInv, IInv, EndInv, Register, Approve, Forget, Withdraw, Rest
<1>1. TicketsStay(r)
  BY <1>0, OtherTickets
<1>2. \A k \in Ticket : Marked(r, k)' => Marked(r, k)
  BY <1>0, <1>1 DEF Marked, TicketsStay
<1>3. /\ pc[r] = "forget" \/ job[r].hit = {}
      /\ pc[r] = "forget" => pc'[r] = "reply"
      /\ job[r].op \in Revocations => job[r].hit \subseteq Token
  BY <1>0, GotoMoves DEF Register, Approve, Forget, Withdraw, Ending
<1>4. job'[r].op \in Revocations => \A t \in job'[r].hit : ~Live(Row(r, t)')
  BY <1>0, <1>1, <1>3 DEF Ending, TicketsStay, Ticket, Row
<1> QED BY <1>0, <1>2, <1>3, <1>4, MarkStep DEF SameCause, Ticket

\* The UPDATE of a revocation.
LEMMA RevokingEnding ==
  ASSUME CauseInv, Typed', StaysStored, NEW r \in Req, Revoking(r)
  PROVE  Ending(r)'
<1>0. Typed /\ OnlyDeletes /\ StoreOK /\ Ending(r) /\ clock' = clock /\ job' = job
  BY DEF CauseInv, IInv, Typed, TypeOK, EndInv, Revoking, Rest
<1> DEFINE K == job[r].hit
           w == RevokedRows(r, K)
<1>1. K \subseteq Token /\ pc'[r] \in {"forget", "reply"} /\ Token \subseteq Key /\ AutoCommit \in BOOLEAN
  BY <1>0, JobTyped, GotoMoves, Limits DEF Revoking, Fits, AfterRevoking, Key
<1>2. Write(r, w, AutoCommit) /\ w \in [Key -> Cell \cup {Untouched}]
  BY <1>0, <1>1, RevokedRowsTyped DEF Revoking, RevokeRows, RevokedRows
<1>3. \A k \in Key : IF k \in K /\ Live(Row(r, k)) THEN w[k] # Untouched /\ ~Live(w[k]) ELSE w[k] = Untouched
  <2> SUFFICES ASSUME NEW k \in Key, k \in K, Live(Row(r, k)) PROVE w[k] # Untouched /\ ~Live(w[k])
    BY DEF RevokedRows
  <2>1. w[k] = [Row(r, k) EXCEPT !.revoked = TRUE]
    BY DEF RevokedRows
  <2>2. k \in Token
    BY <1>1
  <2>3. Row(r, k) \in TokenRow
    BY <1>0, <2>2, TokenRows DEF Live
  <2>4. w[k] \in TokenRow /\ w[k].revoked
    BY <2>1, <2>3 DEF TokenRow
  <2> QED BY <2>4, StoreConstants DEF Live
<1> HIDE DEF w
<1>4. \A t \in K : ~Live(Row(r, t)')
  <2> SUFFICES ASSUME NEW t \in K PROVE ~Live(Row(r, t)')
    OBVIOUS
  <2>1. t \in Key
    BY <1>1
  <2>2. CASE AutoCommit
    <3>1. dirty' = dirty /\ committed'[t] = IF w[t] = Untouched THEN committed[t] ELSE w[t]
      BY <1>0, <1>2, <2>1, <2>2, WriteFacts
    <3>2. dirty[r][t] \in {Absent, Untouched}
      BY <1>0, <2>1, <2>2 DEF OnlyDeletes
    <3> QED BY <1>3, <2>1, <3>1, <3>2 DEF Row, Live
  <2>3. CASE ~AutoCommit
    <3>1. committed' = committed /\ dirty'[r][t] = IF w[t] = Untouched THEN dirty[r][t] ELSE w[t]
      BY <1>0, <1>2, <2>1, <2>3, WriteFacts
    <3> QED BY <1>3, <2>1, <3>1 DEF Row
  <2> QED BY <1>1, <2>2, <2>3
<1>5. \A k \in Ticket : Marked(r, k)' => Marked(r, k)
  <2>1. \A k \in Key \ K : dirty'[r][k] = dirty[r][k]
    BY <1>0, <1>1, <1>2, <1>3, WriteFacts
  <2> QED BY <1>0, <2>1 DEF Marked, Ticket, Key
<1> QED BY <1>0, <1>1, <1>4, <1>5, MarkStep DEF SameCause, Ticket

\* Cleanup and uninstall select rows they have a reason to delete.
LEMMA SelectEnding ==
  ASSUME CauseInv, Typed', StaysStored, NEW r \in Req, Select(r)
  PROVE  Ending(r)'
<1>0. /\ Typed /\ IInv /\ LineInv /\ OwnWrites /\ Ending(r)
      /\ dirty' = dirty /\ clock' = clock /\ pc[r] = "select"
  BY DEF CauseInv, IInv, EndInv, Select, Rest
<1>1. job[r].op \in {"cleanup", "uninstall"} /\ pc'[r] = "purge"
  BY <1>0, JobTyped, GotoMoves DEF Select, Fits
<1> DEFINE n == NextTable(job[r].table)
           table == PurgePlan(job[r].op)[n]
           due(k) == Row(r, k) # Absent /\ (job[r].op = "cleanup" => Expired(Row(r, k), job[r].since))
<1> DEFINE candidates == IF job[r].op = "cleanup" THEN ExpiredBatch(r, table, BatchSize, Now(r))
                                                  ELSE {StoredRows(r, table)}
<1>a. PICK K \in candidates : Keep(r, [job[r] EXCEPT !.hit = K, !.table = n])
  BY DEF Select
<1>2. \A k \in K : due(k)
  <2>1. CASE job[r].op = "cleanup"
    <3>1. Now(r) = job[r].since
      BY <2>1 DEF Now
    <3>2. \A k \in K : Expired(Row(r, k), Now(r))
      BY <1>a, <2>1 DEF ExpiredBatch
    <3> QED BY <3>1, <3>2 DEF Expired
  <2>2. CASE job[r].op # "cleanup"
    BY <1>a, <2>2 DEF StoredRows
  <2> QED BY <2>1, <2>2
<1> HIDE DEF n
<1>3. Remembers(r) /\ job'[r].hit = K
  BY <1>0, <1>a, SetHit
<1>4. job[r].since \in Nat /\ clock \in Nat /\ job[r].since <= clock
  BY <1>0, SinceTyped DEF Ending
<1>5. ASSUME NEW t \in Token, t \in K PROVE FatedT(r, t)
  <2>1. due(t)
    BY <1>2, <1>5
  <2>2. /\ WasStored(t) /\ committed[t] # Absent
        /\ Row(r, t).expires = committed[t].expires
    BY <1>0, <2>1, TokenFound
  <2>3. committed[t].expires \in Int
    BY <1>0, <2>2, TokenRows DEF TokenRow
  <2>4. job[r].op = "cleanup" => Expired(committed[t], clock)
    BY <1>4, <2>1, <2>2, <2>3 DEF Expired
  <2> QED BY <1>1, <2>2, <2>4 DEF FatedT, EndsToken
<1>6. ASSUME NEW c \in Code, c \in K PROVE FatedC(r, c)
  <2>1. due(c)
    BY <1>2, <1>6
  <2>2. WasIssued(c) /\ committed[c] = Row(r, c)
    BY <1>0, <2>1, CodeFound
  <2>3. committed[c].expires \in Int
    BY <1>0, <2>1, <2>2, LineRows DEF CodeRow, Ticket
  <2>4. job[r].op = "cleanup" => Expired(committed[c], clock)
    BY <1>4, <2>1, <2>2, <2>3 DEF Expired
  <2> QED BY <2>2, <2>4 DEF FatedC
<1>7. /\ \A t \in Token : Marked(r, t)' => Marked(r, t) \/ FatedT(r, t)
      /\ \A c \in Code : Marked(r, c)' => Marked(r, c) \/ FatedC(r, c)
  BY <1>0, <1>3, <1>5, <1>6 DEF Marked
<1> QED BY <1>0, <1>1, <1>3, <1>7, MarkStep DEF Remembers, SameCause, Revocations

LEMMA PurgeEnding ==
  ASSUME CauseInv, Typed', StaysStored, NEW r \in Req, Purge(r)
  PROVE  Ending(r)'
<1>0. /\ Typed /\ Ending(r) /\ StoreOK /\ clock' = clock /\ job' = job /\ pc[r] = "purge"
  BY DEF CauseInv, IInv, Typed, TypeOK, EndInv, Purge, Rest
<1>1. job[r].op \in {"cleanup", "uninstall"} /\ pc'[r] \in {"reply", "select"}
  BY <1>0, JobTyped, GotoMoves DEF Purge, Fits
<1> DEFINE w == [k \in Key |-> IF k \in StoredRows(r, job[r].hit) THEN Absent ELSE Untouched]
           auto == AutoCommit /\ job[r].op # "cleanup"
<1>2. Write(r, w, auto) /\ w \in [Key -> Cell \cup {Untouched}]
  BY DEF Purge, DeleteRows, Cell
<1>3. \A k \in Key \ job[r].hit : w[k] = Untouched
  BY DEF StoredRows
<1>4. auto \in BOOLEAN
  BY Limits
<1> HIDE DEF w, auto
<1>5. \A k \in Key \ job[r].hit : dirty'[r][k] = dirty[r][k]
  BY <1>0, <1>2, <1>3, <1>4, WriteFacts
<1>6. \A k \in Ticket : Marked(r, k)' => Marked(r, k)
  BY <1>0, <1>5 DEF Marked, Ticket, Key
<1> QED BY <1>0, <1>1, <1>6, MarkStep DEF SameCause, Revocations, Ticket

LEMMA ConsumeEnding ==
  ASSUME CauseInv, Typed', StaysStored, NEW r \in Req, Consume(r)
  PROVE  Ending(r)'
<1>0. /\ Typed /\ StoreOK /\ Ending(r) /\ clock' = clock /\ job' = job /\ pc[r] = "consume"
      /\ job[r].op = "exchange"
  BY DEF CauseInv, IInv, Typed, TypeOK, EndInv, Consume, Rest, UseInv, Handing, Proper
<1>1. job[r].key \in Code /\ job[r].hit = {} /\ pc'[r] \in {"mint", "reply"}
  BY <1>0, JobTyped, GotoMoves DEF Fits, Ending, Consume
<1>2. \A k \in Key \ {job[r].key} : dirty'[r][k] = dirty[r][k]
  <2>1. CASE NoRow
    BY <2>1 DEF NoRow
  <2>2. CASE Put(r, job[r].key, Absent)
    <3>1. job[r].key \in Key /\ Absent \in Rows(job[r].key) /\ AutoCommit \in BOOLEAN
      BY <1>1, Limits DEF Key, Rows
    <3> QED BY <1>0, <2>2, <3>1, PutFacts
  <2> QED BY <2>1, <2>2 DEF Consume, ConsumeCode
<1>3. \A t \in Token : Marked(r, t)' => Marked(r, t)
  BY <1>0, <1>1, <1>2, KeysDisjoint DEF Marked, Key
<1>4. \A c \in Code : FatedC(r, c)
  BY <1>0 DEF FatedC
<1> QED BY <1>0, <1>1, <1>3, <1>4, MarkStep DEF SameCause

\* Storing a code or a token ends nothing.
LEMMA BornEnding ==
  ASSUME CauseInv, Typed', StaysStored, NEW r \in Req, Issue(r) \/ Mint(r) \/ Chain(r)
  PROVE  Ending(r)'
<1>0. Typed /\ StoreOK /\ Ending(r) /\ clock' = clock /\ pc[r] \in {"issue", "mint", "chain"}
  BY DEF CauseInv, IInv, Typed, TypeOK, EndInv, Issue, Mint, Chain, Rest
<1>1. job[r].hit = {} /\ pc'[r] = "reply"
  BY <1>0, GotoMoves DEF Ending, Issue, Mint, Chain
<1>2. Remembers(r) /\ job'[r].hit = job[r].hit
  <2>1. CASE Chain(r)
    BY <2>1 DEF Chain, Remembers, SameCause
  <2>2. CASE Issue(r) \/ Mint(r)
    BY <1>0, <2>2, SetNew DEF Issue, Mint
  <2> QED BY <2>1, <2>2
<1>3. \E x \in Ticket : \E row : Put(r, x, row) /\ row \in Rows(x) /\ ~Gone(x, row) /\ row # Absent
  <2>1. CASE Issue(r)
    <3>1. PICK c \in Code : CreateCode(r, c, job[r].grant, Now(r))
      BY <2>1 DEF Issue, FreshCodes
    <3> DEFINE row == [grant |-> job[r].grant, expires |-> Now(r) + CodeTTL]
    <3>2. Put(r, c, row)
      BY <3>1 DEF CreateCode
    <3>3. job[r].grant \in Grant
      BY <1>0, <2>1, JobTyped DEF Fits, Issue
    <3>4. row \in CodeRow
      BY <1>0, <3>3, JobTyped, Limits DEF CodeRow
    <3>5. row \in Rows(c) /\ row # Absent
      BY <3>4, KeyKinds, StoreConstants DEF Key
    <3> QED BY <3>2, <3>5 DEF Gone, Ticket
  <2>2. CASE Mint(r)
    <3>1. PICK t \in Token : CreateRefreshToken(r, t, job[r].grant, job[r].key, Now(r))
      BY <2>2 DEF Mint, FreshTokens
    <3> DEFINE row == NewToken(job[r].grant, job[r].key, None, Now(r))
    <3>2. Put(r, t, row)
      BY <3>1 DEF CreateRefreshToken
    <3>3. job[r].grant \in Grant /\ job[r].key \in Code
      BY <1>0, <2>2, JobTyped DEF Fits, Mint
    <3>4. row \in TokenRow /\ Live(row) /\ row # Absent
      BY <1>0, <3>3, BornRow
    <3>5. row \in Rows(t)
      BY <3>4, KeyKinds DEF Key
    <3> QED BY <3>2, <3>4, <3>5, KeysDisjoint DEF Gone, Ticket
  <2>3. CASE Chain(r)
    <3> DEFINE t == job[r].new
               row == NewToken(job[r].grant, job[r].code, job[r].key, Now(r))
    <3>1. Put(r, t, row)
      BY <2>3 DEF Chain, ChainToken
    <3>2. job[r].grant \in Grant /\ job[r].code \in Code /\ job[r].key \in Token /\ t \in Token
      BY <1>0, <2>3, JobTyped DEF Fits, Chain
    <3>3. row \in TokenRow /\ Live(row) /\ row # Absent
      BY <1>0, <3>2, BornRow
    <3>4. row \in Rows(t)
      BY <3>2, <3>3, KeyKinds DEF Key
    <3> QED BY <3>1, <3>2, <3>3, <3>4, KeysDisjoint DEF Gone, Ticket
  <2> QED BY <2>1, <2>2, <2>3
<1>a. PICK x \in Ticket : \E row : Put(r, x, row) /\ row \in Rows(x) /\ ~Gone(x, row) /\ row # Absent
  BY <1>3
<1>b. PICK row : Put(r, x, row) /\ row \in Rows(x) /\ ~Gone(x, row) /\ row # Absent
  BY <1>a
<1>4. x \in Key /\ Ticket \subseteq Key /\ AutoCommit \in BOOLEAN
  BY Limits DEF Ticket, Key
<1>5. /\ \A k \in Ticket \ {x} : dirty'[r][k] = dirty[r][k]
      /\ dirty'[r][x] \in {dirty[r][x], row}
  BY <1>0, <1>b, <1>4, PutFacts
<1>6. \A k \in Ticket : Marked(r, k)' => Marked(r, k)
  BY <1>1, <1>2, <1>b, <1>5 DEF Marked
<1> QED BY <1>0, <1>1, <1>2, <1>6, MarkStep DEF Remembers, Ticket

\* Rotation ends the token that was presented.
LEMMA RetireEnding ==
  ASSUME CauseInv, Typed', StaysStored, NEW r \in Req, Retire(r)
  PROVE  Ending(r)'
<1>0. /\ Typed /\ StoreOK /\ IInv /\ LineInv /\ OwnWrites /\ LockInv /\ Ending(r) /\ clock' = clock
      /\ pc[r] = "retire" /\ job[r].op = "rotate" /\ job[r].hit = {}
  BY DEF CauseInv, IInv, Typed, TypeOK, EndInv, Retire, Rest, UseInv, Handing, Proper, Ending
<1>1. \A k \in Ticket : dirty[r][k] = Untouched
  BY <1>0, Unmarked DEF MayLock
<1>2. CASE Refuse(r) /\ NoRow
  <2>1. dirty' = dirty
    BY <1>2 DEF NoRow
  <2> QED BY <1>0, <1>1, <1>2, <2>1, SetNone, SinceTyped, CleanStep
<1>3. CASE ~(Refuse(r) /\ NoRow)
  <2>a. PICK t \in Token : t = job[r].key
    BY <1>0, JobTyped DEF Fits
  <2>1. PICK n \in FreshTokens : /\ Rotatable(r, t, job[r].grant.client, Now(r))
                                 /\ RetireToken(r, t, n)
                                 /\ Keep(r, [job[r] EXCEPT !.new = n, !.code = Row(r, t).code])
    BY <1>3, <2>a DEF Retire
  <2>2. t \in Token /\ Live(Row(r, t)) /\ pc'[r] = "chain"
    BY <1>0, <1>3, <2>1, GotoMoves DEF Rotatable, RefreshValid, Retire
  <2>3. WasStored(t)'
    <3>1. WasStored(t)
      BY <1>0, <2>2, TokenFound DEF Live
    <3> QED BY <2>2, <3>1 DEF StaysStored
  <2>4. /\ job'[r].op = "rotate" /\ job'[r].key = t /\ job'[r].hit = {}
        /\ job'[r].since = job[r].since
    <3>1. job'[r].op = job[r].op /\ job'[r].since = job[r].since /\ job'[r].hit = job[r].hit
      BY <1>0, <2>1, SetSame
    <3>2. job'[r].key = t
      <4> DEFINE j == [job[r] EXCEPT !.new = n, !.code = Row(r, t).code]
      <4>1. j.key = t
        BY <1>0, <2>a, JobTyped DEF Job
      <4> HIDE DEF j
      <4> QED BY <1>0, <2>1, <4>1, KeepMoves DEF j
    <3> QED BY <1>0, <3>1, <3>2
  <2>5. \A k \in Ticket \ {t} : dirty'[r][k] = Untouched
    <3> DEFINE row == [Row(r, t) EXCEPT !.revoked = TRUE, !.next = n]
    <3>1. row \in Rows(t) /\ t \in Key /\ Ticket \subseteq Key /\ AutoCommit \in BOOLEAN
      BY <1>0, <2>2, <2>1, RetiredRow, Limits DEF Key, Ticket, Live, FreshTokens
    <3>2. Put(r, t, row)
      BY <2>1 DEF RetireToken
    <3> HIDE DEF row
    <3> QED BY <1>0, <1>1, <3>1, <3>2, PutFacts
  <2>6. \A k \in Ticket : Marked(r, k)' => k = t
    BY <2>4, <2>5 DEF Marked
  <2>7. FatedT(r, t)'
    BY <2>3, <2>4 DEF FatedT, EndsToken
  <2>8. \A c \in Code : FatedC(r, c)'
    BY <2>4 DEF FatedC
  <2>9. job'[r].since <= clock'
    BY <1>0, <2>4 DEF Ending
  <2> QED BY <2>2, <2>4, <2>6, <2>7, <2>8, <2>9 DEF Ending, Ticket
<1> QED BY <1>2, <1>3

LEMMA EndEnding ==
  ASSUME CauseInv, NEW r \in Req, Finish(r) \/ Fail(r)
  PROVE  Ending(r)'
<1>0. Typed /\ clock' = clock /\ Keep(r, NoJob) /\ Ticket \subseteq Key
  BY DEF CauseInv, IInv, Finish, Fail, Rest, Ticket, Key
<1>1. \A k \in Ticket : dirty'[r][k] = Untouched
  BY <1>0, CommitFacts, FailQuiet
<1> QED BY <1>0, <1>1, SetNone, SinceTyped, CleanStep

LEMMA BeginEnding ==
  ASSUME CauseInv, NEW r \in Req, NEW op \in AllOps, Begin(r, op)
  PROVE  Ending(r)'
<1>0. Typed /\ LockInv /\ clock' = clock /\ dirty' = dirty /\ pc[r] = "idle"
  BY DEF CauseInv, IInv, Begin, Rest
<1>1. \A k \in Ticket : dirty'[r][k] = Untouched
  BY <1>0, Unmarked DEF MayLock
<1>2. PICK key : Keep(r, [NoJob EXCEPT !.op = op, !.key = key,
                              !.since = IF AutoCommit /\ op # "cleanup" THEN 0 ELSE clock])
  BY DEF Begin
<1> DEFINE j == [NoJob EXCEPT !.op = op, !.key = key,
                              !.since = IF AutoCommit /\ op # "cleanup" THEN 0 ELSE clock]
<1>3. j.hit = {} /\ j.since \in {0, clock}
  BY DEF NoJob
<1> HIDE DEF j
<1>4. job'[r] = j
  BY <1>0, <1>2, KeepMoves DEF j
<1> QED BY <1>0, <1>1, <1>3, <1>4, SinceTyped, CleanStep

LEMMA NextEnding ==
  ASSUME CauseInv, [Next]_vars
  PROVE  EndInv'
<1>0. Typed /\ IInv /\ LineInv /\ EndInv /\ Typed' /\ StaysStored
  BY NextIInv, StoredStays DEF CauseInv, IInv
<1>1. clock \in Nat
  BY <1>0 DEF Typed, TypeOK, RequestsOK
<1>2. ASSUME NEW r \in Req, Step(r) \/ Fail(r) \/ \E op \in AllOps : Begin(r, op) PROVE EndInv'
  <2>1. Ending(r)'
    BY <1>0, <1>2, ReadEnding, SnapshotEnding, OtherEnding, RevokingEnding, SelectEnding, PurgeEnding,
       ConsumeEnding, BornEnding, RetireEnding, EndEnding, BeginEnding DEF Step
  <2>2. Others(r) /\ \A q \in Req \ {r} : dirty'[q] = dirty[q]
    <3>1. CASE QuietStep(r) \/ Consume(r)
      BY <1>0, <3>1, QuietMoves, ConsumeMoves, QuietWrote DEF Wrote
    <3>2. CASE Retire(r)
      BY <1>0, <3>2, RetireMoves, RetireWrote DEF Wrote
    <3>3. CASE Issue(r) \/ Mint(r) \/ Chain(r)
      BY <1>0, <3>3, IssueMoves, MintMoves, ChainMoves, BornWrote DEF Wrote
    <3>4. CASE Finish(r) \/ Fail(r)
      BY <1>0, <3>4, EndMoves, CommitFacts, FailQuiet DEF Quiet
    <3>5. CASE \E op \in AllOps : Begin(r, op)
      BY <1>0, <3>5, BeginMoves DEF Begin
    <3> QED BY <1>2, <3>1, <3>2, <3>3, <3>4, <3>5 DEF Step, QuietStep
  <2>3. clock' = clock
    BY <1>2
       DEF Step, Fail, Begin, Finish, Register, Authorize, Decide, Approve, Issue, Exchange, Replayed,
           Consume, Mint, Rotate, Retire, Chain, Revoke, Family, Revoking, Forget, Consents, Withdraw,
           Sessions, Select, Purge, Rest
  <2> QED BY <1>0, <1>1, <2>1, <2>2, <2>3, EndingOthers
<1>3. CASE UNCHANGED <<pc, job, dirty>> /\ clock <= clock'
  BY <1>0, <1>3, EndingKept DEF EndInv
<1> QED BY <1>1, <1>2, <1>3 DEF Next, Tick, Install, vars

LEMMA InitEnding == Init => EndInv
BY KeysDisjoint DEF Init, PgInit, NoWrites, NoJob, EndInv, Ending, Marked, Key

LEMMA InitCause == Init => CauseInv
BY InitIInv, InitUse, InitLine, InitOwn, InitLockInv, InitEnding DEF CauseInv

LEMMA NextCause == CauseInv /\ [Next]_vars => CauseInv'
<1> SUFFICES ASSUME CauseInv, [Next]_vars PROVE CauseInv'
  OBVIOUS
<1>1. IInv' /\ UseInv' /\ LineInv' /\ OwnWrites'
  BY NextIInv, NextUse, NextLine, NextOwn DEF CauseInv
<1>2. LockInv' /\ EndInv'
  BY NextLockInv, NextEnding DEF CauseInv, IInv
<1> QED BY <1>1, <1>2 DEF CauseInv

\* Whatever else waits for those rows or holds them: a revocation's UPDATE ends every
\* session its snapshot selected (revoke_refresh_family,
\* revoke_refresh_tokens_by_auth_code, revoke_user_client_refresh_tokens).
THEOREM RevocationReaches == Spec => RevocationReachesWhatItSaw
<1>1. CauseInv /\ [Next]_vars =>
        [\A r \in Req : Answered(r) /\ job[r].op \in {"exchange", "revoke", "consents"} =>
           \A t \in job[r].hit : ~Live(committed'[t])]_vars
  <2> SUFFICES ASSUME CauseInv, NEW r \in Req, Answered(r), job[r].op \in Revocations,
                      NEW t \in job[r].hit
               PROVE  ~Live(committed'[t])
    BY DEF Revocations
  <2>1. Ending(r) /\ pc[r] = "reply" /\ Finish(r) /\ Typed
    BY DEF CauseInv, IInv, EndInv, Answered
  <2>2. t \in Token /\ t \in Key /\ ~Live(Row(r, t))
    BY <2>1 DEF Ending, Key
  <2> QED BY <2>1, <2>2, CommitFacts DEF Row
<1> QED BY <1>1, InitCause, NextCause, PTL DEF Spec, RevocationReachesWhatItSaw

\* A cleanup deletes no code and no token that is not expired, though it waits between its
\* snapshots and its DELETEs (cleanup_expired).
THEOREM CleanupSpares == Spec => CleanupOnlyExpired
<1>1. CauseInv /\ [Next]_vars =>
        [\A r \in Req : Answered(r) /\ job[r].op = "cleanup" =>
           \A k \in Code \cup Token : committed[k] # Absent /\ committed'[k] = Absent =>
             Expired(committed[k], clock)]_vars
  <2> SUFFICES ASSUME CauseInv, NEW r \in Req, Answered(r), job[r].op = "cleanup",
                      NEW k \in Code \cup Token, committed[k] # Absent, committed'[k] = Absent
               PROVE  Expired(committed[k], clock)
    OBVIOUS
  <2>1. Ending(r) /\ Finish(r) /\ Typed /\ k \in Key
    BY DEF CauseInv, IInv, EndInv, Answered, Key
  <2>2. dirty[r][k] # Untouched /\ dirty[r][k] = Absent
    BY <2>1, CommitFacts
  <2>3. Marked(r, k)
    BY <2>2 DEF Marked, Gone, Live
  <2> QED BY <2>1, <2>3 DEF Ending, FatedT, FatedC, EndsToken
<1> QED BY <1>1, InitCause, NextCause, PTL DEF Spec, CleanupOnlyExpired

-----------------------------------------------------------------------------
(* Who ends a session. *)

\* The statement of r is the one that ends the session of token t.
LEMMA EndedByStep ==
  ASSUME CauseInv, NEW r \in Req, Step(r), NEW t \in Token,
         Live(committed[t]), ~Live(committed'[t])
  PROVE  pc'[r] # pc[r] /\ EndsToken(r, t)
<1>0. /\ Typed /\ StoreOK /\ OnlyDeletes /\ Ending(r) /\ IInv /\ LineInv /\ OwnWrites
      /\ t \in Key /\ t \in Ticket /\ committed[t] # Absent
  BY DEF CauseInv, IInv, Typed, TypeOK, EndInv, Key, Ticket, Live
<1>a. Marked(r, t) => EndsToken(r, t)
  BY <1>0 DEF Ending, FatedT
<1>1. CASE Finish(r)
  <2>1. dirty[r][t] # Untouched /\ ~Live(dirty[r][t])
    BY <1>0, <1>1, CommitFacts
  <2>2. Marked(r, t)
    BY <2>1, KeysDisjoint DEF Marked, Gone
  <2> QED BY <1>0, <1>1, <1>a, <2>2, EndMoves DEF Finish
<1>2. CASE Revoking(r)
  <2> DEFINE w == RevokedRows(r, job[r].hit)
  <2>1. pc[r] = "revoking" /\ pc'[r] # pc[r] /\ job[r].hit \in SUBSET Token
    BY <1>0, <1>2, JobTyped, GotoMoves DEF Revoking, AfterRevoking, Fits
  <2>2. Write(r, w, AutoCommit) /\ w \in [Key -> Cell \cup {Untouched}] /\ AutoCommit \in BOOLEAN
    BY <1>0, <1>2, <2>1, RevokedRowsTyped, Limits DEF Revoking, RevokeRows, RevokedRows
  <2>3. t \notin job[r].hit => w[t] = Untouched
    BY <1>0 DEF RevokedRows
  <2> HIDE DEF w
  <2>4. t \in job[r].hit
    BY <1>0, <2>2, <2>3, WriteFacts
  <2> QED BY <1>a, <2>1, <2>4 DEF Marked
<1>3. CASE Purge(r)
  <2> DEFINE w == [k \in Key |-> IF k \in StoredRows(r, job[r].hit) THEN Absent ELSE Untouched]
             auto == AutoCommit /\ job[r].op # "cleanup"
  <2>1. pc[r] = "purge" /\ pc'[r] # pc[r]
    BY <1>0, <1>3, GotoMoves DEF Purge
  <2>2. Write(r, w, auto) /\ w \in [Key -> Cell \cup {Untouched}] /\ auto \in BOOLEAN
    BY <1>3, Limits DEF Purge, DeleteRows, Cell
  <2>3. t \notin job[r].hit => w[t] = Untouched
    BY <1>0 DEF StoredRows
  <2> HIDE DEF w, auto
  <2>4. t \in job[r].hit
    BY <1>0, <2>2, <2>3, WriteFacts
  <2> QED BY <1>a, <2>1, <2>4 DEF Marked
<1>4. CASE Retire(r)
  <2>1. pc[r] = "retire" /\ job[r].op = "rotate" /\ pc'[r] # "retire" /\ job[r].key \in Token
    BY <1>0, <1>4, RetireMoves, JobTyped
       DEF CauseInv, UseInv, Handing, Proper, Retire, Lapse, RetireFacts, Fits
  <2>2. ~Lapse(r)
    BY DEF Lapse, NoRow
  <2>3. PICK n \in Token : RetireFacts(r, n)
    BY <1>0, <1>4, <2>2, RetireMoves
  <2> DEFINE k == job[r].key
             row == [Row(r, k) EXCEPT !.revoked = TRUE, !.next = n]
  <2>4. Put(r, k, row) /\ k \in Key /\ row \in Rows(k) /\ AutoCommit \in BOOLEAN
    BY <1>0, <2>1, <2>3, RetiredRow, Limits DEF RetireFacts, RetireToken, Live, Key
  <2> HIDE DEF row
  <2>5. t = k
    BY <1>0, <2>4, PutFacts
  <2> QED BY <2>1, <2>5 DEF EndsToken
<1>5. CASE Issue(r) \/ Mint(r) \/ Chain(r)
  <2>1. t \notin Code
    BY <1>0, KeysDisjoint
  <2>2. CASE Issue(r)
    <3>1. PICK c \in Code : \E row : Put(r, c, row) /\ row \in Rows(c)
      <4>1. PICK c \in Code : CreateCode(r, c, job[r].grant, Now(r))
        BY <2>2 DEF Issue, FreshCodes
      <4> DEFINE row == [grant |-> job[r].grant, expires |-> Now(r) + CodeTTL]
      <4>2. job[r].grant \in Grant
        BY <1>0, <2>2, JobTyped DEF Fits, Issue
      <4>3. row \in CodeRow
        BY <1>0, <4>2, JobTyped, Limits DEF CodeRow
      <4>4. row \in Rows(c) /\ Put(r, c, row)
        BY <4>1, <4>3, KeyKinds DEF Key, CreateCode
      <4> QED BY <4>4
    <3>2. c \in Key /\ AutoCommit \in BOOLEAN
      BY Limits DEF Key
    <3> QED BY <1>0, <2>1, <3>1, <3>2, PutFacts
  <2>3. CASE Mint(r)
    <3>1. PICK n \in Token : MintFacts(r, n)
      BY <1>0, <2>3, MintMoves
    <3> DEFINE row == NewToken(job[r].grant, job[r].key, None, Now(r))
    <3>2. job[r].grant \in Grant /\ job[r].key \in Code
      BY <1>0, <2>3, JobTyped DEF Mint, Fits
    <3>3. row \in TokenRow /\ Live(row)
      BY <1>0, <3>2, BornRow
    <3>4. Put(r, n, row) /\ n \in Key /\ row \in Rows(n) /\ AutoCommit \in BOOLEAN
      BY <3>1, <3>3, KeyKinds, Limits DEF MintFacts, CreateRefreshToken, Key
    <3> HIDE DEF row
    <3> QED BY <1>0, <3>3, <3>4, PutFacts
  <2>4. CASE Chain(r)
    <3> DEFINE row == NewToken(job[r].grant, job[r].code, job[r].key, Now(r))
               n == job[r].new
    <3>1. /\ job[r].grant \in Grant /\ job[r].key \in Token
          /\ job[r].code \in Code /\ n \in Token
      BY <1>0, <2>4, JobTyped DEF Chain, Fits
    <3>2. row \in TokenRow /\ Live(row)
      BY <1>0, <3>1, BornRow
    <3>3. Put(r, n, row) /\ n \in Key /\ row \in Rows(n) /\ AutoCommit \in BOOLEAN
      BY <1>0, <2>4, <3>1, <3>2, KeyKinds, ChainMoves, Limits DEF Key
    <3> HIDE DEF row
    <3> QED BY <1>0, <3>2, <3>3, PutFacts
  <2> QED BY <1>5, <2>2, <2>3, <2>4
<1>6. CASE Consume(r)
  <2>1. CASE Put(r, job[r].key, Absent)
    <3>1. job[r].key \in Code /\ job[r].key \in Key /\ Absent \in Rows(job[r].key) /\ AutoCommit \in BOOLEAN
      BY <1>0, <1>6, JobTyped, Limits DEF Consume, Fits, Key, Rows
    <3> QED BY <1>0, <2>1, <3>1, KeysDisjoint, PutFacts
  <2>2. CASE NoRow
    BY <2>2 DEF NoRow
  <2> QED BY <1>6, <2>1, <2>2 DEF Consume, ConsumeCode
<1>7. CASE Register(r) \/ Approve(r) \/ Forget(r) \/ Withdraw(r)
  BY <1>0, <1>7, OtherTickets DEF TicketsStay
<1>8. CASE UNCHANGED committed
  BY <1>8
<1> QED
  BY <1>1, <1>2, <1>3, <1>4, <1>5, <1>6, <1>7, <1>8
     DEF Step, Authorize, Decide, Exchange, Replayed, Rotate, Revoke, Family, Consents, Sessions, Select

\* However the requests interleave, a session ends only by an operation on it: its
\* rotation, a replay of its code, a revocation of its family, the withdrawal of its
\* consent, its expiry or the uninstall.
THEOREM EndsForCause == Spec => SessionsEndForCause
<1>1. CauseInv /\ [Next]_vars =>
        [\A t \in Token : Live(committed[t]) /\ ~Live(committed'[t]) =>
           \E r \in Req : pc'[r] # pc[r] /\ EndsToken(r, t)]_vars
  <2> SUFFICES ASSUME CauseInv, Next, NEW t \in Token, Live(committed[t]), ~Live(committed'[t])
               PROVE  \E r \in Req : pc'[r] # pc[r] /\ EndsToken(r, t)
    BY DEF vars
  <2>1. PICK r \in Req : Step(r)
    BY DEF Next, Fail, Rollback, Begin, Tick, Install
  <2> QED BY <2>1, EndedByStep
<1> QED BY <1>1, InitCause, NextCause, PTL DEF Spec, SessionsEndForCause

-----------------------------------------------------------------------------
(* In one transaction per request, a retired token leads to a stored one. *)

Stored(row) == row \notin {Absent, Untouched}

\* A committed token's successor lasts at least as long as the token itself.
Onward(t) ==
  LET row == committed[t]  n == row.next
  IN  n # None => \/ Expired(row, clock)
                  \/ committed[n] # Absent /\ committed[n].expires >= row.expires

Lasting ==
  \A t \in Token : committed[t] # Absent =>
     /\ committed[t].expires <= clock + RefreshTTL
     /\ Live(committed[t]) => committed[t].next = None
     /\ Onward(t)

\* Only a rotation retires a token in favour of another, which it has stored when it ends.
Rotating(r) ==
  /\ job[r].key \in Token /\ committed[job[r].key] # Absent =>
       committed[job[r].key].expires <= job[r].since + RefreshTTL
  /\ \A t \in Token : Stored(dirty[r][t]) =>
       /\ dirty[r][t].expires <= clock + RefreshTTL
       /\ Live(dirty[r][t]) => dirty[r][t].next = None
       /\ dirty[r][t].next # None =>
            /\ job[r].op = "rotate" /\ pc[r] \in {"chain", "reply"}
            /\ t = job[r].key /\ dirty[r][t].next = job[r].new
  /\ pc[r] = "reply" /\ job[r].op = "rotate" /\ job[r].new # None =>
       /\ Stored(dirty[r][job[r].new])
       /\ dirty[r][job[r].new].expires = job[r].since + RefreshTTL

\* Who deletes a token also deletes the one it was rotated from, or it is expired.
Purging(r) ==
  /\ \A t \in Token : dirty[r][t] = Absent => job[r].op \in {"cleanup", "uninstall"}
  /\ job[r].op = "uninstall" =>
       \A t \in Token : committed[t] # Absent /\ committed[t].next # None =>
         /\ pc[r] = "purge" /\ committed[t].next \in job[r].hit => t \in job[r].hit
         /\ dirty[r][committed[t].next] = Absent => dirty[r][t] = Absent

LossInv == ~AutoCommit => Lasting /\ \A r \in Req : Rotating(r) /\ Purging(r)

LossCause == CauseInv /\ LossInv

\* A request's own step, before its commit.
LEMMA LossStep ==
  ASSUME ~AutoCommit, LossInv, NEW r \in Req, Others(r), clock' = clock, committed' = committed,
         \A q \in Req \ {r} : dirty'[q] = dirty[q], Rotating(r)', Purging(r)'
  PROVE  LossInv'
<1>1. Lasting'
  BY DEF LossInv, Lasting, Onward, Expired
<1>2. ASSUME NEW q \in Req PROVE Rotating(q)' /\ Purging(q)'
  BY DEF LossInv, Rotating, Purging, Others
<1> QED BY <1>1, <1>2 DEF LossInv

TokensStay(r) == \A t \in Token : dirty'[r][t] = dirty[r][t]

\* A step that writes no token.
LEMMA PlainLoss ==
  ASSUME ~AutoCommit, Typed, LossInv, NEW r \in Req, clock' = clock, committed' = committed,
         TokensStay(r), pc[r] \notin {"chain", "reply"}, pc'[r] # "purge",
         job'[r].op = job[r].op, job'[r].new = None \/ job[r].op # "rotate",
         \/ job'[r].key \notin Token
         \/ job'[r].key = job[r].key /\ job'[r].since = job[r].since
  PROVE  Rotating(r)' /\ Purging(r)'
<1>1. Rotating(r) /\ Purging(r)
  BY DEF LossInv
<1>2. Rotating(r)'
  BY <1>1 DEF Rotating, TokensStay
<1>3. ASSUME NEW t \in Token, committed[t] # Absent, committed[t].next # None, job[r].op = "uninstall",
             dirty'[r][committed[t].next] = Absent
      PROVE  dirty'[r][t] = Absent
  <2>1. committed[t].next \in Token
    BY <1>3, TokenRows DEF TokenRow
  <2> QED BY <1>1, <1>3, <2>1 DEF Purging, TokensStay
<1> QED BY <1>1, <1>2, <1>3 DEF Purging, TokensStay

LEMMA QuietSince ==
  ASSUME Typed, NEW r \in Req, QuietStep(r), ~Refuse(r)
  PROVE  job'[r].since = job[r].since
<1>1. \E x, y : \/ job' = job
                \/ Keep(r, [job[r] EXCEPT !.grant = x])
                \/ Keep(r, [job[r] EXCEPT !.decision = x])
                \/ Keep(r, [job[r] EXCEPT !.grant = x, !.code = y])
                \/ Keep(r, [job[r] EXCEPT !.hit = x])
                \/ Keep(r, [job[r] EXCEPT !.hit = x, !.table = y])
  BY DEF QuietStep, Register, Authorize, Decide, Approve, Exchange, Replayed, Rotate, Revoke, Family,
         Revoking, Forget, Consents, Withdraw, Sessions, Select, Purge
<1> QED BY <1>1, SetSame, SetHit DEF Remembers

\* Reads, and writes to other tables.
LEMMA QuietLoss ==
  ASSUME ~AutoCommit, LossCause, NEW r \in Req, QuietStep(r), clock' = clock,
         TokensStay(r), ~Select(r), ~Purge(r)
  PROVE  Rotating(r)' /\ Purging(r)'
<1>0. Typed /\ LossInv /\ committed' = committed
  BY QuietWrote DEF LossCause, CauseInv, IInv, Apart
<1>1. job'[r].new = None
  BY <1>0, QuietProper DEF LossCause, CauseInv, UseInv, Handing
<1>2. None \notin Token
  BY StoreConstants
<1>3. pc[r] \notin {"chain", "reply"}
  BY DEF QuietStep, Register, Authorize, Decide, Approve, Exchange, Replayed, Rotate, Revoke, Family,
         Revoking, Forget, Consents, Withdraw, Sessions, Select, Purge
<1>4. pc'[r] # "purge"
  <2>1. \E label \in Labels \ {"purge"} : Goto(r, label)
    BY DEF QuietStep, Register, Authorize, Decide, Approve, Exchange, Replayed, Rotate, Revoke, Family,
           Revoking, AfterRevoking, Forget, Consents, Withdraw, Sessions, Refuse, Labels
  <2> QED BY <1>0, <2>1, GotoMoves
<1>5. CASE Refuse(r)
  BY <1>0, <1>1, <1>2, <1>3, <1>4, <1>5, RefusedJob, PlainLoss
<1>6. CASE ~Refuse(r)
  BY <1>0, <1>1, <1>3, <1>4, <1>6, QuietKeeps, QuietSince, PlainLoss DEF Keeps
<1> QED BY <1>5, <1>6

\* A revocation retires tokens that lead nowhere.
LEMMA RevokingLoss ==
  ASSUME ~AutoCommit, LossCause, NEW r \in Req, Revoking(r)
  PROVE  Rotating(r)' /\ Purging(r)'
<1>0. /\ Typed /\ IInv /\ LineInv /\ OwnWrites /\ StoreOK /\ LossInv /\ Rotating(r) /\ Purging(r)
      /\ job' = job /\ clock' = clock /\ pc[r] = "revoking" /\ AutoCommit \in BOOLEAN /\ Token \subseteq Key
  BY Limits DEF LossCause, CauseInv, IInv, Typed, TypeOK, LossInv, Revoking, Rest, Key
<1>1. job[r].op \in Revocations /\ job[r].hit \in SUBSET Token
  BY <1>0, JobTyped DEF LossCause, CauseInv, LockInv, Locking, Route, Revocations, Fits
<1> DEFINE w == RevokedRows(r, job[r].hit)
<1>2. Write(r, w, AutoCommit) /\ w \in [Key -> Cell \cup {Untouched}]
  BY <1>0, <1>1, RevokedRowsTyped DEF Revoking, RevokeRows, RevokedRows
<1>3. ASSUME NEW t \in Token, w[t] # Untouched
      PROVE  /\ w[t] # Absent /\ ~Live(w[t]) /\ w[t].next = None
             /\ w[t].expires <= clock + RefreshTTL
  <2>1. Live(Row(r, t)) /\ w[t] = [Row(r, t) EXCEPT !.revoked = TRUE]
    BY <1>0, <1>3 DEF RevokedRows
  <2>2. Row(r, t) \in TokenRow
    BY <1>0, <2>1, TokenRows DEF Live
  <2>3. /\ w[t] \in TokenRow /\ w[t].revoked /\ w[t].next = Row(r, t).next
        /\ w[t].expires = Row(r, t).expires
    BY <2>1, <2>2 DEF TokenRow
  <2>4. Row(r, t) = committed[t]
    BY <1>0, <2>1, NothingBorn DEF IInv
  <2> QED BY <1>0, <2>1, <2>3, <2>4, StoreConstants DEF LossInv, Lasting, Live
<1> HIDE DEF w
<1>4. /\ committed' = committed
      /\ \A t \in Token : dirty'[r][t] = IF w[t] = Untouched THEN dirty[r][t] ELSE w[t]
  BY <1>0, <1>2, WriteFacts
<1>5. job[r].op \notin {"rotate", "cleanup", "uninstall"}
  BY <1>1 DEF Revocations
<1>6. Rotating(r)'
  BY <1>0, <1>3, <1>4, <1>5 DEF Rotating, Stored
<1>7. \A t \in Token : dirty'[r][t] # Absent
  BY <1>0, <1>3, <1>4, <1>5 DEF Purging
<1>8. Purging(r)'
  BY <1>0, <1>5, <1>7 DEF Purging
<1> QED BY <1>6, <1>8

LEMMA SelectLoss ==
  ASSUME ~AutoCommit, LossCause, NEW r \in Req, Select(r)
  PROVE  Rotating(r)' /\ Purging(r)'
<1>0. /\ Typed /\ LossInv /\ Rotating(r) /\ Purging(r) /\ LockInv /\ committed' = committed
      /\ dirty' = dirty /\ clock' = clock /\ pc[r] = "select"
  BY DEF LossCause, CauseInv, IInv, LossInv, Select, Rest
<1>1. job[r].op \in {"cleanup", "uninstall"} /\ job[r].table \in Nat
  BY <1>0, JobTyped DEF Fits, Job
<1> DEFINE n == job[r].table + 1
           table == PurgePlan(job[r].op)[n]
<1>2. PICK K : /\ Keep(r, [job[r] EXCEPT !.hit = K, !.table = n])
               /\ job[r].op = "uninstall" => K = StoredRows(r, table)
  BY <1>1 DEF Select, NextTable
<1> HIDE DEF n
<1>3. /\ job'[r].op = job[r].op /\ job'[r].key = job[r].key /\ job'[r].since = job[r].since
      /\ job'[r].hit = K
  BY <1>0, <1>2, SetHit DEF Remembers, SameCause
<1>4. Rotating(r)'
  BY <1>0, <1>1, <1>3 DEF Rotating
<1>5. ASSUME job[r].op = "uninstall", NEW t \in Token, committed[t] # Absent,
             committed[t].next # None, committed[t].next \in K
      PROVE  t \in K
  <2>1. committed[t].next \in Token
    BY <1>0, <1>5, TokenRows DEF TokenRow
  <2>2. K = StoredRows(r, table) /\ committed[t].next \in table
    BY <1>2, <1>5 DEF StoredRows
  <2>3. n \in 1 .. 4
    BY <1>0, <1>1, <1>5, JobTyped DEF n, Fits, PurgePlan
  <2>4. n = 2 /\ table = Token
    BY <1>5, <2>1, <2>2, <2>3, KeysDisjoint DEF PurgePlan, ConsentKey
  <2>5. Locked(r) \subseteq Before("uninstall", 2)
    BY <1>0, <1>5, <2>4 DEF LockInv, Locking, MayLock, n
  <2>6. t \notin Before("uninstall", 2)
    BY KeysDisjoint DEF Before, PurgePlan, ConsentKey
  <2>7. Row(r, t) = committed[t]
    BY <2>5, <2>6 DEF Locked, Row, Key
  <2> QED BY <1>5, <2>2, <2>4, <2>7 DEF StoredRows
<1>6. Purging(r)'
  BY <1>0, <1>1, <1>3, <1>5 DEF Purging
<1> QED BY <1>4, <1>6

LEMMA PurgeLoss ==
  ASSUME ~AutoCommit, LossCause, NEW r \in Req, Purge(r)
  PROVE  Rotating(r)' /\ Purging(r)'
<1>0. /\ Typed /\ StoreOK /\ LossInv /\ Rotating(r) /\ Purging(r) /\ LockInv
      /\ job' = job /\ clock' = clock /\ pc[r] = "purge" /\ AutoCommit \in BOOLEAN /\ Token \subseteq Key
  BY Limits DEF LossCause, CauseInv, IInv, Typed, TypeOK, LossInv, Purge, Rest, Key
<1>1. job[r].op \in {"cleanup", "uninstall"} /\ pc'[r] # "purge"
  BY <1>0, JobTyped, GotoMoves DEF Fits, Purge
<1> DEFINE w == [k \in Key |-> IF k \in StoredRows(r, job[r].hit) THEN Absent ELSE Untouched]
<1>2. Write(r, w, FALSE) /\ w \in [Key -> Cell \cup {Untouched}]
  BY DEF Purge, DeleteRows, Cell
<1>a. \A t \in Token : /\ w[t] \in {Absent, Untouched}
                       /\ w[t] = Absent <=> t \in job[r].hit /\ Row(r, t) # Absent
  BY <1>0, StoreConstants DEF StoredRows
<1> HIDE DEF w
<1>3. /\ committed' = committed
      /\ \A t \in Token : dirty'[r][t] = IF w[t] = Untouched THEN dirty[r][t] ELSE w[t]
  BY <1>0, <1>2, WriteFacts
<1>4. \A t \in Token : dirty'[r][t] \in {dirty[r][t], Absent}
  BY <1>3, <1>a
<1>5. Rotating(r)'
  BY <1>0, <1>1, <1>3, <1>4 DEF Rotating, Stored
<1>6. ASSUME job[r].op = "uninstall", NEW t \in Token, committed[t] # Absent,
             committed[t].next # None, dirty'[r][committed[t].next] = Absent
      PROVE  dirty'[r][t] = Absent
  <2> DEFINE n == committed[t].next
  <2>1. n \in Token
    BY <1>0, <1>6, TokenRows DEF TokenRow
  <2>2. CASE dirty[r][n] = Absent
    BY <1>0, <1>4, <1>6, <2>2 DEF Purging
  <2>3. CASE dirty[r][n] # Absent
    <3>1. n \in job[r].hit /\ t \in job[r].hit
      BY <1>0, <1>3, <1>a, <1>6, <2>1, <2>3 DEF Purging
    <3>2. job[r].hit \subseteq PurgePlan("uninstall")[job[r].table] /\ job[r].table \in 1 .. 4
      BY <1>0, <1>6, JobTyped DEF LockInv, Locking, Route, Fits, PurgePlan
    <3>3. job[r].table = 2
      BY <3>1, <3>2, KeysDisjoint DEF PurgePlan, ConsentKey
    <3>4. Locked(r) \subseteq Before("uninstall", 2) /\ t \notin Before("uninstall", 2)
      BY <1>0, <1>6, <3>3, KeysDisjoint DEF LockInv, Locking, MayLock, Before, PurgePlan, ConsentKey
    <3>5. Row(r, t) = committed[t]
      BY <3>4 DEF Locked, Row, Key
    <3>6. w[t] = Absent
      BY <1>a, <1>6, <3>1, <3>5
    <3> QED BY <1>3, <3>6, StoreConstants
  <2> QED BY <2>2, <2>3
<1>7. Purging(r)'
  BY <1>0, <1>1, <1>3, <1>6 DEF Purging
<1> QED BY <1>5, <1>7

\* A code is no token.
LEMMA CodeLoss ==
  ASSUME ~AutoCommit, LossCause, NEW r \in Req, Consume(r) \/ Issue(r)
  PROVE  Rotating(r)' /\ Purging(r)'
<1>0. /\ Typed /\ StoreOK /\ LossInv /\ clock' = clock
      /\ AutoCommit \in BOOLEAN /\ Token \subseteq Key /\ Code \subseteq Key
      /\ pc[r] \in {"consume", "issue"} /\ job[r].op # "rotate"
  BY Limits
     DEF LossCause, CauseInv, IInv, Typed, TypeOK, Consume, Issue, Rest, Key, UseInv, Handing, Proper
<1>1. committed' = committed /\ TokensStay(r)
  <2>1. CASE NoRow
    BY <2>1 DEF NoRow, TokensStay
  <2>2. ASSUME NEW c \in Code, NEW row \in Rows(c), Put(r, c, row) PROVE committed' = committed /\ TokensStay(r)
    BY <1>0, <2>2, PutFacts, KeysDisjoint DEF TokensStay
  <2>3. CASE Consume(r)
    <3>1. job[r].key \in Code /\ Absent \in Rows(job[r].key)
      BY <1>0, <2>3, JobTyped DEF Consume, Fits, Rows
    <3> QED BY <2>1, <2>2, <2>3, <3>1 DEF Consume, ConsumeCode
  <2>4. CASE Issue(r)
    <3>1. PICK c \in Code : CreateCode(r, c, job[r].grant, Now(r))
      BY <2>4 DEF Issue, FreshCodes
    <3> DEFINE row == [grant |-> job[r].grant, expires |-> Now(r) + CodeTTL]
    <3>2. job[r].grant \in Grant
      BY <1>0, <2>4, JobTyped DEF Fits, Issue
    <3>3. row \in CodeRow
      BY <1>0, <3>2, JobTyped, Limits DEF CodeRow
    <3>4. row \in Rows(c) /\ Put(r, c, row)
      BY <1>0, <3>1, <3>3, KeyKinds DEF CreateCode
    <3> HIDE DEF row
    <3> QED BY <2>2, <3>4
  <2> QED BY <2>3, <2>4
<1>2. pc'[r] \in {"mint", "reply"}
  BY <1>0, GotoMoves DEF Consume, Issue
<1>3. job'[r].op = job[r].op /\ job'[r].key = job[r].key /\ job'[r].since = job[r].since
  BY <1>0, SetNew DEF Consume, Issue, Remembers, SameCause
<1> QED BY <1>0, <1>1, <1>2, <1>3, PlainLoss

\* A new token lasts RefreshTTL from the start of its request, and leads nowhere.
LEMMA BornLoss ==
  ASSUME ~AutoCommit, LossCause, NEW r \in Req, Mint(r) \/ Chain(r)
  PROVE  Rotating(r)' /\ Purging(r)'
<1>0. /\ Typed /\ StoreOK /\ LossInv /\ Rotating(r) /\ Purging(r) /\ clock' = clock /\ Ending(r)
      /\ AutoCommit \in BOOLEAN /\ Token \subseteq Key /\ RefreshTTL \in Nat
      /\ Mint(r) => job[r].op = "exchange"
      /\ Chain(r) => job[r].op = "rotate" /\ pc[r] = "chain" /\ job' = job
  BY Limits
     DEF LossCause, CauseInv, IInv, Typed, TypeOK, LossInv, EndInv, Mint, Chain, Rest, Key, UseInv,
         Handing, Proper
<1>1. PICK t \in Token, g \in Grant, c \in Code, old \in Token \cup {None} :
        Put(r, t, NewToken(g, c, old, Now(r))) /\ job'[r].new = t
  <2>1. CASE Mint(r)
    BY <1>0, <2>1, MintMoves, JobTyped DEF MintFacts, CreateRefreshToken, Mint, Fits
  <2>2. CASE Chain(r)
    BY <1>0, <2>2, JobTyped DEF Chain, ChainToken, Fits
  <2> QED BY <2>1, <2>2
<1> DEFINE row == NewToken(g, c, old, Now(r))
<1>2. row \in TokenRow /\ Live(row)
  BY <1>0, BornRow
<1>3. row.next = None /\ row.expires = job[r].since + RefreshTTL
  <2>1. job[r].op # "cleanup"
    BY <1>0
  <2> QED BY <2>1 DEF NewToken, Now
<1>4. row \in Rows(t) /\ Put(r, t, row) /\ row \notin {Absent, Untouched}
  BY <1>0, <1>1, <1>2, KeyKinds, StoreConstants
<1> HIDE DEF row
<1>5. /\ committed' = committed /\ dirty'[r][t] = row
      /\ \A i \in Token \ {t} : dirty'[r][i] = dirty[r][i]
  BY <1>0, <1>4, PutFacts
<1>6. job[r].since \in Nat /\ clock \in Nat /\ job[r].since <= clock
  BY <1>0, SinceTyped DEF Ending
<1>7. /\ job'[r].op = job[r].op /\ job'[r].key = job[r].key /\ job'[r].since = job[r].since
      /\ pc'[r] = "reply"
  BY <1>0, SetNew, GotoMoves DEF Mint, Chain, Remembers, SameCause
<1>8. Rotating(r)'
  <2>1. CASE Mint(r)
    <3>1. job[r].op = "exchange" /\ pc[r] = "mint"
      BY <1>0, <2>1 DEF Mint
    <3> QED BY <1>0, <1>3, <1>4, <1>5, <1>6, <1>7, <3>1 DEF Rotating, Stored
  <2>2. CASE Chain(r)
    BY <1>0, <1>1, <1>3, <1>4, <1>5, <1>6, <1>7, <2>2 DEF Rotating, Stored
  <2> QED BY <2>1, <2>2
<1>9. \A i \in Token : dirty'[r][i] # Absent
  BY <1>0, <1>4, <1>5 DEF Purging
<1>10. Purging(r)'
  BY <1>0, <1>7, <1>9 DEF Purging
<1> QED BY <1>8, <1>10

LEMMA RetireLoss ==
  ASSUME ~AutoCommit, LossCause, NEW r \in Req, Retire(r)
  PROVE  Rotating(r)' /\ Purging(r)'
<1>0. /\ Typed /\ StoreOK /\ IInv /\ LineInv /\ OwnWrites /\ LossInv /\ Rotating(r) /\ Purging(r)
      /\ clock' = clock /\ LockInv /\ AutoCommit \in BOOLEAN /\ Token \subseteq Key
      /\ pc[r] = "retire" /\ job[r].op = "rotate"
  BY Limits
     DEF LossCause, CauseInv, IInv, Typed, TypeOK, LossInv, Retire, Rest, Key, UseInv, Handing, Proper
<1>1. CASE Refuse(r) /\ NoRow
  <2>1. committed' = committed /\ TokensStay(r)
    BY <1>1 DEF NoRow, TokensStay
  <2>2. None \notin Token
    BY StoreConstants
  <2> QED BY <1>0, <1>1, <2>1, <2>2, RefusedJob, PlainLoss
<1>2. CASE ~(Refuse(r) /\ NoRow)
  <2>a. PICK t \in Token : t = job[r].key
    BY <1>0, JobTyped DEF Fits
  <2>1. PICK n \in Token : /\ Rotatable(r, t, job[r].grant.client, Now(r))
                           /\ RetireToken(r, t, n)
                           /\ Keep(r, [job[r] EXCEPT !.new = n, !.code = Row(r, t).code])
    BY <1>2, <2>a DEF Retire, FreshTokens
  <2>2. Live(Row(r, t)) /\ pc'[r] = "chain"
    BY <1>0, <1>2, <2>1, GotoMoves DEF Rotatable, RefreshValid, Retire
  <2>3. /\ job'[r].op = "rotate" /\ job'[r].key = t /\ job'[r].new = n
        /\ job'[r].since = job[r].since
    <3> DEFINE j == [job[r] EXCEPT !.new = n, !.code = Row(r, t).code]
    <3>1. j.op = job[r].op /\ j.key = t /\ j.new = n /\ j.since = job[r].since
      BY <1>0, <2>a, JobTyped DEF Job
    <3> HIDE DEF j
    <3> QED BY <1>0, <2>1, <3>1, KeepMoves DEF j
  <2> DEFINE row == [Row(r, t) EXCEPT !.revoked = TRUE, !.next = n]
  <2>4. /\ row \in Rows(t) /\ row \in TokenRow /\ ~Live(row) /\ Put(r, t, row)
        /\ row.next = n /\ row.expires = Row(r, t).expires
    <3>1. Row(r, t) \in TokenRow
      BY <1>0, <2>2, TokenRows DEF Live
    <3> QED BY <1>0, <2>1, <2>2, <3>1, RetiredRow DEF RetireToken, Live, TokenRow
  <2> HIDE DEF row
  <2>5. /\ committed' = committed /\ dirty'[r][t] = row
        /\ \A i \in Token \ {t} : dirty'[r][i] = dirty[r][i]
    BY <1>0, <2>4, PutFacts
  <2>6. row.expires = committed[t].expires /\ committed[t] # Absent
    BY <1>0, <2>2, <2>4, TokenFound DEF Live
  <2>7. row.expires <= clock + RefreshTTL
    BY <1>0, <2>6 DEF LossInv, Lasting
  <2>8. \A i \in Token : dirty[r][i] = Untouched
    BY <1>0, Unmarked DEF MayLock, Ticket
  <2>9. Untouched # Absent /\ row # Absent
    BY <2>4, StoreConstants
  <2>10. Rotating(r)'
    BY <1>0, <2>a, <2>2, <2>3, <2>4, <2>5, <2>7, <2>8 DEF Rotating, Stored
  <2>11. Purging(r)'
    BY <1>0, <2>3, <2>4, <2>5, <2>8, <2>9, <2>10 DEF Purging, Retire
  <2> QED BY <2>10, <2>11
<1> QED BY <1>1, <1>2

\* The commit.
LEMMA FinishLasting ==
  ASSUME ~AutoCommit, LossCause, NEW r \in Req, Finish(r)
  PROVE  Lasting'
<1>0. /\ Typed /\ IInv /\ LineInv /\ OwnWrites /\ LossInv /\ Lasting /\ Rotating(r) /\ Purging(r)
      /\ Names /\ Ending(r) /\ clock' = clock /\ pc[r] = "reply" /\ Token \subseteq Key /\ RefreshTTL \in Nat
  BY Limits DEF LossCause, CauseInv, IInv, LossInv, EndInv, Finish, Key
<1>1. \A k \in Token : committed'[k] = Row(r, k)
  BY <1>0, CommitFacts DEF Row
<1>2. StaysStored
  BY <1>0, FinishStays
<1>3. \A t \in Token : committed[t] # Absent => Later(committed[t], committed'[t])
  BY <1>0, <1>2 DEF OwnWrites, StaysStored, WasStored, Ticket
<1>4. ASSUME NEW t \in Token, committed'[t] # Absent, dirty[r][t] = Untouched PROVE Onward(t)'
  <2>1. committed'[t] = committed[t] /\ committed[t] # Absent
    BY <1>1, <1>4 DEF Row
  <2> DEFINE n == committed[t].next
  <2> SUFFICES ASSUME n # None, ~Expired(committed[t], clock)
               PROVE  committed'[n] # Absent /\ committed'[n].expires >= committed[t].expires
    BY <1>0, <2>1 DEF Onward
  <2>2. n \in Token /\ committed[t] \in TokenRow /\ committed[n] \in TokenRow \cup {Absent}
    BY <1>0, <2>1, TokenRows DEF TokenRow
  <2>3. committed[n] # Absent /\ committed[n].expires >= committed[t].expires
    BY <1>0, <2>1 DEF Lasting, Onward
  <2>4. Later(committed[n], committed'[n])
    BY <1>3, <2>2, <2>3
  <2>5. committed'[n] # Absent
    <3> SUFFICES ASSUME committed'[n] = Absent PROVE FALSE
      OBVIOUS
    <3>1. dirty[r][n] = Absent /\ Absent # Untouched
      BY <1>1, <2>2, <2>3, StoreConstants DEF Row
    <3>2. CASE job[r].op = "cleanup"
      <4>1. Expired(committed[n], clock)
        BY <1>0, <2>2, <2>3, <3>1, <3>2, KeysDisjoint DEF Ending, Marked, Gone, Live, FatedT, EndsToken
      <4>2. clock \in Nat
        BY <1>0 DEF Typed, TypeOK, RequestsOK
      <4> QED BY <2>1, <2>2, <2>3, <4>1, <4>2 DEF Expired, TokenRow, Never
    <3>3. CASE job[r].op = "uninstall"
      BY <1>0, <1>4, <2>1, <3>1, <3>3 DEF Purging
    <3> QED BY <1>0, <2>2, <3>1, <3>2, <3>3 DEF Purging
  <2> QED BY <2>3, <2>4, <2>5 DEF Later, Aged
<1>5. ASSUME NEW t \in Token, committed'[t] # Absent, dirty[r][t] # Untouched PROVE Onward(t)'
  <2>1. committed'[t] = dirty[r][t] /\ Stored(dirty[r][t])
    BY <1>1, <1>5 DEF Row, Stored
  <2> DEFINE n == dirty[r][t].next
  <2> SUFFICES ASSUME n # None
               PROVE  committed'[n] # Absent /\ committed'[n].expires >= dirty[r][t].expires
    BY <2>1 DEF Onward
  <2>2. job[r].op = "rotate" /\ t = job[r].key /\ n = job[r].new
    BY <1>0, <2>1 DEF Rotating
  <2>3. n \in Token /\ dirty[r][t] \in TokenRow
    BY <1>0, <1>1, <2>1, TokenRows DEF TokenRow, Stored
  <2>4. Stored(dirty[r][n]) /\ dirty[r][n].expires = job[r].since + RefreshTTL
    BY <1>0, <2>2 DEF Rotating
  <2>5. committed'[n] = dirty[r][n]
    BY <1>1, <2>3, <2>4 DEF Row, Stored
  <2>6. dirty[r][t].expires <= job[r].since + RefreshTTL
    <3>1. Later(committed[t], committed'[t])
      <4>1. t \in Delivered
        BY <1>0, <2>2, NoTicket DEF Names, SentBeforeUse
      <4> QED BY <1>0, <1>2, <4>1 DEF StaysStored, WasStored
    <3>2. committed[t] # Absent /\ committed'[t].expires = committed[t].expires
      BY <1>5, <3>1 DEF Later, Aged, Live
    <3> QED BY <1>0, <2>1, <2>2, <3>2 DEF Rotating
  <2>7. dirty[r][t].expires \in Nat /\ job[r].since \in Nat
    BY <1>0, <2>3, SinceTyped DEF TokenRow
  <2> QED BY <1>0, <2>4, <2>5, <2>6, <2>7 DEF Stored
<1>6. ASSUME NEW t \in Token, committed'[t] # Absent
      PROVE  committed'[t].expires <= clock + RefreshTTL /\ (Live(committed'[t]) => committed'[t].next = None)
  BY <1>0, <1>1, <1>6 DEF Row, Lasting, Rotating, Stored
<1> QED BY <1>0, <1>4, <1>5, <1>6 DEF Lasting

LEMMA FinishLoss ==
  ASSUME ~AutoCommit, LossCause, NEW r \in Req, Finish(r)
  PROVE  LossInv'
<1>0. /\ Typed /\ IInv /\ LineInv /\ OwnWrites /\ RowLocks /\ LossInv /\ Lasting /\ Names /\ clock' = clock
      /\ pc[r] = "reply" /\ Token \subseteq Key /\ Rotating(r) /\ Absent # Untouched
  BY StoreConstants DEF LossCause, CauseInv, IInv, LossInv, Finish, Key
<1>1. /\ \A k \in Token : committed'[k] = Row(r, k) /\ dirty'[r][k] = Untouched
      /\ \A q \in Req \ {r} : dirty'[q] = dirty[q]
  BY <1>0, CommitFacts DEF Row
<1>2. /\ Others(r) /\ pc'[r] = "idle" /\ job'[r].key = None /\ job'[r].op = "none" /\ None \notin Token
  <2>1. job'[r].op = "none"
    BY <1>0, KeepMoves DEF Finish, NoJob
  <2> QED BY <1>0, <2>1, EndMoves, StoreConstants
<1>3. StaysStored
  BY <1>0, FinishStays
<1>4. \A t \in Token : committed'[t] # Absent => committed'[t] \in TokenRow
  BY <1>0, <1>1, TokenRows
<1>5. Rotating(r)' /\ Purging(r)'
  BY <1>0, <1>1, <1>2, <1>4 DEF Rotating, Purging, Stored, TokenRow
<1>6. ASSUME NEW q \in Req \ {r} PROVE Rotating(q)'
  <2>1. Rotating(q) /\ pc'[q] = pc[q] /\ job'[q] = job[q] /\ dirty'[q] = dirty[q]
    BY <1>0, <1>1, <1>2 DEF LossInv, Others
  <2>2. ASSUME job[q].key \in Token, committed'[job[q].key] # Absent
        PROVE  committed'[job[q].key].expires <= job[q].since + RefreshTTL
    <3>1. job[q].key \in Delivered
      BY <1>0, <2>2, <1>2 DEF Names, SentBeforeUse
    <3>2. Later(committed[job[q].key], committed'[job[q].key])
      BY <1>3, <2>2, <3>1 DEF StaysStored, WasStored
    <3> QED BY <2>1, <2>2, <3>2 DEF Rotating, Later, Aged, Live
  <2> QED BY <1>0, <2>1, <2>2 DEF Rotating
<1>7. ASSUME NEW q \in Req \ {r} PROVE Purging(q)'
  <2>1. Purging(q) /\ Ending(q) /\ pc'[q] = pc[q] /\ job'[q] = job[q] /\ dirty'[q] = dirty[q]
    BY <1>0, <1>1, <1>2 DEF LossInv, Others, LossCause, CauseInv, EndInv
  <2>2. ASSUME job[q].op = "uninstall", NEW t \in Token, committed'[t] # Absent, committed'[t].next # None
        PROVE  /\ pc[q] = "purge" /\ committed'[t].next \in job[q].hit => t \in job[q].hit
               /\ dirty[q][committed'[t].next] = Absent => dirty[q][t] = Absent
    <3>1. CASE dirty[r][t] = Untouched
      BY <1>1, <2>1, <2>2, <3>1 DEF Row, Purging
    <3>2. CASE dirty[r][t] # Untouched
      <4> DEFINE n == committed'[t].next
      <4>1. committed'[t] = dirty[r][t] /\ Stored(dirty[r][t])
        BY <1>1, <2>2, <3>2 DEF Row, Stored
      <4>2. job[r].op = "rotate" /\ n = job[r].new
        BY <1>0, <2>2, <4>1 DEF Rotating
      <4>3. n \in Token /\ n \notin Delivered
        BY <1>0, <1>4, <2>2, <4>2 DEF TokenRow, Names, NewIsSecret
      <4>4. n \notin job[q].hit
        BY <2>1, <4>3 DEF Ending, Marked, FatedT, WasStored
      <4>5. Stored(dirty[r][n])
        BY <1>0, <2>2, <4>2 DEF Rotating
      <4>6. dirty[q][n] = Untouched
        BY <1>0, <4>3, <4>5 DEF RowLocks, Stored
      <4> QED BY <1>0, <4>4, <4>6
    <3> QED BY <3>1, <3>2
  <2> QED BY <2>1, <2>2 DEF Purging
<1> QED BY <1>5, <1>6, <1>7, FinishLasting DEF LossInv

\* A request that begins, or fails, holds nothing.
LEMMA IdleLoss ==
  ASSUME ~AutoCommit, LossCause, NEW r \in Req, Fail(r) \/ \E op \in AllOps : Begin(r, op)
  PROVE  LossInv'
<1>0. /\ Typed /\ LossInv /\ LockInv /\ Lasting /\ Names /\ Token \subseteq Key
      /\ clock' = clock /\ committed' = committed /\ Absent # Untouched /\ None \notin Token
  BY StoreConstants DEF LossCause, CauseInv, IInv, LossInv, Fail, Rollback, Begin, Rest, Key
<1>1. \A k \in Token : dirty'[r][k] = Untouched
  <2>1. CASE Fail(r)
    BY <1>0, <2>1, FailQuiet
  <2>2. CASE \E op \in AllOps : Begin(r, op)
    <3>1. pc[r] = "idle" /\ dirty' = dirty
      BY <2>2 DEF Begin
    <3> QED BY <1>0, <3>1, Unmarked DEF MayLock, Ticket
  <2> QED BY <2>1, <2>2
<1>2. /\ \A q \in Req \ {r} : dirty'[q] = dirty[q]
      /\ Others(r) /\ pc'[r] \notin {"reply", "purge"}
  <2>1. CASE Fail(r)
    BY <1>0, <2>1, FailQuiet, EndMoves DEF Quiet
  <2>2. ASSUME NEW op \in AllOps, Begin(r, op) PROVE dirty' = dirty /\ pc'[r] \notin {"reply", "purge"}
    <3>1. dirty' = dirty /\ \E label \in AllOps \cup {"select"} : Goto(r, label)
      BY <2>2 DEF Begin
    <3> QED BY <1>0, <3>1, GotoMoves DEF AllOps
  <2> QED BY <1>0, <2>1, <2>2, BeginMoves
<1>3. job'[r].key \in Token => job'[r].since = clock
  <2>1. CASE Fail(r)
    BY <1>0, <2>1, EndMoves
  <2>2. ASSUME NEW op \in AllOps, Begin(r, op) PROVE job'[r].since = clock
    <3>1. PICK key : Keep(r, [NoJob EXCEPT !.op = op, !.key = key, !.since = clock])
      BY <2>2 DEF Begin
    <3> DEFINE j == [NoJob EXCEPT !.op = op, !.key = key, !.since = clock]
    <3>2. j.since = clock
      BY DEF NoJob
    <3> HIDE DEF j
    <3> QED BY <1>0, <3>1, <3>2, KeepMoves DEF j
  <2> QED BY <2>1, <2>2
<1>4. Rotating(r)'
  BY <1>0, <1>1, <1>2, <1>3 DEF Rotating, Stored, Lasting
<1>5. \A t \in Token : committed[t] # Absent => committed[t].next \in Token \cup {None}
  BY <1>0, TokenRows DEF TokenRow
<1>6. Purging(r)'
  BY <1>0, <1>1, <1>2, <1>5 DEF Purging
<1> QED BY <1>0, <1>2, <1>4, <1>6, LossStep

LEMMA NextLoss ==
  ASSUME ~AutoCommit, LossCause, [Next]_vars
  PROVE  LossInv'
<1>0. /\ Typed /\ IInv /\ LineInv /\ LossInv /\ Lasting /\ clock \in Nat /\ RefreshTTL \in Nat
      /\ \A t \in Token : committed[t] # Absent => committed[t].expires \in Nat
  BY TokenRows, Limits DEF LossCause, CauseInv, IInv, LossInv, Typed, TypeOK, RequestsOK, TokenRow
<1>1. ASSUME NEW r \in Req, Step(r), ~Finish(r) PROVE LossInv'
  <2>1. clock' = clock
    BY <1>1
       DEF Step, Register, Authorize, Decide, Approve, Issue, Exchange, Replayed, Consume, Mint, Rotate,
           Retire, Chain, Revoke, Family, Revoking, Forget, Consents, Withdraw, Sessions, Select, Purge,
           Rest
  <2>2. /\ Others(r) /\ committed' = committed /\ \A q \in Req \ {r} : dirty'[q] = dirty[q]
    <3>1. CASE QuietStep(r) \/ Consume(r)
      BY <1>0, <3>1, QuietMoves, ConsumeMoves, QuietWrote DEF Wrote, Apart
    <3>2. CASE Retire(r)
      BY <1>0, <3>2, RetireMoves, RetireWrote DEF Wrote, Apart
    <3>3. CASE Issue(r) \/ Mint(r) \/ Chain(r)
      BY <1>0, <3>3, IssueMoves, MintMoves, ChainMoves, BornWrote DEF Wrote, Apart
    <3> QED BY <1>1, <3>1, <3>2, <3>3 DEF Step, QuietStep
  <2>3. Rotating(r)' /\ Purging(r)'
    <3>1. CASE Register(r) \/ Approve(r) \/ Forget(r) \/ Withdraw(r)
      <4>1. TokensStay(r) /\ QuietStep(r)
        BY <1>0, <3>1, OtherTickets DEF TicketsStay, TokensStay, Ticket, QuietStep
      <4>2. ~Select(r) /\ ~Purge(r)
        BY <3>1 DEF Register, Approve, Forget, Withdraw, Select, Purge
      <4> QED BY <2>1, <4>1, <4>2, QuietLoss
    <3>2. CASE \/ Authorize(r) \/ Decide(r) \/ Exchange(r) \/ Replayed(r) \/ Rotate(r) \/ Revoke(r)
               \/ Family(r) \/ Consents(r) \/ Sessions(r)
      <4>1. TokensStay(r) /\ QuietStep(r)
        BY <3>2
           DEF Authorize, Decide, Exchange, Replayed, Rotate, Revoke, Family, Consents, Sessions,
               TokensStay, QuietStep
      <4>2. ~Select(r) /\ ~Purge(r)
        BY <3>2
           DEF Authorize, Decide, Exchange, Replayed, Rotate, Revoke, Family, Consents, Sessions,
               Select, Purge
      <4> QED BY <2>1, <4>1, <4>2, QuietLoss
    <3> QED
      BY <1>1, <3>1, <3>2, RevokingLoss, SelectLoss, PurgeLoss, CodeLoss, BornLoss, RetireLoss DEF Step
  <2> QED BY <1>0, <2>1, <2>2, <2>3, LossStep
<1>2. ASSUME NEW r \in Req, Finish(r) PROVE LossInv'
  BY <1>2, FinishLoss
<1>3. ASSUME NEW r \in Req, Fail(r) \/ \E op \in AllOps : Begin(r, op) PROVE LossInv'
  BY <1>3, IdleLoss
<1>4. CASE UNCHANGED <<committed, dirty, pc, job>> /\ clock' \in {clock, clock + 1}
  <2>1. Lasting'
    BY <1>0, <1>4 DEF Lasting, Onward, Expired
  <2>2. ASSUME NEW q \in Req PROVE Rotating(q)' /\ Purging(q)'
    <3>1. \A t \in Token : Stored(dirty[q][t]) => dirty[q][t].expires \in Nat
      <4> SUFFICES ASSUME NEW t \in Token, Stored(dirty[q][t]) PROVE dirty[q][t].expires \in Nat
        OBVIOUS
      <4>1. Row(q, t) = dirty[q][t] /\ Row(q, t) \in TokenRow \cup {Absent}
        BY <1>0, TokenRows DEF Row, Stored
      <4> QED BY <4>1 DEF Stored, TokenRow
    <3> QED BY <1>0, <1>4, <3>1 DEF LossInv, Rotating, Purging
  <2> QED BY <2>1, <2>2 DEF LossInv
<1> QED BY <1>1, <1>2, <1>3, <1>4 DEF Next, Tick, Install, vars

LEMMA InitLoss == ASSUME Init PROVE LossInv
<1>1. \A k \in Token : committed[k] = Absent /\ \A r \in Req : dirty[r][k] = Untouched
  BY KeysDisjoint, Limits DEF Init, PgInit, NoWrites, Key
<1>2. \A r \in Req : job[r] = NoJob /\ pc[r] = "idle"
  BY DEF Init
<1> QED BY <1>1, <1>2, StoreConstants DEF LossInv, Lasting, Rotating, Purging, Stored, NoJob

\* However requests fail and interleave, a client whose refresh token was retired has its
\* successor, or a token whose time is over: rotate_refresh_token's UPDATE and INSERT commit
\* together, a cleanup takes the successor only once the predecessor's time is over as well,
\* and an uninstall takes both.
THEOREM NothingLost ==
  ASSUME ~AutoCommit
  PROVE  Spec => []NoTokenLost
<1>1. Init => LossCause
  BY InitCause, InitLoss DEF LossCause
<1>2. LossCause /\ [Next]_vars => LossCause'
  BY NextCause, NextLoss DEF LossCause
<1>3. LossCause => NoTokenLost
  BY DEF LossCause, LossInv, Lasting, Onward, NoTokenLost
<1> QED BY <1>1, <1>2, <1>3, PTL DEF Spec

-----------------------------------------------------------------------------
(* What an answer means while other requests run. *)

\* Each request takes note of what the others commit.
Notes(r) ==
  pc'[r] # "idle" =>
    /\ meanwhile[r] \ Reread(r) \subseteq meanwhile'[r]
    /\ pc'[r] = pc[r] => meanwhile[r] \cup {k \in Key : committed'[k] # committed[k]} \subseteq meanwhile'[r]

LEMMA ObserveNotes ==
  ASSUME [WaitNext /\ Observe]_overlapVars, NEW r \in Req
  PROVE  Notes(r)
<1>1. CASE Observe
  BY <1>1 DEF Observe, Notes
<1>2. CASE UNCHANGED overlapVars
  BY <1>2 DEF overlapVars, waitVars, vars, Notes
<1> QED BY <1>1, <1>2

\* A step is one of a request, or touches no request and no row.
LEMMA StepsOrQuiet ==
  ASSUME [WaitNext /\ Observe]_overlapVars
  PROVE  \/ \E r \in Req : Step(r) \/ Fail(r) \/ \E op \in AllOps : Begin(r, op)
         \/ UNCHANGED <<pc, job, committed, dirty, origin>>
BY DEF overlapVars, waitVars, vars, WaitNext, LockRow, Execute, Drop, Tick, Install

\* The answer of request r says that a token with this row has ended.
Meant(r, row) ==
  \/ job[r].op = "revoke" /\ row.code = job[r].code
  \/ /\ job[r].op = "consents" /\ job[r].grant # None
     /\ row.grant.user = job[r].grant.user /\ row.grant.client = job[r].grant.client
  \/ job[r].op = "exchange" /\ job[r].new = None /\ row.code = job[r].key

Answering == {"revoking", "forget", "reply"}

\* It has selected every token it says so of that was there.
Reaches(r) ==
  pc[r] \in Answering =>
    \A t \in Token : Live(Row(r, t)) /\ Meant(r, Row(r, t)) => t \in job[r].hit \cup meanwhile[r]

\* A revocation knows the family's grant up to a narrowing, and forgets its consent.
Forgets(r) ==
  job[r].op = "revoke" /\ job[r].code # None =>
    /\ job[r].code \in Code /\ job[r].grant \in Grant
    /\ Approved(job[r].grant, job[r].code, origin)
    /\ pc[r] = "reply" => Row(r, job[r].grant) = Absent \/ job[r].grant \in meanwhile[r]

\* A code that was found active had no token yet.
Unspent(r) ==
  /\ pc[r] = "consume" => \A t \in Token : Live(Row(r, t)) /\ Row(r, t).code = job[r].key =>
                           t \in meanwhile[r]
  /\ pc[r] = "register" => job[r].op = "register"

Serving(r) == Reaches(r) /\ Forgets(r) /\ Unspent(r)

ServeInv == \A r \in Req : Serving(r)

\* The endpoint a statement belongs to.
LEMMA OpsOf ==
  ASSUME CauseInv, NEW r \in Req
  PROVE  /\ pc[r] \in {"authorize", "consent", "approve", "issue"} => job[r].op = "authorize"
         /\ pc[r] \in {"exchange", "replayed", "consume", "mint"} => job[r].op = "exchange"
         /\ pc[r] \in {"rotate", "retire", "chain"} => job[r].op = "rotate"
         /\ pc[r] \in {"revoke", "family", "forget"} => job[r].op = "revoke"
         /\ pc[r] \in {"consents", "withdraw", "sessions"} => job[r].op = "consents"
         /\ pc[r] = "revoking" => job[r].op \in Revocations
         /\ pc[r] \in {"select", "purge"} => job[r].op \in {"cleanup", "uninstall"}
<1>1. Fits(pc[r], job[r]) /\ Proper(pc[r], job[r]) /\ Route(pc[r], job[r])
  BY DEF CauseInv, IInv, Typed, UseInv, Handing, LockInv, Locking
<1> QED BY <1>1 DEF Fits, Proper, Route, Revocations

\* A token that is live after a statement was so before, with the same row.
LEMMA LiveBefore ==
  ASSUME CauseInv, NEW r \in Req, Wrote(r, None), NEW t \in Token, Live(Row(r, t)')
  PROVE  Row(r, t)' = Row(r, t)
<1>1. Later(Row(r, t), Row(r, t)')
  BY NoTicket DEF Wrote, CauseInv, IInv
<1> QED BY <1>1 DEF Later, Aged, Live

\* What it had selected covers what it says as long as it means the same.
LEMMA SameMeaning ==
  ASSUME CauseInv, NEW r \in Req, Wrote(r, None), Reaches(r), pc[r] \in Answering, job'[r] = job[r],
         Notes(r), pc'[r] # "idle", Reread(r) \cap Token = {}
  PROVE  Reaches(r)'
<1>1. \A t \in Token : t \in meanwhile[r] => t \in meanwhile'[r]
  BY DEF Notes
<1> QED BY <1>1, LiveBefore DEF Reaches, Meant

\* Other requests' steps, and those that touch no row.
LEMMA OtherServing ==
  ASSUME NEW r \in Req, Serving(r), Notes(r), Kept(origin, origin'),
         pc'[r] = pc[r], job'[r] = job[r], dirty'[r] = dirty[r]
  PROVE  Serving(r)'
<1>1. ASSUME pc[r] # "idle", NEW k \in Key
      PROVE  /\ k \in meanwhile[r] => k \in meanwhile'[r]
             /\ Row(r, k)' = Row(r, k) \/ k \in meanwhile'[r]
  BY <1>1 DEF Notes, Row
<1>2. Token \subseteq Key /\ Grant \subseteq Key
  BY DEF Key, ConsentKey
<1>3. Reaches(r)'
  BY <1>1, <1>2 DEF Serving, Reaches, Answering, Meant
<1>4. Forgets(r)'
  BY <1>1, <1>2 DEF Serving, Forgets, Approved, Kept
<1>5. Unspent(r)'
  BY <1>1, <1>2 DEF Serving, Unspent
<1> QED BY <1>3, <1>4, <1>5 DEF Serving

\* A request that was refused, or has ended, says nothing.
LEMMA SaysNothing ==
  ASSUME Typed', NEW r \in Req, job'[r].code = None, job'[r].key = None, job'[r].grant = None,
         pc'[r] \notin {"consume", "register"}
  PROVE  Serving(r)'
<1>1. ASSUME NEW t \in Token, Live(Row(r, t)')
      PROVE  ~Meant(r, Row(r, t))'
  <2>1. Row(r, t)' \in TokenRow
    <3>1. t \in Key /\ Rows(t) = TokenRow \cup {Absent} /\ Untouched \notin Rows(t)
      BY KeyKinds DEF Key
    <3> QED BY <1>1, <3>1 DEF Typed, TypeOK, StoreOK, Row, Live
  <2> QED BY <2>1, StoreConstants DEF Meant, TokenRow
<1> QED BY <1>1 DEF Serving, Reaches, Forgets, Unspent

\* A request that has answered, or failed, starts anew.
LEMMA EndServing ==
  ASSUME CauseInv, Typed', NEW r \in Req,
         Finish(r) \/ Fail(r) \/ \E op \in AllOps : Begin(r, op)
  PROVE  Serving(r)'
<1>0. Typed
  BY DEF CauseInv, IInv
<1>1. CASE Finish(r) \/ Fail(r)
  <2>1. Keep(r, NoJob) /\ Goto(r, "idle")
    BY <1>1 DEF Finish, Fail
  <2>2. job'[r] = NoJob /\ pc'[r] = "idle"
    BY <1>0, <2>1, KeepMoves, GotoMoves
  <2> QED BY <2>2, SaysNothing DEF NoJob
<1>2. ASSUME NEW op \in AllOps, Begin(r, op)
      PROVE  Serving(r)'
  <2>1. PICK key : Keep(r, [NoJob EXCEPT !.op = op, !.key = key,
                              !.since = IF AutoCommit /\ op # "cleanup" THEN 0 ELSE clock])
    BY <1>2 DEF Begin
  <2> DEFINE j == [NoJob EXCEPT !.op = op, !.key = key,
                                !.since = IF AutoCommit /\ op # "cleanup" THEN 0 ELSE clock]
  <2>2. j.op = op /\ j.code = None
    BY DEF NoJob
  <2> HIDE DEF j
  <2>3. job'[r].op = op /\ job'[r].code = None
    BY <1>0, <2>1, <2>2, KeepMoves DEF j
  <2>4. pc'[r] = IF op \in {"uninstall", "cleanup"} THEN "select" ELSE op
    BY <1>0, <1>2, GotoMoves DEF Begin
  <2> QED BY <2>3, <2>4 DEF Serving, Reaches, Forgets, Unspent, Answering, AllOps
<1> QED BY <1>1, <1>2

\* An error answer says nothing.
LEMMA RefuseServing ==
  ASSUME CauseInv, Typed', NEW r \in Req, Refuse(r)
  PROVE  Serving(r)'
<1> DEFINE j == [NoJob EXCEPT !.op = job[r].op]
<1>1. j.code = None /\ j.key = None /\ j.grant = None
  BY DEF NoJob
<1> HIDE DEF j
<1>2. job'[r] = j /\ pc'[r] = "reply"
  BY KeepMoves, GotoMoves DEF Refuse, CauseInv, IInv, j
<1> QED BY <1>1, <1>2, SaysNothing

\* The code and a token of it are never live at once.
LEMMA TokenlessCode ==
  ASSUME CauseInv, NEW r \in Req, pc[r] = "exchange", Row(r, job[r].key) # Absent,
         NEW t \in Token, Live(Row(r, t))
  PROVE  Row(r, t).code # job[r].key
<1> DEFINE c == job[r].key
<1>1. /\ Typed /\ Paid /\ OneRightPerGrant /\ c \in Code
  BY JobTyped DEF CauseInv, IInv, Fits
<1>2. committed[c] = Row(r, c) /\ committed[t] = Row(r, t)
  BY <1>1, NothingBorn
<1>3. Row(r, t).code = c => c \in Rights(c) /\ t \in Rights(c)
  BY <1>1, <1>2 DEF Rights, LiveTokens
<1> QED BY <1>1, <1>3, KeysDisjoint DEF OneRightPerGrant

\* A handler that goes on reading.
LEMMA ReadServing ==
  ASSUME CauseInv, Typed', NEW r \in Req,
         Authorize(r) \/ Decide(r) \/ Exchange(r) \/ Rotate(r) \/ Revoke(r) \/ Consents(r)
  PROVE  Serving(r)'
<1>0. /\ Typed /\ IInv /\ LineInv /\ dirty' = dirty /\ committed' = committed /\ origin' = origin
      /\ job[r] \in Job
  BY JobTyped DEF CauseInv, IInv, Authorize, Decide, Exchange, Rotate, Revoke, Consents, Rest
<1>1. CASE Refuse(r)
  BY <1>1, RefuseServing
<1>2. CASE Revoke(r) /\ ~Refuse(r)
  <2> DEFINE row == Row(r, job[r].key)
             j == [job[r] EXCEPT !.grant = row.grant, !.code = row.code]
  <2>1. pc[r] = "revoke" /\ row # Absent /\ Goto(r, "family") /\ Keep(r, j)
    BY <1>2 DEF Revoke
  <2>2. job[r].key \in Token
    BY <1>0, <2>1, JobTyped DEF Fits
  <2>3. row \in TokenRow /\ Approved(row.grant, row.code, origin)
    BY <1>0, <2>1, <2>2, TokenRows, LineRows DEF LineInv, InLine, Ticket
  <2>4. j.grant = row.grant /\ j.code = row.code /\ j.op = job[r].op
    BY <1>0 DEF Job
  <2> HIDE DEF j
  <2>5. job'[r] = j /\ pc'[r] = "family"
    BY <1>0, <2>1, KeepMoves, GotoMoves
  <2> QED BY <1>0, <2>3, <2>4, <2>5 DEF Serving, Reaches, Forgets, Unspent, Answering, TokenRow
<1>3. CASE Exchange(r) /\ ~Refuse(r)
  <2>1. /\ pc[r] = "exchange"
        /\ \/ Goto(r, "replayed") /\ UNCHANGED job
           \/ /\ CodeActive(r, job[r].key, Now(r)) /\ Goto(r, "consume")
              /\ \E g : Keep(r, [job[r] EXCEPT !.grant = g])
    BY <1>3 DEF Exchange
  <2>2. job[r].op = "exchange"
    BY <2>1, OpsOf
  <2>3. CASE Goto(r, "replayed") /\ UNCHANGED job
    BY <1>0, <2>2, <2>3, GotoMoves DEF Serving, Reaches, Forgets, Unspent, Answering
  <2>4. CASE CodeActive(r, job[r].key, Now(r)) /\ Goto(r, "consume")
             /\ \E g : Keep(r, [job[r] EXCEPT !.grant = g])
    <3>1. PICK g : Keep(r, [job[r] EXCEPT !.grant = g])
      BY <2>4
    <3> DEFINE j == [job[r] EXCEPT !.grant = g]
    <3>2. j.op = "exchange" /\ j.key = job[r].key
      BY <1>0, <2>2 DEF Job
    <3> HIDE DEF j
    <3>3. job'[r] = j /\ pc'[r] = "consume"
      BY <1>0, <2>4, <3>1, KeepMoves, GotoMoves DEF j
    <3>4. \A t \in Token : Live(Row(r, t)) => Row(r, t).code # job[r].key
      BY <2>1, <2>4, TokenlessCode DEF CodeActive, Unexpired
    <3> QED BY <1>0, <3>2, <3>3, <3>4 DEF Serving, Reaches, Forgets, Unspent, Answering, Row
  <2> QED BY <2>1, <2>3, <2>4
<1>4. CASE (Authorize(r) \/ Decide(r) \/ Rotate(r) \/ Consents(r)) /\ ~Refuse(r)
  <2>1. pc[r] \in {"authorize", "consent", "rotate", "consents"}
    BY <1>4 DEF Authorize, Decide, Rotate, Consents
  <2>2. \E label \in {"consent", "issue", "approve", "retire", "withdraw"} : Goto(r, label)
    BY <1>4 DEF Authorize, Decide, Rotate, Consents
  <2>3. \E x : Keep(r, [job[r] EXCEPT !.grant = x]) \/ Keep(r, [job[r] EXCEPT !.decision = x])
    BY <1>4 DEF Authorize, Decide, Rotate, Consents
  <2>4. job'[r].op = job[r].op
    BY <1>0, <2>3, SetSame
  <2>5. job[r].op # "revoke"
    BY <2>1, OpsOf
  <2>6. pc'[r] \in {"consent", "issue", "approve", "retire", "withdraw"}
    BY <1>0, <2>2, GotoMoves
  <2> QED BY <2>4, <2>5, <2>6 DEF Serving, Reaches, Forgets, Unspent, Answering
<1> QED BY <1>1, <1>2, <1>3, <1>4

\* A snapshot finds all tokens that the answer will be about.
LEMMA SnapshotServing ==
  ASSUME CauseInv, NEW r \in Req, Serving(r), Replayed(r) \/ Family(r) \/ Sessions(r)
  PROVE  Serving(r)'
<1>0. /\ Typed /\ LineInv /\ dirty' = dirty /\ committed' = committed /\ origin' = origin
  BY DEF CauseInv, IInv, Replayed, Family, Sessions, Rest
<1> DEFINE wanted == {t \in Token : Live(Row(r, t)) /\ Meant(r, Row(r, t))}
<1>1. /\ pc[r] \in {"replayed", "family", "sessions"} /\ pc'[r] = "revoking"
      /\ \E K : Keep(r, [job[r] EXCEPT !.hit = K]) /\ wanted \subseteq K
  <2>1. CASE Replayed(r)
    <3>1. job[r].op = "exchange"
      BY <2>1, OpsOf DEF Replayed
    <3>2. wanted \subseteq CodeTokenRows(r, job[r].key)
      BY <3>1 DEF Meant, CodeTokenRows
    <3> QED BY <1>0, <2>1, <3>2, GotoMoves DEF Replayed
  <2>2. CASE Family(r)
    <3>1. job[r].op = "revoke" /\ pc[r] = "family"
      BY <2>2, OpsOf DEF Family
    <3>2. job[r].code \in Code
      BY <1>0, <3>1, JobTyped DEF Fits
    <3>3. Approved(job[r].grant, job[r].code, origin)
      BY <3>1, <3>2, StoreConstants DEF Serving, Forgets
    <3>4. ASSUME NEW t \in wanted
          PROVE  /\ Row(r, t).code = job[r].code /\ Row(r, t).grant.user = job[r].grant.user
                 /\ Row(r, t).grant.client = job[r].grant.client
      <4>1. Row(r, t).code = job[r].code /\ Row(r, t) # Absent
        BY <3>1 DEF Meant, Live
      <4>2. Approved(Row(r, t).grant, job[r].code, origin)
        BY <1>0, <4>1, LineRows DEF LineInv, InLine, Ticket
      <4> QED BY <3>3, <4>1, <4>2 DEF Approved, Within
    <3>5. wanted \subseteq FamilyRows(r, job[r].grant.user, job[r].grant.client, job[r].code)
      BY <3>4 DEF FamilyRows
    <3> QED BY <1>0, <2>2, <3>1, <3>5, GotoMoves DEF Family
  <2>3. CASE Sessions(r)
    <3>1. job[r].op = "consents"
      BY <2>3, OpsOf DEF Sessions
    <3>2. wanted \subseteq UserClientRows(r, job[r].grant.user, job[r].grant.client)
      BY <3>1 DEF Meant, UserClientRows
    <3> QED BY <1>0, <2>3, <3>2, GotoMoves DEF Sessions
  <2> QED BY <2>1, <2>2, <2>3
<1>2. PICK K : Keep(r, [job[r] EXCEPT !.hit = K]) /\ wanted \subseteq K
  BY <1>1
<1> DEFINE j == [job[r] EXCEPT !.hit = K]
<1>3. /\ j.op = job[r].op /\ j.code = job[r].code /\ j.grant = job[r].grant /\ j.key = job[r].key
      /\ j.new = job[r].new /\ j.hit = K
  BY <1>0, JobTyped DEF Job
<1> HIDE DEF j
<1>4. job'[r] = j
  BY <1>0, <1>2, KeepMoves DEF j
<1>5. Reaches(r)'
  BY <1>0, <1>2, <1>3, <1>4 DEF Reaches, Meant, Row
<1>6. Forgets(r)'
  BY <1>0, <1>1, <1>3, <1>4 DEF Serving, Forgets
<1> QED BY <1>1, <1>5, <1>6 DEF Serving, Unspent

\* A request whose next answer is about nothing that it has not ended.
LEMMA SilentServing ==
  ASSUME NEW r \in Req, pc'[r] \notin {"consume", "register"},
         \/ pc'[r] \notin Answering
         \/ job'[r].op \notin Revocations
         \/ job'[r].op = "exchange" /\ job'[r].new # None,
         job'[r].op = "revoke" => job'[r].code = None
  PROVE  Serving(r)'
BY DEF Serving, Reaches, Forgets, Unspent, Meant, Revocations

\* The writes of a revocation, a withdrawal and their likes.
LEMMA WriteServing ==
  ASSUME CauseInv, NEW r \in Req, Serving(r), Notes(r),
         Revoking(r) \/ Forget(r) \/ Withdraw(r) \/ Purge(r) \/ Approve(r) \/ Register(r)
  PROVE  Serving(r)'
<1>0. /\ Typed /\ IInv /\ OnlyDeletes /\ StoreOK /\ job' = job /\ origin' = origin /\ Wrote(r, None)
  BY QuietWrote
     DEF CauseInv, IInv, Typed, TypeOK, Revoking, Forget, Withdraw, Purge, Approve, Register, Rest, QuietStep
<1>1. CASE Revoking(r)
  <2>1. pc[r] = "revoking" /\ pc'[r] = (IF job[r].op = "revoke" THEN "forget" ELSE "reply")
    BY <1>0, <1>1, GotoMoves DEF Revoking, AfterRevoking
  <2>a. Reread(r) = {} /\ pc'[r] # "idle"
    BY <2>1 DEF Reread
  <2>2. Reaches(r)'
    BY <1>0, <2>1, <2>a, SameMeaning DEF Serving, Answering
  <2>3. Forgets(r)'
    <3>1. job[r].op = "revoke" => pc'[r] = "forget"
      BY <2>1
    <3> QED BY <1>0, <3>1 DEF Serving, Forgets
  <2> QED BY <2>1, <2>2, <2>3 DEF Serving, Unspent
<1>2. CASE Forget(r)
  <2> DEFINE g == job[r].grant
  <2>1. pc[r] = "forget" /\ pc'[r] = "reply" /\ DeleteConsent(r, g) /\ job[r].op = "revoke"
    BY <1>0, <1>2, GotoMoves, OpsOf DEF Forget
  <2>2. g \in Grant /\ g \in Key /\ Absent \in Rows(g)
    BY <1>0, <2>1, JobTyped, KeyKinds DEF Fits, Key, ConsentKey
  <2>3. Row(r, g)' = Absent
    <3>1. CASE NoRow
      BY <2>1, <3>1, <2>2, PutFacts, <1>0, Limits, StoreConstants
         DEF DeleteConsent, NoRow, Row, OnlyDeletes
    <3>2. CASE Put(r, g, Absent)
      BY <1>0, <2>2, <3>2, PutFacts, Limits, StoreConstants DEF OnlyDeletes, Row
    <3> QED BY <2>1, <3>1, <3>2 DEF DeleteConsent
  <2>a. Reread(r) \cap Token = {} /\ pc'[r] # "idle"
    BY <2>1, <2>2, KeysDisjoint DEF Reread
  <2>4. Reaches(r)'
    BY <1>0, <2>1, <2>a, SameMeaning DEF Serving, Answering
  <2>5. Forgets(r)'
    BY <1>0, <2>3 DEF Serving, Forgets
  <2> QED BY <2>1, <2>4, <2>5 DEF Serving, Unspent
<1>3. CASE Withdraw(r) \/ Purge(r) \/ Approve(r) \/ Register(r)
  <2>1. /\ pc[r] \in {"withdraw", "purge", "approve", "register"}
        /\ pc'[r] \in {"sessions", "reply", "select", "issue"}
        /\ pc[r] = "withdraw" => pc'[r] = "sessions"
    BY <1>0, <1>3, GotoMoves DEF Withdraw, Purge, Approve, Register
  <2>2. job[r].op # "revoke" /\ (pc[r] # "withdraw" => job[r].op \notin Revocations)
    BY <2>1, OpsOf DEF Serving, Unspent, Revocations
  <2> QED BY <1>0, <2>1, <2>2, SilentServing DEF Answering
<1> QED BY <1>1, <1>2, <1>3

\* A purge's snapshot is about no family.
LEMMA SelectServing ==
  ASSUME CauseInv, NEW r \in Req, Select(r)
  PROVE  Serving(r)'
<1>0. Typed /\ pc[r] = "select" /\ Goto(r, "purge")
  BY DEF CauseInv, IInv, Select
<1>1. job[r].op \in {"cleanup", "uninstall"}
  BY <1>0, OpsOf
<1>2. \E K, n : Keep(r, [job[r] EXCEPT !.hit = K, !.table = n])
  BY DEF Select
<1>3. job'[r].op = job[r].op
  BY <1>0, <1>2, SetHit DEF Remembers, SameCause
<1>4. pc'[r] = "purge"
  BY <1>0, GotoMoves
<1> QED BY <1>1, <1>3, <1>4, SilentServing DEF Answering

\* A request that trades a code or a token.
LEMMA TradeServing ==
  ASSUME CauseInv, Typed', NEW r \in Req, Issue(r) \/ Mint(r) \/ Retire(r) \/ Chain(r)
  PROVE  Serving(r)'
<1>0. Typed
  BY DEF CauseInv, IInv
<1>1. CASE Refuse(r)
  BY <1>1, RefuseServing
<1>2. CASE Issue(r)
  <2>1. pc[r] = "issue" /\ job[r].op = "authorize" /\ \E c : Keep(r, [job[r] EXCEPT !.new = c])
    BY <1>2, OpsOf DEF Issue
  <2>2. job'[r].op = "authorize" /\ pc'[r] = "reply"
    BY <1>0, <1>2, <2>1, SetNew, GotoMoves DEF Issue, Remembers, SameCause
  <2> QED BY <2>2, SilentServing DEF Revocations
<1>3. CASE Mint(r)
  <2>1. pc[r] = "mint" /\ job[r].op = "exchange"
    BY <1>3, OpsOf DEF Mint
  <2>2. PICK t \in Token : MintFacts(r, t)
    BY <1>0, <1>3, MintMoves
  <2>3. \E c : Keep(r, [job[r] EXCEPT !.new = c])
    BY <1>3 DEF Mint
  <2>4. job'[r].op = "exchange" /\ job'[r].new # None /\ pc'[r] = "reply"
    BY <1>0, <2>1, <2>2, <2>3, SetNew, StoreConstants DEF MintFacts, Remembers, SameCause
  <2> QED BY <2>4, SilentServing
<1>4. CASE Retire(r) /\ ~Refuse(r)
  <2>1. pc[r] = "retire" /\ job[r].op = "rotate" /\ Goto(r, "chain")
        /\ \E x, y : Keep(r, [job[r] EXCEPT !.new = x, !.code = y])
    BY <1>4, OpsOf DEF Retire
  <2>2. job'[r].op = "rotate" /\ pc'[r] = "chain"
    BY <1>0, <2>1, SetSame, GotoMoves
  <2> QED BY <2>2, SilentServing DEF Revocations
<1>5. CASE Chain(r)
  <2>1. pc[r] = "chain" /\ job[r].op = "rotate" /\ job' = job /\ pc'[r] = "reply"
    BY <1>0, <1>5, OpsOf, GotoMoves DEF Chain
  <2> QED BY <2>1, SilentServing DEF Revocations
<1> QED BY <1>1, <1>2, <1>3, <1>4, <1>5

\* An exchange that does not find its code any more has no token to end but newer ones.
LEMMA ConsumeServing ==
  ASSUME CauseInv, NEW r \in Req, Serving(r), Notes(r), Consume(r)
  PROVE  Serving(r)'
<1> DEFINE c == job[r].key
<1>0. /\ Typed /\ job' = job /\ pc[r] = "consume" /\ job[r].op = "exchange"
  BY OpsOf DEF CauseInv, IInv, Consume
<1>1. CASE NoRow /\ Goto(r, "reply")
  <2>1. pc'[r] = "reply" /\ \A t \in Token : Row(r, t)' = Row(r, t)
    BY <1>0, <1>1, GotoMoves DEF NoRow, Row
  <2>2. Reread(r) = {}
    BY <1>0, <2>1 DEF Reread
  <2>3. \A t \in Token : Live(Row(r, t)) /\ Row(r, t).code = c => t \in meanwhile'[r]
    BY <1>0, <2>1, <2>2 DEF Serving, Unspent, Notes
  <2>4. Reaches(r)'
    BY <1>0, <2>1, <2>3 DEF Reaches, Meant
  <2> QED BY <1>0, <2>1, <2>4 DEF Serving, Forgets, Unspent
<1>2. CASE Goto(r, "mint")
  <2>1. pc'[r] = "mint"
    BY <1>0, <1>2, GotoMoves
  <2> QED BY <1>0, <2>1, SilentServing DEF Answering
<1> QED BY <1>1, <1>2 DEF Consume

\* What was approved for a code is never changed.
LEMMA OriginsStay ==
  ASSUME CauseInv, [Next]_vars
  PROVE  Kept(origin, origin')
<1>0. Typed /\ LineInv
  BY DEF CauseInv, IInv
<1>1. CASE origin' = origin
  BY <1>1 DEF Kept
<1>2. ASSUME NEW r \in Req, Issue(r)
      PROVE  Kept(origin, origin')
  <2>1. PICK c \in Code \ generated : origin' = [origin EXCEPT ![c] = job[r].grant]
    BY <1>2 DEF Issue, FreshCodes
  <2>2. origin[c] = None
    BY <1>0 DEF LineInv
  <2>3. origin \in [Code -> Grant \cup {None}]
    BY <1>0 DEF Typed, TypeOK, RequestsOK
  <2> QED BY <2>1, <2>2, <2>3 DEF Kept
<1> QED
  BY <1>1, <1>2
     DEF Next, Step, Fail, Begin, Finish, Register, Authorize, Decide, Approve, Exchange, Replayed,
         Consume, Mint, Rotate, Retire, Chain, Revoke, Family, Revoking, Forget, Consents, Withdraw,
         Sessions, Select, Purge, Rest, Tick, Install, vars

\* A step of one request leaves the others' handlers and writes alone.
LEMMA OnlyMine ==
  ASSUME CauseInv, NEW r \in Req, Step(r) \/ Fail(r) \/ \E op \in AllOps : Begin(r, op)
  PROVE  Others(r) /\ \A q \in Req \ {r} : dirty'[q] = dirty[q]
<1>0. IInv /\ Typed
  BY DEF CauseInv, IInv
<1>1. CASE QuietStep(r) \/ Consume(r)
  BY <1>0, <1>1, QuietMoves, ConsumeMoves, QuietWrote DEF Wrote
<1>2. CASE Retire(r)
  BY <1>0, <1>2, RetireMoves, RetireWrote DEF Wrote
<1>3. CASE Issue(r) \/ Mint(r) \/ Chain(r)
  BY <1>0, <1>3, IssueMoves, MintMoves, ChainMoves, BornWrote DEF Wrote
<1>4. CASE Finish(r) \/ Fail(r)
  BY <1>0, <1>4, EndMoves, CommitFacts, FailQuiet DEF Quiet
<1>5. CASE \E op \in AllOps : Begin(r, op)
  BY <1>0, <1>5, BeginMoves DEF Begin
<1> QED BY <1>1, <1>2, <1>3, <1>4, <1>5 DEF Step, QuietStep

\* Another request's commit is noted, so ServeInv is inductive.
LEMMA NextServe ==
  ASSUME CauseInv, ServeInv, [WaitNext /\ Observe]_overlapVars
  PROVE  ServeInv'
<1>0. [Next]_vars /\ \A q \in Req : Serving(q) /\ Notes(q)
  BY WaitIsNext, ObserveNotes DEF ServeInv, overlapVars
<1>1. Typed' /\ Kept(origin, origin')
  BY <1>0, NextIInv, OriginsStay DEF CauseInv, IInv
<1>2. ASSUME NEW r \in Req, Step(r) \/ Fail(r) \/ \E op \in AllOps : Begin(r, op)
      PROVE  ServeInv'
  <2>1. Serving(r)'
    BY <1>0, <1>1, <1>2, EndServing, ReadServing, SnapshotServing, WriteServing, SelectServing,
       TradeServing, ConsumeServing DEF Step
  <2>2. ASSUME NEW q \in Req \ {r} PROVE Serving(q)'
    BY <1>0, <1>1, <1>2, OnlyMine, OtherServing DEF Others
  <2> QED BY <2>1, <2>2 DEF ServeInv
<1>3. CASE UNCHANGED <<pc, job, committed, dirty, origin>>
  BY <1>0, <1>1, <1>3, OtherServing DEF ServeInv
<1> QED BY <1>2, <1>3, StepsOrQuiet

\* No request has begun.
LEMMA InitServe == Init => ServeInv
BY DEF Init, NoJob, ServeInv, Serving, Reaches, Forgets, Unspent, Answering

LEMMA NextServing == CauseInv /\ ServeInv /\ [WaitNext /\ Observe]_overlapVars => (CauseInv /\ ServeInv)'
BY WaitIsNext, NextCause, NextServe DEF overlapVars

LEMMA ServeAlways == OverlapSpec => [](CauseInv /\ ServeInv)
<1>1. OverlapInit => CauseInv /\ ServeInv
  BY InitCause, InitServe DEF OverlapInit, WaitInit
<1> QED BY <1>1, NextServing, PTL DEF OverlapSpec

\* No live token is left of which an answer says it has ended, but newer ones.
LEMMA RepliesAreMeant ==
  ASSUME CauseInv, ServeInv, NEW r \in Req, Answered(r), NEW t \in Token, Live(committed'[t]),
         job[r].op \in Revocations, Meant(r, committed'[t])
  PROVE  t \in meanwhile[r]
<1>1. Typed /\ Finish(r) /\ pc[r] = "reply" /\ Reaches(r) /\ Ending(r)
  BY DEF CauseInv, IInv, EndInv, ServeInv, Serving, Answered
<1>2. committed'[t] = Row(r, t)
  BY <1>1, CommitFacts DEF Row, Key
<1> QED BY <1>1, <1>2 DEF Reaches, Ending, Answering

\* When /oauth/revoke answers, whatever other requests run, no token of the family is live
\* but those another request committed after the UPDATE took its snapshot: the presented
\* token names the family's user and client (revoke.py, revoke_refresh_family).
THEOREM RevokeReachesFamily == OverlapSpec => RevokeMissesOnlyNewer
<1>1. CauseInv /\ ServeInv /\ [WaitNext /\ Observe]_overlapVars =>
        [\A r \in Req : Replies(r, "revoke") /\ job[r].code # None =>
           \A t \in Token : Live(committed'[t]) /\ committed'[t].code = job[r].code =>
             t \in meanwhile[r]]_overlapVars
  BY RepliesAreMeant DEF Replies, Meant, Revocations
<1> QED BY <1>1, ServeAlways, PTL DEF OverlapSpec, RevokeMissesOnlyNewer

\* When a withdrawal answers, whatever other requests run, the user has no live token of the
\* client but those another request committed after the UPDATE took its snapshot
\* (consents.py, revoke_user_client_refresh_tokens).
THEOREM WithdrawalReachesSessions == OverlapSpec => WithdrawalMissesOnlyNewer
<1>1. CauseInv /\ ServeInv /\ [WaitNext /\ Observe]_overlapVars =>
        [\A r \in Req : Replies(r, "consents") /\ job[r].grant # None =>
           \A t \in Token : Live(committed'[t]) =>
             \/ committed'[t].grant.user # job[r].grant.user
             \/ committed'[t].grant.client # job[r].grant.client
             \/ t \in meanwhile[r]]_overlapVars
  BY RepliesAreMeant DEF Replies, Meant, Revocations
<1> QED BY <1>1, ServeAlways, PTL DEF OverlapSpec, WithdrawalMissesOnlyNewer

\* A denied replay of a code leaves no live token it led to, by however many rotations, but
\* those another request committed after this one had read the code or taken the UPDATE's
\* snapshot (token.py, revoke_refresh_tokens_by_auth_code).
THEOREM ReplayReachesFamily == OverlapSpec => ReplayMissesOnlyNewer
<1>1. CauseInv /\ ServeInv /\ [WaitNext /\ Observe]_overlapVars =>
        [\A r \in Req : Replies(r, "exchange") /\ job[r].key # None /\ job[r].new = None =>
           \A t \in Token : Live(committed'[t]) /\ committed'[t].code = job[r].key =>
             t \in meanwhile[r]]_overlapVars
  BY RepliesAreMeant DEF Replies, Meant, Revocations
<1> QED BY <1>1, ServeAlways, PTL DEF OverlapSpec, ReplayMissesOnlyNewer

\* /oauth/revoke, with a token as wide as what was approved for its code, forgets that consent
\* whatever other requests run, unless one stores it again after the DELETE (revoke.py,
\* delete_consent).
THEOREM RevokeForgetsWhole == OverlapSpec => RevokeForgetsUnlessRenewed
<1>1. CauseInv /\ ServeInv /\ [WaitNext /\ Observe]_overlapVars =>
        [\A r \in Req : Replies(r, "revoke") /\ job[r].code # None /\ job[r].grant = origin[job[r].code] =>
           committed'[job[r].grant] = Absent \/ job[r].grant \in meanwhile[r]]_overlapVars
  <2> SUFFICES ASSUME CauseInv, ServeInv, NEW r \in Req, Replies(r, "revoke"), job[r].code # None
               PROVE  committed'[job[r].grant] = Absent \/ job[r].grant \in meanwhile[r]
    OBVIOUS
  <2>1. Typed /\ Finish(r) /\ pc[r] = "reply" /\ Forgets(r) /\ job[r].op = "revoke"
    BY DEF CauseInv, IInv, ServeInv, Serving, Replies, Answered
  <2>2. job[r].grant \in Key /\ (Row(r, job[r].grant) = Absent \/ job[r].grant \in meanwhile[r])
    BY <2>1 DEF Forgets, Key, ConsentKey
  <2> QED BY <2>1, <2>2, CommitFacts DEF Row
<1> QED BY <1>1, ServeAlways, PTL DEF OverlapSpec, RevokeForgetsUnlessRenewed

-----------------------------------------------------------------------------
(* What an uninstall leaves while other requests run. *)

Purges == {"cleanup", "uninstall"}

\* The tables before the one that is next are empty, and the next one's rows are selected,
\* but for newer ones.
Emptied(r) ==
  /\ pc[r] = "select" =>
       \A k \in Before("uninstall", job[r].table + 1) : Row(r, k) = Absent \/ k \in meanwhile[r]
  /\ pc[r] = "purge" =>
       /\ \A k \in Before("uninstall", job[r].table) : Row(r, k) = Absent \/ k \in meanwhile[r]
       /\ StoredRows(r, PurgePlan("uninstall")[job[r].table]) \subseteq job[r].hit \cup meanwhile[r]
  /\ pc[r] = "reply" => \A k \in Key : Row(r, k) = Absent \/ k \in meanwhile[r]

Emptying(r) ==
  /\ job[r].op \in Purges => pc[r] \in {"select", "purge", "reply"}
  /\ job[r].op = "uninstall" => Emptied(r)

EmptyInv == \A r \in Req : Emptying(r)

LEMMA PlanTables ==
  /\ Len(PurgePlan("uninstall")) = 4
  /\ PurgePlan("uninstall")[1] = ConsentKey /\ PurgePlan("uninstall")[2] = Token
  /\ PurgePlan("uninstall")[3] = Code /\ PurgePlan("uninstall")[4] = Client
  /\ \A n \in 1 .. 4 : PurgePlan("uninstall")[n] \subseteq Key
BY DEF PurgePlan, Key

\* The tables an uninstall has done, and the one it is at.
LEMMA BeforeNext ==
  ASSUME NEW i \in 1 .. 4
  PROVE  Before("uninstall", i + 1) = Before("uninstall", i) \cup PurgePlan("uninstall")[i]
<1> DEFINE plan(n) == PurgePlan("uninstall")[n]
<1>1. /\ \A k : k \in Before("uninstall", i + 1) <=> \E n \in 1 .. (i + 1 - 1) : k \in plan(n)
      /\ \A k : k \in Before("uninstall", i) <=> \E n \in 1 .. (i - 1) : k \in plan(n)
  BY DEF Before
<1>2. \A n : n \in 1 .. (i + 1 - 1) <=> n \in 1 .. (i - 1) \/ n = i
  OBVIOUS
<1> HIDE DEF plan
<1>3. \A k : k \in Before("uninstall", i + 1) <=> k \in Before("uninstall", i) \/ k \in plan(i)
  BY <1>1, <1>2
<1> QED BY <1>3 DEF plan

LEMMA BeforeKeys ==
  ASSUME NEW i \in 1 .. 5
  PROVE  Before("uninstall", i) \subseteq Key
BY PlanTables DEF Before

\* The handler of another endpoint.
LEMMA OtherOp ==
  ASSUME NEW r \in Req, job'[r].op \notin Purges
  PROVE  Emptying(r)'
BY DEF Emptying, Purges

\* Other requests' steps, and those that touch no row.
LEMMA OtherEmptying ==
  ASSUME Typed, NEW r \in Req, Emptying(r), Notes(r),
         pc'[r] = pc[r], job'[r] = job[r], dirty'[r] = dirty[r]
  PROVE  Emptying(r)'
<1>1. ASSUME pc[r] # "idle", NEW k \in Key
      PROVE  /\ k \in meanwhile[r] => k \in meanwhile'[r]
             /\ Row(r, k)' = Row(r, k) \/ k \in meanwhile'[r]
  BY <1>1 DEF Notes, Row
<1>2. ASSUME job[r].op = "uninstall", pc[r] = "select" PROVE Emptied(r)'
  <2>a. job[r].table \in Nat /\ job[r].table < Len(PurgePlan(job[r].op))
    BY <1>2, JobTyped DEF Fits, Job
  <2>b. Len(PurgePlan(job[r].op)) = 4
    BY <1>2, PlanTables
  <2>1. job[r].table + 1 \in 1 .. 5
    BY <2>a, <2>b
  <2> QED BY <1>1, <1>2, <2>1, BeforeKeys DEF Emptying, Emptied
<1>3. ASSUME job[r].op = "uninstall", pc[r] = "purge" PROVE Emptied(r)'
  <2>1. job[r].table \in 1 .. 4
    BY <1>3, JobTyped, PlanTables DEF Fits
  <2>2. Before("uninstall", job[r].table) \subseteq Key /\ PurgePlan("uninstall")[job[r].table] \subseteq Key
    BY <2>1, BeforeKeys, PlanTables
  <2> QED BY <1>1, <1>3, <2>2 DEF Emptying, Emptied, StoredRows
<1>4. ASSUME job[r].op = "uninstall", pc[r] \notin {"select", "purge"} PROVE Emptied(r)'
  BY <1>1, <1>4 DEF Emptying, Emptied, Purges
<1> QED BY <1>2, <1>3, <1>4 DEF Emptying

\* Until it ends, a handler stays with its endpoint.
LEMMA OpKept ==
  ASSUME CauseInv, NEW r \in Req, Step(r), ~Finish(r)
  PROVE  job'[r].op = job[r].op
<1>0. Typed
  BY DEF CauseInv, IInv
<1>1. CASE QuietStep(r)
  BY <1>0, <1>1, QuietKeeps, RefusedJob
     DEF Keeps, QuietStep, Register, Authorize, Decide, Approve, Exchange, Replayed, Rotate, Revoke, Family,
         Revoking, Forget, Consents, Withdraw, Sessions, Select, Purge, Rest
<1>2. CASE Issue(r) \/ Mint(r)
  <2>1. \E x : Keep(r, [job[r] EXCEPT !.new = x])
    BY <1>2 DEF Issue, Mint
  <2> QED BY <1>0, <1>2, <2>1, SetNew DEF Issue, Mint, Rest, Remembers, SameCause
<1>3. CASE Retire(r)
  <2>1. Refuse(r) \/ \E x, y : Keep(r, [job[r] EXCEPT !.new = x, !.code = y])
    BY <1>3 DEF Retire
  <2> QED BY <1>0, <1>3, <2>1, SetSame, RefusedJob DEF Retire, Rest
<1>4. CASE Consume(r) \/ Chain(r)
  BY <1>4 DEF Consume, Chain, Rest
<1> QED BY <1>1, <1>2, <1>3, <1>4 DEF Step, QuietStep

\* An uninstall selects every row of the next table.
LEMMA SelectEmptying ==
  ASSUME CauseInv, NEW r \in Req, Emptying(r), Notes(r), Select(r)
  PROVE  Emptying(r)'
<1>0. /\ Typed /\ pc[r] = "select" /\ UNCHANGED <<committed, dirty>>
      /\ job[r].op \in Purges /\ pc'[r] = "purge" /\ job[r].table \in Nat
      /\ job[r].table < Len(PurgePlan(job[r].op))
  BY OpsOf, GotoMoves, JobTyped DEF CauseInv, IInv, Select, Rest, Purges, Job, Fits
<1> DEFINE n == job[r].table + 1
           plan == PurgePlan("uninstall")
<1>1. PICK K : /\ Keep(r, [job[r] EXCEPT !.hit = K, !.table = n])
               /\ job[r].op = "uninstall" => K = StoredRows(r, plan[n])
  BY DEF Select, NextTable
<1> DEFINE j == [job[r] EXCEPT !.hit = K, !.table = n]
<1>2. j.op = job[r].op /\ j.hit = K /\ j.table = n
  BY <1>0, JobTyped DEF Job
<1> HIDE DEF j
<1>3. job'[r] = j
  BY <1>0, <1>1, KeepMoves DEF j
<1>4. \A k : Row(r, k)' = Row(r, k)
  BY <1>0 DEF Row
<1>5. ASSUME job[r].op = "uninstall" PROVE Emptied(r)'
  <2>a. Len(PurgePlan(job[r].op)) = 4
    BY <1>5, PlanTables
  <2>1. n \in 1 .. 4
    BY <1>0, <2>a
  <2>2. Reread(r) = plan[n]
    BY <1>0, <1>2, <1>3, <1>5 DEF Reread
  <2>3. \A k \in Before("uninstall", n) : k \notin plan[n]
    <3>1. \A i, m \in 1 .. 4 : i < m => plan[i] \cap plan[m] = {}
      BY PlanTables, KeysDisjoint DEF ConsentKey
    <3>2. \A i \in 1 .. (n - 1) : i \in 1 .. 4 /\ i < n
      BY <2>1
    <3> QED BY <2>1, <3>1, <3>2 DEF Before
  <2>4. \A k \in Before("uninstall", n) : Row(r, k) = Absent \/ k \in meanwhile'[r]
    BY <1>0, <1>5, <2>2, <2>3 DEF Notes, Emptying, Emptied
  <2> QED BY <1>0, <1>1, <1>2, <1>3, <1>4, <1>5, <2>4 DEF Emptied, StoredRows
<1> QED BY <1>0, <1>2, <1>3, <1>5 DEF Emptying

\* What a DELETE does to what its request sees.
LEMMA PurgedRows ==
  ASSUME CauseInv, NEW r \in Req, Purge(r)
  PROVE  /\ \A k \in Key : Row(r, k)' \in {Row(r, k), Absent}
         /\ \A k \in Key \cap job[r].hit : Row(r, k)' = Absent
<1>0. Typed /\ StoreOK /\ OnlyDeletes
  BY DEF CauseInv, IInv, Typed, TypeOK
<1> DEFINE w == [k \in Key |-> IF k \in StoredRows(r, job[r].hit) THEN Absent ELSE Untouched]
           auto == AutoCommit /\ job[r].op # "cleanup"
<1>1. Write(r, w, auto) /\ w \in [Key -> Cell \cup {Untouched}]
  BY DEF Purge, DeleteRows, Cell
<1>2. \A k \in Key : w[k] = IF k \in job[r].hit /\ Row(r, k) # Absent THEN Absent ELSE Untouched
  BY DEF StoredRows
<1>3. auto \in BOOLEAN /\ (auto => AutoCommit) /\ (job[r].op = "cleanup" => ~auto) /\ Absent # Untouched
  BY Limits, StoreConstants
<1> HIDE DEF w, auto
<1>4. CASE auto
  <2>1. /\ dirty' = dirty
        /\ \A k \in Key : committed'[k] = IF w[k] = Untouched THEN committed[k] ELSE w[k]
    BY <1>0, <1>1, <1>4, WriteFacts
  <2>2. \A k \in Key : dirty[r][k] \in {Absent, Untouched}
    BY <1>0, <1>3, <1>4 DEF OnlyDeletes
  <2> QED BY <1>2, <1>3, <1>4, <2>1, <2>2 DEF Row
<1>5. CASE ~auto
  <2>1. /\ committed' = committed
        /\ \A k \in Key : dirty'[r][k] = IF w[k] = Untouched THEN dirty[r][k] ELSE w[k]
    BY <1>0, <1>1, <1>5, WriteFacts
  <2> QED BY <1>2, <1>3, <2>1 DEF Row
<1> QED BY <1>3, <1>4, <1>5

\* An uninstall empties the table it has selected, and the last table is the client's.
LEMMA PurgeEmptying ==
  ASSUME CauseInv, NEW r \in Req, Emptying(r), Notes(r), Purge(r)
  PROVE  Emptying(r)'
<1>0. /\ Typed /\ pc[r] = "purge" /\ job' = job /\ job[r].op \in Purges
      /\ pc'[r] = IF job[r].table = Len(PurgePlan(job[r].op)) THEN "reply" ELSE "select"
      /\ job[r].table \in 1 .. Len(PurgePlan(job[r].op))
  BY OpsOf, GotoMoves, JobTyped DEF CauseInv, IInv, Purge, Rest, Purges, Fits
<1>1. ASSUME job[r].op = "uninstall"
      PROVE  Emptied(r)'
  <2> DEFINE i == job[r].table
             plan == PurgePlan("uninstall")
  <2>1. i \in 1 .. 4 /\ plan[i] \subseteq Key /\ \A n \in 1 .. 4 : plan[n] \subseteq Key
    BY <1>0, <1>1, PlanTables
  <2>2. \A k \in Key : k \in meanwhile[r] => k \in meanwhile'[r]
    <3>1. Reread(r) = {}
      BY <1>0 DEF Reread
    <3> QED BY <1>0, <3>1 DEF Notes
  <2>3. \A k \in plan[i] : Row(r, k)' = Absent \/ k \in meanwhile'[r]
    BY <1>0, <1>1, <2>1, <2>2, PurgedRows DEF Emptying, Emptied, StoredRows
  <2>4. Before("uninstall", i + 1) = Before("uninstall", i) \cup plan[i] /\ Before("uninstall", i) \subseteq Key
    BY <2>1, BeforeNext, BeforeKeys
  <2>5. \A k \in Before("uninstall", i + 1) : Row(r, k)' = Absent \/ k \in meanwhile'[r]
    BY <1>0, <1>1, <2>2, <2>3, <2>4, PurgedRows DEF Emptying, Emptied
  <2>6. ASSUME i = 4
        PROVE  Key \subseteq Before("uninstall", i + 1)
    <3>1. \A n \in 1 .. 4 : plan[n] \subseteq Before("uninstall", i + 1)
      BY <2>6 DEF Before
    <3> QED BY <3>1, PlanTables DEF Key
  <2> QED BY <1>0, <1>1, <2>1, <2>5, <2>6, PlanTables DEF Emptied
<1> QED BY <1>0, <1>1 DEF Emptying

\* A request that ends or begins.
LEMMA EndEmptying ==
  ASSUME CauseInv, NEW r \in Req, Finish(r) \/ Fail(r)
  PROVE  Emptying(r)'
<1>1. Keep(r, NoJob) /\ Typed
  BY DEF Finish, Fail, CauseInv, IInv
<1> QED BY <1>1, KeepMoves, OtherOp DEF NoJob, Purges

LEMMA BeginEmptying ==
  ASSUME CauseInv, NEW r \in Req, NEW op \in AllOps, Begin(r, op)
  PROVE  Emptying(r)'
<1>0. Typed
  BY DEF CauseInv, IInv
<1>1. PICK key : Keep(r, [NoJob EXCEPT !.op = op, !.key = key,
                            !.since = IF AutoCommit /\ op # "cleanup" THEN 0 ELSE clock])
  BY DEF Begin
<1> DEFINE j == [NoJob EXCEPT !.op = op, !.key = key,
                              !.since = IF AutoCommit /\ op # "cleanup" THEN 0 ELSE clock]
<1>2. j.op = op /\ j.table = 0
  BY DEF NoJob
<1> HIDE DEF j
<1>3. job'[r].op = op /\ job'[r].table = 0
  BY <1>0, <1>1, <1>2, KeepMoves DEF j
<1>4. pc'[r] = IF op \in {"uninstall", "cleanup"} THEN "select" ELSE op
  BY <1>0, GotoMoves DEF Begin
<1>5. Before("uninstall", 0 + 1) = {}
  BY DEF Before
<1> QED BY <1>3, <1>4, <1>5 DEF Emptying, Emptied, Purges

LEMMA NextEmpty ==
  ASSUME CauseInv, EmptyInv, [WaitNext /\ Observe]_overlapVars
  PROVE  EmptyInv'
<1>0. Typed /\ \A q \in Req : Emptying(q) /\ Notes(q)
  BY ObserveNotes DEF CauseInv, IInv, EmptyInv
<1>1. ASSUME NEW r \in Req, Step(r) \/ Fail(r) \/ \E op \in AllOps : Begin(r, op)
      PROVE  EmptyInv'
  <2>1. ASSUME Select(r) \/ Purge(r) \/ Finish(r) \/ Fail(r) \/ \E op \in AllOps : Begin(r, op)
        PROVE  Emptying(r)'
    BY <1>0, <2>1, SelectEmptying, PurgeEmptying, EndEmptying, BeginEmptying
  <2>2. ASSUME Step(r), ~(Select(r) \/ Purge(r) \/ Finish(r))
        PROVE  Emptying(r)'
    <3>1. pc[r] \notin {"select", "purge", "reply"}
      BY <2>2
         DEF Step, Register, Authorize, Decide, Approve, Issue, Exchange, Replayed, Consume, Mint, Rotate,
             Retire, Chain, Revoke, Family, Revoking, Forget, Consents, Withdraw, Sessions
    <3>2. job[r].op \notin Purges
      BY <1>0, <3>1 DEF Emptying, Purges
    <3> QED BY <2>2, <3>2, OpKept, OtherOp
  <2>3. Emptying(r)'
    BY <1>1, <2>1, <2>2
  <2>4. ASSUME NEW q \in Req \ {r} PROVE Emptying(q)'
    BY <1>0, <1>1, OnlyMine, OtherEmptying DEF Others
  <2> QED BY <2>3, <2>4 DEF EmptyInv
<1>2. CASE UNCHANGED <<pc, job, committed, dirty, origin>>
  BY <1>0, <1>2, OtherEmptying DEF EmptyInv
<1> QED BY <1>1, <1>2, StepsOrQuiet

\* No request has begun.
LEMMA InitEmpty == Init => EmptyInv
BY DEF Init, NoJob, EmptyInv, Emptying, Purges

\* When the uninstall answers, whatever other requests and the cleanup run, no table has a row
\* of the container left but those another request committed after the DELETE of their table
\* took its snapshot (install.py, delete_container_data).
THEOREM UninstallEmpties == OverlapSpec => UninstallMissesOnlyNewer
<1>1. OverlapInit => CauseInv /\ EmptyInv
  BY InitCause, InitEmpty DEF OverlapInit, WaitInit
<1>2. CauseInv /\ EmptyInv /\ [WaitNext /\ Observe]_overlapVars => (CauseInv /\ EmptyInv)'
  BY WaitIsNext, NextCause, NextEmpty DEF overlapVars
<1>3. CauseInv /\ EmptyInv /\ [WaitNext /\ Observe]_overlapVars =>
        [\A r \in Req : Replies(r, "uninstall") =>
           \A k \in Key : committed'[k] # Absent => k \in meanwhile[r]]_overlapVars
  <2> SUFFICES ASSUME CauseInv, EmptyInv, NEW r \in Req, Replies(r, "uninstall"),
                      NEW k \in Key, committed'[k] # Absent
               PROVE  k \in meanwhile[r]
    OBVIOUS
  <2>1. Typed /\ Finish(r) /\ Emptied(r) /\ pc[r] = "reply"
    BY DEF CauseInv, IInv, EmptyInv, Emptying, Replies, Answered
  <2>2. committed'[k] = Row(r, k)
    BY <2>1, CommitFacts DEF Row
  <2> QED BY <2>1, <2>2 DEF Emptied
<1> QED BY <1>1, <1>2, <1>3, PTL DEF OverlapSpec, UninstallMissesOnlyNewer
=============================================================================
