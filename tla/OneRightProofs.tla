--------------------------- MODULE OneRightProofs ---------------------------
(***************************************************************************)
(* A grant is one right at any time: the proof of OneRightPerGrant.        *)
(*                                                                         *)
(* In transactions, committed rows change only at a commit, and Paid says  *)
(* that what a commit brings to life it pays for with the right it came    *)
(* from.  Statement by statement, each statement hands the right on to or  *)
(* from the request that Carries it.  Either way most steps are Quiet:     *)
(* they bring no code or token to life.                                    *)
(***************************************************************************)
EXTENDS GrantTypeProofs

-----------------------------------------------------------------------------
(* Row locks. *)

LEMMA WriteLocks ==
  ASSUME StoreOK, RowLocks, NEW r \in Req, NEW w, NEW auto, Write(r, w, auto)
  PROVE  RowLocks'
<1>1. CASE dirty' = dirty
  BY <1>1 DEF RowLocks
<1>2. CASE dirty' # dirty
  <2>1. /\ dirty' = [dirty EXCEPT ![r] = Overlay(@, w)]
        /\ \A k \in Key : w[k] # Untouched => \A u \in Req \ {r} : dirty[u][k] = Untouched
    BY <1>2 DEF Write, Blocked
  <2>2. /\ \A q \in Req \ {r} : dirty'[q] = dirty[q]
        /\ \A k \in Key : dirty'[r][k] = IF w[k] = Untouched THEN dirty[r][k] ELSE w[k]
    BY <2>1 DEF Overlay, StoreOK
  <2> QED BY <2>1, <2>2 DEF RowLocks
<1> QED BY <1>1, <1>2

LEMMA EndLocks ==
  ASSUME StoreOK, RowLocks, NEW r \in Req, dirty' = [dirty EXCEPT ![r] = NoWrites]
  PROVE  RowLocks'
BY DEF RowLocks, StoreOK, NoWrites

LEMMA NextLocks == Typed /\ RowLocks /\ [Next]_vars => RowLocks'
<1> SUFFICES ASSUME StoreOK, RowLocks, [Next]_vars PROVE RowLocks'
  BY DEF Typed, TypeOK
<1>1. ASSUME NEW r \in Req, Step(r) PROVE RowLocks'
  <2>1. CASE Register(r)
    BY <2>1, WriteLocks DEF Register, CreateClient, Put
  <2>2. CASE Approve(r) \/ Issue(r)
    BY <2>2, WriteLocks DEF Approve, CreateConsent, Issue, CreateCode, Put
  <2>3. CASE Consume(r)
    BY <2>3, WriteLocks DEF Consume, ConsumeCode, NoRow, Put, RowLocks
  <2>4. CASE Mint(r) \/ Chain(r)
    <3>1. \E k, row : Put(r, k, row)
      BY <2>4 DEF Mint, CreateRefreshToken, Chain, ChainToken
    <3> QED BY <3>1, WriteLocks DEF Put
  <2>5. CASE Retire(r)
    <3>1. NoRow \/ \E k, row : Put(r, k, row)
      BY <2>5 DEF Retire, RetireToken
    <3>2. CASE NoRow
      BY <3>2 DEF NoRow, RowLocks
    <3> QED BY <3>1, <3>2, WriteLocks DEF Put
  <2>6. CASE Forget(r) \/ Withdraw(r)
    BY <2>6, WriteLocks DEF Forget, Withdraw, DeleteConsent, NoRow, Put, RowLocks
  <2>7. CASE Revoking(r) \/ Purge(r)
    BY <2>7, WriteLocks DEF Revoking, RevokeRows, Purge, DeleteRows
  <2>8. CASE Finish(r)
    BY <2>8, EndLocks DEF Finish, Commit
  <2>9. CASE UNCHANGED dirty
    BY <2>9 DEF RowLocks
  <2> QED
    BY <1>1, <2>1, <2>2, <2>3, <2>4, <2>5, <2>6, <2>7, <2>8, <2>9
       DEF Step, Authorize, Decide, Exchange, Replayed, Rotate, Revoke, Family, Consents, Sessions, Select
<1>2. ASSUME NEW r \in Req, Fail(r) PROVE RowLocks'
  BY <1>2, EndLocks DEF Fail, Rollback
<1>3. CASE UNCHANGED dirty
  BY <1>3 DEF RowLocks
<1> QED BY <1>1, <1>2, <1>3 DEF Next, Begin, Tick, Install, vars

-----------------------------------------------------------------------------
(* Identifiers in the hands of a request. *)

Others(r) == \A q \in Req \ {r} : pc'[q] = pc[q] /\ job'[q] = job[q]

\* Request r presents what it was sent and holds an old, no or a fresh identifier.
HoldsIds(r) ==
  /\ job'[r].key \in Delivered \cup {job[r].key, None}
  /\ \/ job'[r].new \in {job[r].new, None}
     \/ job'[r].new \in (generated' \ generated) \cap (Code \cup Token)

LEMMA GotoMoves ==
  ASSUME Typed, NEW r \in Req, NEW label, Goto(r, label)
  PROVE  pc'[r] = label /\ \A q \in Req \ {r} : pc'[q] = pc[q]
BY DEF Goto, Typed, TypeOK, RequestsOK

LEMMA KeepMoves ==
  ASSUME Typed, NEW r \in Req, NEW j, Keep(r, j)
  PROVE  job'[r] = j /\ \A q \in Req \ {r} : job'[q] = job[q]
BY DEF Keep, Typed, TypeOK, RequestsOK

LEMMA RefuseMoves ==
  ASSUME Typed, NEW r \in Req, Refuse(r)
  PROVE  Others(r) /\ HoldsIds(r) /\ pc'[r] = "reply"
<1> DEFINE j == [NoJob EXCEPT !.op = job[r].op]
<1>1. j.key = None /\ j.new = None
  BY DEF NoJob
<1> HIDE DEF j
<1>2. Goto(r, "reply") /\ Keep(r, j)
  BY DEF Refuse, j
<1> QED BY <1>1, <1>2, GotoMoves, KeepMoves DEF Others, HoldsIds

\* A handler that keeps its key and what it is about to send.
LEMMA SameIds ==
  ASSUME Typed, NEW r \in Req, NEW label, NEW j, Goto(r, label), Keep(r, j),
         j.key = job[r].key, j.new = job[r].new
  PROVE  Others(r) /\ HoldsIds(r) /\ pc'[r] = label
BY GotoMoves, KeepMoves DEF Others, HoldsIds

LEMMA SameJob ==
  ASSUME Typed, NEW r \in Req, NEW label, Goto(r, label), job' = job
  PROVE  Others(r) /\ HoldsIds(r) /\ pc'[r] = label
BY GotoMoves DEF Others, HoldsIds

LEMMA BeginMoves ==
  ASSUME Typed, NEW r \in Req, NEW op \in AllOps, Begin(r, op)
  PROVE  Others(r) /\ HoldsIds(r) /\ pc'[r] \notin {"mint", "chain", "reply"}
<1>1. PICK key \in Presented(op) :
        Keep(r, [NoJob EXCEPT !.op = op, !.key = key,
                              !.since = IF AutoCommit /\ op # "cleanup" THEN 0 ELSE clock])
  BY DEF Begin
<1> DEFINE j == [NoJob EXCEPT !.op = op, !.key = key,
                              !.since = IF AutoCommit /\ op # "cleanup" THEN 0 ELSE clock]
<1>2. key \in Delivered \cup {None}
  BY DEF Presented
<1>3. j.key = key /\ j.new = None
  BY DEF NoJob
<1> HIDE DEF j
<1>4. Keep(r, j)
  BY <1>1 DEF j
<1>5. pc'[r] \notin {"mint", "chain", "reply"}
  BY GotoMoves DEF Begin, AllOps
<1> QED BY <1>2, <1>3, <1>4, <1>5, GotoMoves, KeepMoves DEF Begin, Others, HoldsIds

\* The steps that neither create nor hand on a right.
QuietStep(r) ==
  \/ Register(r) \/ Authorize(r) \/ Decide(r) \/ Approve(r) \/ Exchange(r) \/ Replayed(r)
  \/ Rotate(r) \/ Revoke(r) \/ Family(r) \/ Revoking(r) \/ Forget(r) \/ Consents(r)
  \/ Withdraw(r) \/ Sessions(r) \/ Select(r) \/ Purge(r)

LEMMA ReadMoves ==
  ASSUME Typed, NEW r \in Req,
         Authorize(r) \/ Decide(r) \/ Exchange(r) \/ Rotate(r) \/ Revoke(r) \/ Consents(r)
  PROVE  Others(r) /\ HoldsIds(r) /\ pc'[r] \notin {"mint", "chain"}
<1>1. CASE Refuse(r)
  BY <1>1, RefuseMoves
<1>2. CASE job' = job
  <2>1. CASE \E label \in {"consent", "issue", "approve", "replayed", "consume", "retire", "family", "withdraw"} : Goto(r, label)
    BY <1>2, <2>1, SameJob
  <2> QED BY <1>1, <1>2, <2>1 DEF Authorize, Decide, Exchange, Rotate, Revoke, Consents
<1>3. CASE ~Refuse(r) /\ job' # job
  <2>1. CASE Authorize(r)
    <3>1. PICK g \in Grant : Goto(r, "consent") /\ Keep(r, [job[r] EXCEPT !.grant = g])
      BY <1>3, <2>1, Limits DEF Authorize
    <3> DEFINE j == [job[r] EXCEPT !.grant = g]
    <3>2. j.key = job[r].key /\ j.new = job[r].new
      BY JobTyped DEF Job
    <3> HIDE DEF j
    <3>3. Goto(r, "consent") /\ Keep(r, j)
      BY <3>1 DEF j
    <3> QED BY <3>2, <3>3, SameIds
  <2>2. CASE Consents(r)
    <3>1. PICK g \in Grant : Goto(r, "withdraw") /\ Keep(r, [job[r] EXCEPT !.grant = g])
      BY <1>3, <2>2 DEF Consents, ConsentKey
    <3> DEFINE j == [job[r] EXCEPT !.grant = g]
    <3>2. j.key = job[r].key /\ j.new = job[r].new
      BY JobTyped DEF Job
    <3> HIDE DEF j
    <3>3. Goto(r, "withdraw") /\ Keep(r, j)
      BY <3>1 DEF j
    <3> QED BY <3>2, <3>3, SameIds
  <2>3. CASE Decide(r)
    <3>1. PICK d \in {"none", "allow", "deny"}, label \in {"issue", "approve"} : Goto(r, label) /\ Keep(r, [job[r] EXCEPT !.decision = d])
      BY <1>3, <2>3 DEF Decide
    <3> DEFINE j == [job[r] EXCEPT !.decision = d]
    <3>2. j.key = job[r].key /\ j.new = job[r].new
      BY JobTyped DEF Job
    <3> HIDE DEF j
    <3>3. Goto(r, label) /\ Keep(r, j)
      BY <3>1 DEF j
    <3> QED BY <3>2, <3>3, SameIds
  <2>4. CASE Exchange(r)
    <3>1. PICK g : Goto(r, "consume") /\ Keep(r, [job[r] EXCEPT !.grant = g])
      BY <1>3, <2>4 DEF Exchange
    <3> DEFINE j == [job[r] EXCEPT !.grant = g]
    <3>2. j.key = job[r].key /\ j.new = job[r].new
      BY JobTyped DEF Job
    <3> HIDE DEF j
    <3>3. Goto(r, "consume") /\ Keep(r, j)
      BY <3>1 DEF j
    <3> QED BY <3>2, <3>3, SameIds
  <2>5. CASE Rotate(r)
    <3>1. PICK g : Goto(r, "retire") /\ Keep(r, [job[r] EXCEPT !.grant = g])
      BY <1>3, <2>5 DEF Rotate
    <3> DEFINE j == [job[r] EXCEPT !.grant = g]
    <3>2. j.key = job[r].key /\ j.new = job[r].new
      BY JobTyped DEF Job
    <3> HIDE DEF j
    <3>3. Goto(r, "retire") /\ Keep(r, j)
      BY <3>1 DEF j
    <3> QED BY <3>2, <3>3, SameIds
  <2>6. CASE Revoke(r)
    <3>1. PICK g, c : Goto(r, "family") /\ Keep(r, [job[r] EXCEPT !.grant = g, !.code = c])
      BY <1>3, <2>6 DEF Revoke
    <3> DEFINE j == [job[r] EXCEPT !.grant = g, !.code = c]
    <3>2. j.key = job[r].key /\ j.new = job[r].new
      BY JobTyped DEF Job
    <3> HIDE DEF j
    <3>3. Goto(r, "family") /\ Keep(r, j)
      BY <3>1 DEF j
    <3> QED BY <3>2, <3>3, SameIds
  <2> QED BY <2>1, <2>2, <2>3, <2>4, <2>5, <2>6
<1> QED BY <1>1, <1>2, <1>3

LEMMA QuietMoves ==
  ASSUME Typed, NEW r \in Req, QuietStep(r)
  PROVE  Others(r) /\ HoldsIds(r) /\ pc'[r] \notin {"mint", "chain"}
<1>1. CASE Authorize(r) \/ Decide(r) \/ Exchange(r) \/ Rotate(r) \/ Revoke(r) \/ Consents(r)
  BY <1>1, ReadMoves
<1>2. CASE Replayed(r) \/ Family(r) \/ Sessions(r)
  <2>1. PICK K \in SUBSET Token : Goto(r, "revoking") /\ Keep(r, [job[r] EXCEPT !.hit = K])
    BY <1>2 DEF Replayed, Family, Sessions, CodeTokenRows, FamilyRows, UserClientRows
  <2> DEFINE j == [job[r] EXCEPT !.hit = K]
  <2>2. j.key = job[r].key /\ j.new = job[r].new
    BY JobTyped DEF Job
  <2> HIDE DEF j
  <2>3. Goto(r, "revoking") /\ Keep(r, j)
    BY <2>1 DEF j
  <2> QED BY <2>2, <2>3, SameIds
<1>3. CASE Select(r)
  <2> DEFINE n == NextTable(job[r].table)
  <2>1. PICK K : Goto(r, "purge") /\ Keep(r, [job[r] EXCEPT !.hit = K, !.table = n])
    BY <1>3 DEF Select
  <2> DEFINE j == [job[r] EXCEPT !.hit = K, !.table = n]
  <2> HIDE DEF n
  <2>2. j.key = job[r].key /\ j.new = job[r].new
    BY JobTyped DEF Job
  <2> HIDE DEF j
  <2>3. Goto(r, "purge") /\ Keep(r, j)
    BY <2>1 DEF j
  <2> QED BY <2>2, <2>3, SameIds
<1>4. CASE Register(r) \/ Approve(r) \/ Revoking(r) \/ Forget(r) \/ Withdraw(r) \/ Purge(r)
  <2>1. job' = job
    BY <1>4 DEF Register, Approve, Revoking, Forget, Withdraw, Purge
  <2>2. PICK label \in {"reply", "issue", "forget", "sessions", "select"} : Goto(r, label)
    BY <1>4 DEF Register, Approve, Revoking, AfterRevoking, Forget, Withdraw, Purge
  <2> QED BY <2>1, <2>2, SameJob
<1> QED BY <1>1, <1>2, <1>3, <1>4 DEF QuietStep

\* The steps that create a right or hand it on.
IssueFacts(r, c) ==
  /\ c \in Code \ generated /\ generated' = generated \cup {c}
  /\ CreateCode(r, c, job[r].grant, Now(r))
  /\ job'[r].new = c /\ job'[r].key = job[r].key /\ pc'[r] = "reply"

LEMMA IssueMoves ==
  ASSUME Typed, NEW r \in Req, Issue(r)
  PROVE  Others(r) /\ HoldsIds(r) /\ \E c \in Code : IssueFacts(r, c)
<1>1. PICK c \in Code \ generated : /\ CreateCode(r, c, job[r].grant, Now(r)) /\ Generate(c)
                                    /\ Keep(r, [job[r] EXCEPT !.new = c])
  BY DEF Issue, FreshCodes
<1> DEFINE j == [job[r] EXCEPT !.new = c]
<1>2. j.key = job[r].key /\ j.new = c
  BY JobTyped DEF Job
<1> HIDE DEF j
<1>3. Goto(r, "reply") /\ Keep(r, j)
  BY <1>1 DEF Issue, j
<1> QED BY <1>1, <1>2, <1>3, GotoMoves, KeepMoves DEF Others, HoldsIds, Generate, IssueFacts

MintFacts(r, t) ==
  /\ t \in Token \ generated /\ generated' = generated \cup {t}
  /\ CreateRefreshToken(r, t, job[r].grant, job[r].key, Now(r))
  /\ job'[r].new = t /\ job'[r].key = job[r].key /\ pc'[r] = "reply"

LEMMA MintMoves ==
  ASSUME Typed, NEW r \in Req, Mint(r)
  PROVE  Others(r) /\ HoldsIds(r) /\ \E t \in Token : MintFacts(r, t)
<1>1. PICK t \in Token \ generated :
        /\ CreateRefreshToken(r, t, job[r].grant, job[r].key, Now(r)) /\ Generate(t)
        /\ Keep(r, [job[r] EXCEPT !.new = t])
  BY DEF Mint, FreshTokens
<1> DEFINE j == [job[r] EXCEPT !.new = t]
<1>2. j.key = job[r].key /\ j.new = t
  BY JobTyped DEF Job
<1> HIDE DEF j
<1>3. Goto(r, "reply") /\ Keep(r, j)
  BY <1>1 DEF Mint, j
<1> QED BY <1>1, <1>2, <1>3, GotoMoves, KeepMoves DEF Others, HoldsIds, Generate, MintFacts

RetireFacts(r, n) ==
  /\ n \in Token \ generated /\ generated' = generated \cup {n}
  /\ Live(Row(r, job[r].key)) /\ RetireToken(r, job[r].key, n)
  /\ job'[r].new = n /\ job'[r].key = job[r].key /\ job'[r].code = Row(r, job[r].key).code
  /\ pc'[r] = "chain"

Lapse(r) == NoRow /\ UNCHANGED generated /\ pc'[r] = "reply"

LEMMA RetireMoves ==
  ASSUME Typed, NEW r \in Req, Retire(r)
  PROVE  Others(r) /\ HoldsIds(r) /\ (Lapse(r) \/ \E n \in Token : RetireFacts(r, n))
<1>1. CASE NoRow /\ Refuse(r) /\ UNCHANGED generated
  BY <1>1, RefuseMoves DEF Lapse
<1>2. CASE ~(NoRow /\ Refuse(r) /\ UNCHANGED generated)
  <2>1. Live(Row(r, job[r].key))
    BY <1>2 DEF Retire, Rotatable, RefreshValid
  <2>2. PICK n \in Token \ generated :
          /\ RetireToken(r, job[r].key, n) /\ Generate(n)
          /\ Keep(r, [job[r] EXCEPT !.new = n, !.code = Row(r, job[r].key).code])
          /\ Goto(r, "chain")
    BY <1>2 DEF Retire, FreshTokens
  <2> DEFINE code == Row(r, job[r].key).code
             j == [job[r] EXCEPT !.new = n, !.code = code]
  <2> HIDE DEF code
  <2>3. j.key = job[r].key /\ j.new = n /\ j.code = code
    BY JobTyped DEF Job
  <2> HIDE DEF j
  <2>4. Keep(r, j)
    BY <2>2 DEF j, code
  <2> USE DEF code
  <2> QED BY <2>1, <2>2, <2>3, <2>4, GotoMoves, KeepMoves DEF Others, HoldsIds, Generate, RetireFacts
<1> QED BY <1>1, <1>2

LEMMA ConsumeMoves ==
  ASSUME Typed, NEW r \in Req, Consume(r)
  PROVE  /\ Others(r) /\ HoldsIds(r) /\ job' = job /\ UNCHANGED generated
         /\ \/ Lapse(r)
            \/ /\ pc'[r] = "mint" /\ ConsumeCode(r, job[r].key)
               /\ Row(r, job[r].key) # Absent
BY GotoMoves DEF Consume, CodeActive, Unexpired, Others, HoldsIds, Lapse

LEMMA ChainMoves ==
  ASSUME Typed, NEW r \in Req, Chain(r)
  PROVE  /\ Others(r) /\ HoldsIds(r) /\ job' = job /\ pc'[r] = "reply" /\ UNCHANGED generated
         /\ Put(r, job[r].new, NewToken(job[r].grant, job[r].code, job[r].key, Now(r)))
BY GotoMoves DEF Chain, ChainToken, Others, HoldsIds

LEMMA EndMoves ==
  ASSUME Typed, NEW r \in Req, Fail(r) \/ Finish(r)
  PROVE  /\ Others(r) /\ pc'[r] = "idle"
         /\ job'[r].new = None /\ job'[r].key = None
<1>1. NoJob.new = None /\ NoJob.key = None
  BY DEF NoJob
<1>2. Goto(r, "idle") /\ Keep(r, NoJob)
  BY DEF Fail, Finish
<1> QED BY <1>1, <1>2, GotoMoves, KeepMoves DEF Others

LEMMA FinishAnswers ==
  ASSUME Typed, NEW r \in Req, Finish(r)
  PROVE  Delivered' = Delivered \cup ({job[r].new} \ {None})
<1> DEFINE a == [op |-> job[r].op, from |-> job[r].key, new |-> job[r].new]
<1>1. a.new = job[r].new
  OBVIOUS
<1>2. answers' = IF job[r].new = None THEN answers ELSE answers \cup {a}
  BY DEF Finish
<1> HIDE DEF a
<1> QED BY <1>1, <1>2 DEF Delivered

-----------------------------------------------------------------------------
(* Fresh and secret identifiers. *)

LEMMA MovesNames ==
  ASSUME Typed, Names, NEW r \in Req, Others(r), HoldsIds(r),
         generated \subseteq generated', answers' = answers
  PROVE  /\ NewIsSecret' /\ Delivered' = Delivered
         /\ Delivered' \subseteq generated'
         /\ \A q \in Req : job'[q].key \in Delivered' \cup {None}
<1>1. Delivered' = Delivered
  BY DEF Delivered
<1>2. \A q \in Req : job'[q].key \in Delivered' \cup {None}
  BY <1>1 DEF Others, HoldsIds, Names, SentBeforeUse
<1>3. NewIsSecret'
  <2>1. ASSUME NEW q \in Req, job'[q].new # None PROVE job'[q].new \in generated' \ Delivered'
    BY <1>1, <2>1 DEF Others, HoldsIds, Names, NewIsSecret, SentBeforeUse
  <2>2. ASSUME NEW p \in Req, NEW q \in Req, job'[p].new # None, job'[q].new = job'[p].new
        PROVE  q = p
    <3>1. \A i \in Req : job[i].new # None => job[i].new \in generated
      BY DEF Names, NewIsSecret
    <3>2. CASE job'[r].new \in {job[r].new, None}
      BY <2>2, <3>2 DEF Others, Names, NewIsSecret
    <3>3. CASE job'[r].new \in generated' \ generated
      BY <2>2, <3>1, <3>3 DEF Others, Names, NewIsSecret
    <3> QED BY <3>2, <3>3 DEF HoldsIds
  <2> QED BY <2>1, <2>2 DEF NewIsSecret
<1> QED BY <1>1, <1>2, <1>3 DEF Names, SentBeforeUse

LEMMA FinishNames ==
  ASSUME Typed, Names, NEW r \in Req, Finish(r)
  PROVE  /\ NewIsSecret' /\ Delivered \subseteq Delivered'
         /\ Delivered' \subseteq generated'
         /\ \A q \in Req : job'[q].key \in Delivered' \cup {None}
<1>1. generated' = generated
  BY DEF Finish
<1>2. Delivered' \subseteq generated'
  BY <1>1, FinishAnswers DEF Names, NewIsSecret, SentBeforeUse
<1>3. \A q \in Req : job'[q].key \in Delivered' \cup {None}
  BY EndMoves, FinishAnswers DEF Others, Names, SentBeforeUse
<1>4. NewIsSecret'
  BY <1>1, EndMoves, FinishAnswers DEF Others, Names, NewIsSecret
<1> QED BY <1>2, <1>3, <1>4, FinishAnswers

-----------------------------------------------------------------------------
(* What the statements leave in the store, row by row. *)

LEMMA PutFacts ==
  ASSUME StoreOK, NEW r \in Req, NEW k \in Key, NEW row \in Rows(k), Put(r, k, row)
  PROVE  /\ \A q \in Req \ {r} : dirty[q][k] = Untouched /\ dirty'[q] = dirty[q]
         /\ AutoCommit => /\ dirty' = dirty /\ committed'[k] = row
                          /\ \A i \in Key \ {k} : committed'[i] = committed[i]
         /\ ~AutoCommit => /\ committed' = committed /\ dirty'[r][k] = row
                           /\ \A i \in Key \ {k} : dirty'[r][i] = dirty[r][i]
<1> DEFINE w == [NoWrites EXCEPT ![k] = row]
<1>1. w \in [Key -> Cell \cup {Untouched}]
  BY KeyKinds DEF NoWrites
<1>2. /\ w[k] = row /\ row # Untouched
      /\ \A i \in Key \ {k} : w[i] = Untouched
  BY KeyKinds DEF NoWrites
<1>3. Write(r, w, AutoCommit)
  BY DEF Put
<1> HIDE DEF w
<1>4. CASE AutoCommit
  BY <1>1, <1>2, <1>3, <1>4, WriteFacts
<1>5. CASE ~AutoCommit
  BY <1>1, <1>2, <1>3, <1>5, WriteFacts
<1> QED BY <1>4, <1>5

\* No code or token comes to life, no other transaction is touched, and every token
\* row that is written keeps the code of the version it replaces.
Quiet(r) ==
  /\ \A q \in Req \ {r} : dirty'[q] = dirty[q]
  /\ ~AutoCommit => committed' = committed
  /\ AutoCommit => \A k \in Key : dirty'[r][k] \in {dirty[r][k], Absent, Untouched}
  /\ \A c \in Code : /\ committed'[c] \in {committed[c], Absent}
                     /\ dirty'[r][c] \in {dirty[r][c], Absent, Untouched}
  /\ \A t \in Token :
       /\ committed'[t] = committed[t] \/ ~Live(committed'[t])
       /\ dirty'[r][t] = dirty[r][t] \/ ~Fruitful(dirty'[r][t])
       /\ committed'[t] \notin {committed[t], Absent} => committed'[t].code = Row(r, t).code
       /\ dirty'[r][t] \notin {dirty[r][t], Absent, Untouched} => dirty'[r][t].code = Row(r, t).code
       /\ Row(r, t) = Absent =>
             /\ committed'[t] \in {committed[t], Absent}
             /\ dirty'[r][t] \in {dirty[r][t], Absent, Untouched}

LEMMA QuietWrite ==
  ASSUME StoreOK, NEW r \in Req, NEW w \in [Key -> Cell \cup {Untouched}], NEW auto \in BOOLEAN,
         Write(r, w, auto), auto => AutoCommit,
         AutoCommit /\ ~auto => \A k \in Key : w[k] \in {Absent, Untouched},
         \A c \in Code : w[c] \in {Absent, Untouched},
         \A t \in Token : \/ w[t] \in {Absent, Untouched}
                          \/ Row(r, t) # Absent /\ ~Live(w[t]) /\ w[t].code = Row(r, t).code
  PROVE  Quiet(r)
<1>0. Code \cup Token \subseteq Key
  BY DEF Key
<1>1. CASE auto
  <2>1. /\ dirty' = dirty
        /\ \A k \in Key : committed'[k] = IF w[k] = Untouched THEN committed[k] ELSE w[k]
    BY <1>1, WriteFacts
  <2> QED BY <1>0, <1>1, <2>1 DEF Quiet, Live
<1>2. CASE ~auto
  <2>1. /\ committed' = committed
        /\ \A q \in Req \ {r} : dirty'[q] = dirty[q]
        /\ \A k \in Key : dirty'[r][k] = IF w[k] = Untouched THEN dirty[r][k] ELSE w[k]
    BY <1>2, WriteFacts
  <2> QED BY <1>0, <1>2, <2>1 DEF Quiet, Live, Fruitful
<1> QED BY <1>1, <1>2

LEMMA QuietPut ==
  ASSUME StoreOK, NEW r \in Req, NEW k \in Key \ Token, NEW row \in Rows(k),
         k \in Code => row = Absent, Put(r, k, row)
  PROVE  Quiet(r)
<1> DEFINE w == [NoWrites EXCEPT ![k] = row]
<1>1. w \in [Key -> Cell \cup {Untouched}]
  BY KeyKinds DEF NoWrites
<1>2. /\ \A c \in Code : w[c] \in {Absent, Untouched}
      /\ \A t \in Token : w[t] = Untouched
  BY DEF NoWrites, Key
<1>3. Write(r, w, AutoCommit)
  BY DEF Put
<1> HIDE DEF w
<1>4. AutoCommit \in BOOLEAN
  BY Limits
<1> QED BY <1>1, <1>2, <1>3, <1>4, QuietWrite

LEMMA QuietRead ==
  ASSUME NEW r \in Req, UNCHANGED <<committed, dirty>>
  PROVE  Quiet(r)
BY DEF Quiet

LEMMA QuietSteps ==
  ASSUME Typed, NEW r \in Req, QuietStep(r)
  PROVE  Quiet(r)
<1>0. StoreOK
  BY DEF Typed, TypeOK
<1>1. CASE UNCHANGED <<committed, dirty>>
  BY <1>1, QuietRead
<1>2. CASE Register(r)
  <2>1. PICK cl \in Client : Put(r, cl, Registration[cl])
    BY <1>2 DEF Register, CreateClient
  <2>2. cl \in Key \ Token /\ cl \notin Code /\ Registration[cl] \in Rows(cl)
    BY Limits, KeyKinds, KeysDisjoint DEF Key
  <2> QED BY <1>0, <2>1, <2>2, QuietPut
<1>3. CASE Approve(r)
  <2> DEFINE g == job[r].grant
             row == [expires |-> IF ConsentTTL = 0 THEN Never ELSE Now(r) + ConsentTTL]
  <2>1. g \in Grant /\ row \in ConsentRow
    BY <1>3, JobTyped, Limits DEF Approve, Fits, ConsentRow
  <2>2. g \in Key \ Token /\ g \notin Code /\ row \in Rows(g)
    BY <2>1, KeyKinds, KeysDisjoint DEF Key, ConsentKey
  <2>3. Put(r, g, row)
    BY <1>3 DEF Approve, CreateConsent
  <2> QED BY <1>0, <2>2, <2>3, QuietPut
<1>4. CASE Forget(r) \/ Withdraw(r)
  <2> DEFINE g == job[r].grant
  <2>1. g \in Grant
    BY <1>4, JobTyped DEF Forget, Withdraw, Fits
  <2>2. g \in Key \ Token /\ Absent \in Rows(g)
    BY <2>1, KeyKinds, KeysDisjoint DEF Key, ConsentKey
  <2>3. NoRow \/ Put(r, g, Absent)
    BY <1>4 DEF Forget, Withdraw, DeleteConsent
  <2> QED BY <1>0, <2>2, <2>3, QuietPut, QuietRead DEF NoRow
<1>5. CASE Revoking(r)
  <2> DEFINE w == RevokedRows(r, job[r].hit)
  <2>1. job[r].hit \subseteq Token
    BY <1>5, JobTyped DEF Revoking, Fits
  <2>2. w \in [Key -> Cell \cup {Untouched}]
    BY <2>1, RevokedRowsTyped
  <2>3. \A c \in Code : w[c] = Untouched
    BY <2>1, KeysDisjoint DEF RevokedRows, Key
  <2>4. ASSUME NEW t \in Token
        PROVE  \/ w[t] = Untouched
               \/ Row(r, t) # Absent /\ ~Live(w[t]) /\ w[t].code = Row(r, t).code
    <3>1. CASE t \in job[r].hit /\ Live(Row(r, t))
      <4>1. t \in Key /\ Row(r, t) # Absent
        BY <3>1 DEF Key, Live
      <4>2. PICK row \in TokenRow : row = Row(r, t)
        BY <4>1, RowTyped, KeyKinds
      <4>3. w[t] = [row EXCEPT !.revoked = TRUE]
        BY <3>1, <4>1, <4>2 DEF RevokedRows
      <4>4. /\ [row EXCEPT !.revoked = TRUE].revoked
            /\ [row EXCEPT !.revoked = TRUE].code = row.code
        BY DEF TokenRow
      <4> QED BY <4>1, <4>2, <4>3, <4>4 DEF Live
    <3>2. CASE ~(t \in job[r].hit /\ Live(Row(r, t)))
      BY <3>2 DEF RevokedRows, Key
    <3> QED BY <3>1, <3>2
  <2>5. Write(r, w, AutoCommit) /\ AutoCommit \in BOOLEAN
    BY <1>5, Limits DEF Revoking, RevokeRows, RevokedRows
  <2> HIDE DEF w
  <2> QED BY <1>0, <2>2, <2>3, <2>4, <2>5, QuietWrite
<1>6. CASE Purge(r)
  <2> DEFINE w == [k \in Key |-> IF k \in StoredRows(r, job[r].hit) THEN Absent ELSE Untouched]
             auto == AutoCommit /\ job[r].op # "cleanup"
  <2>1. w \in [Key -> Cell \cup {Untouched}]
    BY DEF Cell
  <2>2. \A k \in Key : w[k] \in {Absent, Untouched}
    OBVIOUS
  <2>3. Write(r, w, auto) /\ auto \in BOOLEAN /\ (auto => AutoCommit)
    BY <1>6 DEF Purge, DeleteRows
  <2> HIDE DEF w, auto
  <2> QED BY <1>0, <2>1, <2>2, <2>3, QuietWrite DEF Key
<1> QED
  BY <1>1, <1>2, <1>3, <1>4, <1>5, <1>6
     DEF QuietStep, Authorize, Decide, Exchange, Replayed, Rotate, Revoke, Family, Consents, Sessions, Select

LEMMA ConsumeQuiet ==
  ASSUME Typed, NEW r \in Req, Consume(r)
  PROVE  Quiet(r)
<1>1. job[r].key \in Code
  BY JobTyped DEF Consume, Fits
<1>2. job[r].key \in Key \ Token /\ Absent \in Rows(job[r].key)
  BY <1>1, KeyKinds, KeysDisjoint DEF Key
<1> QED BY <1>2, QuietPut, QuietRead DEF Consume, ConsumeCode, NoRow, Typed, TypeOK

\* What the UPDATE of a rotation writes.
LEMMA RetiredRow ==
  ASSUME Typed, NEW r \in Req, NEW t \in Token, NEW n \in Token, Row(r, t) # Absent
  PROVE  LET row == [Row(r, t) EXCEPT !.revoked = TRUE, !.next = n]
         IN  row \in Rows(t) /\ ~Live(row) /\ row.code = Row(r, t).code
<1>1. t \in Key
  BY DEF Key
<1>2. PICK old \in TokenRow : old = Row(r, t)
  BY <1>1, RowTyped, KeyKinds
<1> DEFINE row == [old EXCEPT !.revoked = TRUE, !.next = n]
<1>3. row \in TokenRow /\ row.revoked /\ row.code = old.code
  BY DEF TokenRow
<1> HIDE DEF row
<1>4. row \in Rows(t) /\ ~Live(row) /\ row.code = Row(r, t).code
  BY <1>1, <1>2, <1>3, KeyKinds DEF Live
<1>5. row = [Row(r, t) EXCEPT !.revoked = TRUE, !.next = n]
  BY <1>2 DEF row
<1> QED BY <1>4, <1>5

LEMMA RetireQuiet ==
  ASSUME Typed, NEW r \in Req, NEW n \in Token, job[r].key \in Token, RetireFacts(r, n)
  PROVE  Quiet(r)
<1> DEFINE t == job[r].key
           row == [Row(r, t) EXCEPT !.revoked = TRUE, !.next = n]
           w == [NoWrites EXCEPT ![t] = row]
<1>1. Row(r, t) # Absent
  BY DEF RetireFacts, Live
<1>2. t \in Key /\ row \in Rows(t) /\ ~Live(row) /\ row.code = Row(r, t).code
  BY <1>1, RetiredRow DEF Key
<1> HIDE DEF row
<1>3. w \in [Key -> Cell \cup {Untouched}]
  BY <1>2, KeyKinds DEF NoWrites
<1>4. w[t] = row /\ \A k \in Key \ {t} : w[k] = Untouched
  BY <1>2 DEF NoWrites
<1>5. /\ \A c \in Code : w[c] = Untouched
      /\ \A i \in Token : w[i] = Untouched \/ (Row(r, i) # Absent /\ ~Live(w[i]) /\ w[i].code = Row(r, i).code)
  BY <1>1, <1>2, <1>4, KeysDisjoint DEF Key
<1>6. Write(r, w, AutoCommit) /\ AutoCommit \in BOOLEAN
  BY Limits DEF RetireFacts, RetireToken, Put, row
<1>7. StoreOK
  BY DEF Typed, TypeOK
<1> HIDE DEF w
<1> QED BY <1>3, <1>5, <1>6, <1>7, <1>4, <1>1, QuietWrite

LEMMA FailQuiet ==
  ASSUME Typed, NEW r \in Req, Fail(r)
  PROVE  Quiet(r) /\ \A k \in Key : dirty'[r][k] = Untouched
<1>1. /\ committed' = committed /\ \A q \in Req \ {r} : dirty'[q] = dirty[q]
      /\ \A k \in Key : dirty'[r][k] = Untouched
  BY DEF Fail, Rollback, NoWrites, Typed, TypeOK, StoreOK
<1>2. Code \cup Token \subseteq Key
  BY DEF Key
<1> QED BY <1>1, <1>2 DEF Quiet, Fruitful

LEMMA CommitFacts ==
  ASSUME Typed, NEW r \in Req, Finish(r)
  PROVE  /\ \A k \in Key : /\ committed'[k] = IF dirty[r][k] = Untouched THEN committed[k] ELSE dirty[r][k]
                           /\ dirty'[r][k] = Untouched
         /\ \A q \in Req \ {r} : dirty'[q] = dirty[q]
BY DEF Finish, Commit, Overlay, NoWrites, Typed, TypeOK, StoreOK

\* The row that Mint or Chain stores.
LEMMA BornRow ==
  ASSUME Typed, NEW r \in Req, NEW g \in Grant, NEW c \in Code, NEW old \in Token \cup {None}
  PROVE  LET row == NewToken(g, c, old, Now(r))
         IN  row \in TokenRow /\ Live(row) /\ row.code = c /\ row # Absent /\ row # Untouched
<1> DEFINE row == NewToken(g, c, old, Now(r))
<1>1. row \in TokenRow
  BY NewTokenTyped, JobTyped
<1>2. row.code = c /\ row.revoked = FALSE
  BY DEF NewToken
<1> HIDE DEF row
<1>3. row # Absent /\ row # Untouched
  BY <1>1, StoreConstants
<1>4. Live(row)
  BY <1>2, <1>3 DEF Live
<1> QED BY <1>1, <1>2, <1>3, <1>4 DEF row

-----------------------------------------------------------------------------
(* Names is preserved. *)

RowsSent ==
  /\ \A t \in Token : committed[t] # Absent => committed[t].code \in Delivered
  /\ \A q \in Req, t \in Token :
       dirty[q][t] \notin {Absent, Untouched} => dirty[q][t].code \in Delivered

LEMMA QuietSent ==
  ASSUME Typed, Names, NEW r \in Req, Quiet(r), Delivered' = Delivered
  PROVE  RowsSent'
<1>1. \A t \in Token : Row(r, t) # Absent => Row(r, t).code \in Delivered
  BY DEF Names, SentBeforeUse, Row
<1>2. \A t \in Token : committed'[t] # Absent => committed'[t].code \in Delivered
  BY <1>1 DEF Quiet, Names, SentBeforeUse
<1>3. \A t \in Token : dirty'[r][t] \notin {Absent, Untouched} => dirty'[r][t].code \in Delivered
  BY <1>1 DEF Quiet, Names, SentBeforeUse
<1>4. \A q \in Req \ {r} : dirty'[q] = dirty[q]
  BY DEF Quiet
<1> QED BY <1>2, <1>3, <1>4 DEF RowsSent, Names, SentBeforeUse

\* Storing one row that is no token, or a token of a code that was sent.
LEMMA PutSent ==
  ASSUME Typed, Names, NEW r \in Req, NEW k \in Code \cup Token, NEW row \in Rows(k),
         k \in Token => row.code \in Delivered,
         Put(r, k, row), Delivered' = Delivered
  PROVE  RowsSent'
<1>1. k \in Key /\ StoreOK /\ Token \subseteq Key
  BY DEF Key, Typed, TypeOK
<1>2. CASE AutoCommit
  BY <1>1, <1>2, PutFacts DEF RowsSent, Names, SentBeforeUse
<1>3. CASE ~AutoCommit
  BY <1>1, <1>3, PutFacts DEF RowsSent, Names, SentBeforeUse
<1> QED BY <1>2, <1>3

LEMMA JoinNames ==
  ASSUME NewIsSecret', Delivered' \subseteq generated', RowsSent',
         \A q \in Req : job'[q].key \in Delivered' \cup {None},
         \A q \in Req : pc'[q] = "chain" => job'[q].code \in Delivered'
  PROVE  Names'
BY DEF Names, SentBeforeUse, RowsSent

LEMMA QuietNames ==
  ASSUME Typed, Names, NEW r \in Req, Others(r), HoldsIds(r), Quiet(r), pc'[r] # "chain",
         generated \subseteq generated', answers' = answers
  PROVE  Names'
<1>1. \A q \in Req : pc'[q] = "chain" => job'[q].code \in Delivered
  BY DEF Others, Names, SentBeforeUse
<1> QED BY <1>1, MovesNames, QuietSent, JoinNames

LEMMA NextNames == Typed /\ Names /\ [Next]_vars => Names'
<1> SUFFICES ASSUME Typed, Names, [Next]_vars PROVE Names'
  OBVIOUS
<1>1. ASSUME NEW r \in Req, QuietStep(r) PROVE Names'
  <2>1. generated \subseteq generated' /\ answers' = answers
    BY <1>1 DEF QuietStep, Rest, Generate, Register, Authorize, Decide, Approve, Exchange, Replayed,
                Rotate, Revoke, Family, Revoking, Forget, Consents, Withdraw, Sessions, Select, Purge
  <2> QED BY <1>1, <2>1, QuietMoves, QuietSteps, QuietNames
<1>2. ASSUME NEW r \in Req, Consume(r) PROVE Names'
  <2>1. pc'[r] # "chain" /\ generated' = generated /\ answers' = answers
    BY <1>2, ConsumeMoves DEF Lapse, Consume, Rest
  <2> QED BY <1>2, <2>1, ConsumeMoves, ConsumeQuiet, QuietNames
<1>3. ASSUME NEW r \in Req, Issue(r) PROVE Names'
  <2>1. PICK c \in Code : IssueFacts(r, c)
    BY <1>3, IssueMoves
  <2>2. answers' = answers /\ generated \subseteq generated'
    BY <1>3, <2>1 DEF Issue, IssueFacts
  <2> DEFINE row == [grant |-> job[r].grant, expires |-> Now(r) + CodeTTL]
  <2>3. row \in Rows(c) /\ c \notin Token
    <3>1. row \in CodeRow
      BY <1>3, JobTyped, Limits DEF Issue, Fits, CodeRow
    <3> QED BY <3>1, KeyKinds, KeysDisjoint DEF Key
  <2>4. Put(r, c, row)
    BY <2>1 DEF IssueFacts, CreateCode
  <2> HIDE DEF row
  <2>5. Others(r) /\ HoldsIds(r) /\ pc'[r] = "reply"
    BY <1>3, <2>1, IssueMoves DEF IssueFacts
  <2>6. \A q \in Req : pc'[q] = "chain" => job'[q].code \in Delivered
    BY <2>5 DEF Others, Names, SentBeforeUse
  <2> QED BY <2>2, <2>3, <2>4, <2>5, <2>6, MovesNames, PutSent, JoinNames
<1>4. ASSUME NEW r \in Req, Mint(r) PROVE Names'
  <2>1. PICK t \in Token : MintFacts(r, t)
    BY <1>4, MintMoves
  <2>2. answers' = answers /\ generated \subseteq generated'
    BY <1>4, <2>1 DEF Mint, MintFacts, Rest
  <2> DEFINE row == NewToken(job[r].grant, job[r].key, None, Now(r))
  <2>3. job[r].grant \in Grant /\ job[r].key \in Code /\ job[r].key \in Delivered
    BY <1>4, JobTyped, StoreConstants DEF Mint, Fits, Names, SentBeforeUse
  <2>4. row \in TokenRow /\ row.code = job[r].key
    BY <2>3, BornRow
  <2>5. Put(r, t, row)
    BY <2>1 DEF MintFacts, CreateRefreshToken
  <2> HIDE DEF row
  <2>6. row \in Rows(t) /\ row.code \in Delivered
    BY <2>3, <2>4, KeyKinds DEF Key
  <2>7. Others(r) /\ HoldsIds(r) /\ pc'[r] = "reply"
    BY <1>4, <2>1, MintMoves DEF MintFacts
  <2>8. \A q \in Req : pc'[q] = "chain" => job'[q].code \in Delivered
    BY <2>7 DEF Others, Names, SentBeforeUse
  <2> QED BY <2>2, <2>5, <2>6, <2>7, <2>8, MovesNames, PutSent, JoinNames
<1>5. ASSUME NEW r \in Req, Chain(r) PROVE Names'
  <2> DEFINE row == NewToken(job[r].grant, job[r].code, job[r].key, Now(r))
  <2>1. /\ job[r].grant \in Grant /\ job[r].code \in Code /\ job[r].code \in Delivered
        /\ job[r].key \in Token /\ job[r].new \in Token
    BY <1>5, JobTyped DEF Chain, Fits, Names, SentBeforeUse
  <2>2. row \in TokenRow /\ row.code = job[r].code
    BY <2>1, BornRow
  <2>3. Put(r, job[r].new, row)
    BY <1>5, ChainMoves
  <2> HIDE DEF row
  <2>4. row \in Rows(job[r].new) /\ row.code \in Delivered
    BY <2>1, <2>2, KeyKinds DEF Key
  <2>5. Others(r) /\ HoldsIds(r) /\ pc'[r] = "reply" /\ generated' = generated /\ answers' = answers
    BY <1>5, ChainMoves DEF Chain, Rest
  <2>6. \A q \in Req : pc'[q] = "chain" => job'[q].code \in Delivered
    BY <2>5 DEF Others, Names, SentBeforeUse
  <2> QED BY <2>1, <2>3, <2>4, <2>5, <2>6, MovesNames, PutSent, JoinNames
<1>6. ASSUME NEW r \in Req, Retire(r) PROVE Names'
  <2>1. Others(r) /\ HoldsIds(r) /\ answers' = answers
    BY <1>6, RetireMoves DEF Retire, Rest
  <2>2. CASE Lapse(r)
    <3>1. Quiet(r) /\ pc'[r] # "chain" /\ generated' = generated
      BY <2>2, QuietRead DEF Lapse, NoRow
    <3> QED BY <2>1, <3>1, QuietNames
  <2>3. ASSUME NEW n \in Token, RetireFacts(r, n) PROVE Names'
    <3>1. job[r].key \in Token
      BY <1>6, JobTyped DEF Retire, Fits
    <3>2. Quiet(r)
      BY <2>3, <3>1, RetireQuiet
    <3>3. job'[r].code \in Delivered
      BY <2>3, <3>1 DEF RetireFacts, Live, Row, Names, SentBeforeUse
    <3>4. \A q \in Req : pc'[q] = "chain" => job'[q].code \in Delivered
      BY <2>1, <3>3 DEF Others, Names, SentBeforeUse
    <3>5. generated \subseteq generated'
      BY <2>3 DEF RetireFacts
    <3> QED BY <2>1, <3>2, <3>4, <3>5, MovesNames, QuietSent, JoinNames
  <2> QED BY <1>6, <2>2, <2>3, RetireMoves
<1>7. ASSUME NEW r \in Req, Finish(r) PROVE Names'
  <2>1. RowsSent'
    BY <1>7, CommitFacts, FinishNames DEF RowsSent, Names, SentBeforeUse, Key
  <2>2. \A q \in Req : pc'[q] = "chain" => job'[q].code \in Delivered'
    BY <1>7, EndMoves, FinishNames DEF Others, Names, SentBeforeUse
  <2> QED BY <1>7, <2>1, <2>2, FinishNames, JoinNames
<1>8. ASSUME NEW r \in Req, Fail(r) PROVE Names'
  <2>1. Others(r) /\ HoldsIds(r) /\ pc'[r] # "chain" /\ generated' = generated /\ answers' = answers
    BY <1>8, EndMoves DEF HoldsIds, Fail, Rest
  <2> QED BY <1>8, <2>1, FailQuiet, QuietNames
<1>9. ASSUME NEW r \in Req, NEW op \in AllOps, Begin(r, op) PROVE Names'
  <2>1. generated' = generated /\ answers' = answers /\ Quiet(r)
    BY <1>9, QuietRead DEF Begin, Rest
  <2> QED BY <1>9, <2>1, BeginMoves, QuietNames
<1>10. CASE Tick \/ Install \/ UNCHANGED vars
  <2>1. UNCHANGED <<committed, dirty, pc, job, generated, answers>>
    BY <1>10 DEF Tick, Install, vars
  <2> QED BY <2>1 DEF Names, NewIsSecret, SentBeforeUse, Delivered
<1> QED BY <1>1, <1>2, <1>3, <1>4, <1>5, <1>6, <1>7, <1>8, <1>9, <1>10 DEF Next, Step, QuietStep

-----------------------------------------------------------------------------
(* OnlyDeletes and Paid are preserved. *)

LEMMA QuietDeletes ==
  ASSUME OnlyDeletes, NEW r \in Req, Quiet(r)
  PROVE  OnlyDeletes'
BY DEF OnlyDeletes, Quiet

LEMMA PutDeletes ==
  ASSUME OnlyDeletes, Typed, NEW r \in Req, NEW k \in Key, NEW row, Put(r, k, row)
  PROVE  OnlyDeletes'
BY DEF OnlyDeletes, Put, Write

LEMMA AutoPaid ==
  ASSUME AutoCommit, OnlyDeletes'
  PROVE  Paid'
BY DEF OnlyDeletes, Paid, PaidBy, Fruitful, Live, Key

\* Nobody else's promises change when a transaction writes rows of its own.
LEMMA OthersPaid ==
  ASSUME Paid, NEW r \in Req, Others(r), committed' = committed,
         \A q \in Req \ {r} : dirty'[q] = dirty[q],
         PaidBy(r)'
  PROVE  Paid'
<1>1. \A q \in Req \ {r} : \A c : Claims(q, c)' <=> Claims(q, c)
  BY DEF Claims, LiveTokens
<1>2. ASSUME NEW q \in Req \ {r} PROVE PaidBy(q)'
  BY <1>1 DEF Paid, PaidBy, Others, LiveTokens
<1> QED BY <1>2 DEF Paid

LEMMA QuietPaid ==
  ASSUME ~AutoCommit, Paid, NEW r \in Req, Others(r), Quiet(r), pc'[r] \notin {"mint", "chain"},
         pc[r] # "reply" \/ \A k \in Key : dirty'[r][k] = Untouched
  PROVE  Paid'
<1>1. \A c \in Code : dirty'[r][c] \in {Absent, Untouched}
  BY DEF Quiet, Paid, PaidBy, Key
<1>2. \A t \in Token : ~Fruitful(dirty'[r][t])
  BY DEF Quiet, Paid, PaidBy, Key, Fruitful
<1>3. PaidBy(r)'
  BY <1>1, <1>2 DEF PaidBy
<1> QED BY <1>3, OthersPaid DEF Quiet

\* Before it stores the row it is about to send, a transaction has brought nothing to life.
LEMMA NothingBorn ==
  ASSUME Paid, NEW r \in Req, pc[r] # "reply"
  PROVE  /\ \A c \in Code : dirty[r][c] \in {Absent, Untouched}
         /\ \A t \in Token : ~Fruitful(dirty[r][t])
         /\ \A c \in Code : Row(r, c) # Absent => dirty[r][c] = Untouched /\ Row(r, c) = committed[c]
         /\ \A t \in Token : Live(Row(r, t)) => dirty[r][t] = Untouched /\ Row(r, t) = committed[t]
BY DEF Paid, PaidBy, Row, Fruitful

LEMMA ConsumePaid ==
  ASSUME ~AutoCommit, Typed, Paid, NEW r \in Req, Consume(r)
  PROVE  Paid'
<1>1. Others(r) /\ job' = job /\ pc[r] = "consume" /\ Quiet(r)
  BY ConsumeMoves, ConsumeQuiet DEF Consume
<1>2. CASE Lapse(r)
  BY <1>1, <1>2, QuietPaid DEF Lapse
<1>3. CASE ~Lapse(r)
  <2> DEFINE c == job[r].key
  <2>1. c \in Code /\ c \in Key /\ Absent \in Rows(c)
    BY JobTyped, KeyKinds DEF Consume, Fits, Key
  <2>2. pc'[r] = "mint" /\ Put(r, c, Absent) /\ Row(r, c) # Absent
    BY <1>3, ConsumeMoves DEF ConsumeCode
  <2>3. committed[c] # Absent
    BY <1>1, <2>1, <2>2, NothingBorn
  <2>4. committed' = committed /\ dirty'[r][c] = Absent
    BY <2>1, <2>2, PutFacts DEF Typed, TypeOK
  <2>5. \A i \in Code : dirty'[r][i] \in {Absent, Untouched}
    BY <1>1, NothingBorn DEF Quiet
  <2>6. \A t \in Token : ~Fruitful(dirty'[r][t])
    BY <1>1, NothingBorn DEF Quiet
  <2>7. PaidBy(r)'
    BY <1>1, <2>2, <2>3, <2>4, <2>5, <2>6 DEF PaidBy
  <2> QED BY <1>1, <2>4, <2>7, OthersPaid DEF Quiet
<1> QED BY <1>2, <1>3

LEMMA RetirePaid ==
  ASSUME ~AutoCommit, Typed, Paid, NEW r \in Req, Retire(r)
  PROVE  Paid'
<1>1. Others(r) /\ pc[r] = "retire"
  BY RetireMoves DEF Retire
<1>2. CASE Lapse(r)
  BY <1>1, <1>2, QuietPaid, QuietRead DEF Lapse, NoRow
<1>3. ASSUME NEW n \in Token, RetireFacts(r, n) PROVE Paid'
  <2> DEFINE t == job[r].key
             row == [Row(r, t) EXCEPT !.revoked = TRUE, !.next = n]
  <2>1. t \in Token /\ t \in Key
    BY JobTyped DEF Retire, Fits, Key
  <2>2. Live(Row(r, t)) /\ Row(r, t) = committed[t]
    BY <1>1, <1>3, <2>1, NothingBorn DEF RetireFacts
  <2>3. row \in Rows(t) /\ ~Live(row)
    BY <2>1, <2>2, RetiredRow DEF Live
  <2>4. Put(r, t, row)
    BY <1>3 DEF RetireFacts, RetireToken
  <2> HIDE DEF row
  <2>5. committed' = committed /\ dirty'[r][t] = row /\ row # Untouched
    BY <2>1, <2>3, <2>4, PutFacts, KeyKinds DEF Typed, TypeOK
  <2>6. Quiet(r)
    BY <1>3, <2>1, RetireQuiet
  <2>7. /\ \A i \in Code : dirty'[r][i] \in {Absent, Untouched}
        /\ \A i \in Token : ~Fruitful(dirty'[r][i])
    BY <1>1, <2>6, NothingBorn DEF Quiet
  <2>8. pc'[r] = "chain" /\ job'[r].key = t /\ job'[r].code = committed[t].code
    BY <1>3, <2>2 DEF RetireFacts
  <2>9. (job[r].key \in LiveTokens(job[r].code))'
    BY <2>1, <2>2, <2>5, <2>8 DEF LiveTokens
  <2>10. PaidBy(r)'
    BY <2>3, <2>5, <2>7, <2>8, <2>9 DEF PaidBy
  <2> QED BY <1>1, <2>5, <2>6, <2>10, OthersPaid DEF Quiet
<1> QED BY <1>2, <1>3, RetireMoves

LEMMA IssuePaid ==
  ASSUME ~AutoCommit, Typed, Paid, NEW r \in Req, Issue(r)
  PROVE  Paid'
<1>1. PICK c \in Code : IssueFacts(r, c)
  BY IssueMoves
<1>2. Others(r) /\ pc[r] = "issue"
  BY IssueMoves DEF Issue
<1> DEFINE row == [grant |-> job[r].grant, expires |-> Now(r) + CodeTTL]
<1>3. row \in CodeRow
  BY JobTyped, Limits DEF Issue, Fits, CodeRow
<1>4. Put(r, c, row) /\ c \in Key /\ row \in Rows(c)
  BY <1>1, <1>3, KeyKinds DEF IssueFacts, CreateCode, Key
<1> HIDE DEF row
<1>5. /\ committed' = committed /\ \A q \in Req \ {r} : dirty'[q] = dirty[q]
      /\ \A i \in Key \ {c} : dirty'[r][i] = dirty[r][i]
  BY <1>4, PutFacts DEF Typed, TypeOK
<1>6. \A i \in Code \ {c} : dirty'[r][i] \in {Absent, Untouched}
  BY <1>2, <1>5, NothingBorn DEF Key
<1>7. \A t \in Token : ~Fruitful(dirty'[r][t])
  BY <1>2, <1>5, NothingBorn, KeysDisjoint DEF Key, Fruitful
<1>8. PaidBy(r)'
  BY <1>1, <1>6, <1>7 DEF PaidBy, IssueFacts
<1> QED BY <1>2, <1>5, <1>8, OthersPaid

\* A stored token takes the place of the right its transaction has taken away.
LEMMA BornPaid ==
  ASSUME ~AutoCommit, Typed, Paid, NEW r \in Req, Others(r),
         pc[r] # "reply", pc'[r] = "reply",
         NEW t \in Token, NEW row \in Rows(t), Put(r, t, row),
         job'[r].new = t, row.code \in Code,
         \/ committed[row.code] # Absent /\ dirty[r][row.code] = Absent
         \/ \E o \in LiveTokens(row.code) \ {t} : dirty[r][o] # Untouched /\ ~Live(dirty[r][o])
  PROVE  Paid'
<1>1. t \in Key /\ StoreOK
  BY DEF Key, Typed, TypeOK
<1>2. /\ committed' = committed /\ \A q \in Req \ {r} : dirty'[q] = dirty[q]
      /\ dirty'[r][t] = row /\ \A i \in Key \ {t} : dirty'[r][i] = dirty[r][i]
  BY <1>1, PutFacts
<1>3. Claims(r, row.code)'
  <2>1. row.code # t /\ row.code \in Key
    BY KeysDisjoint DEF Key
  <2> QED BY <1>2, <2>1 DEF Claims, LiveTokens, Key
<1>4. \A c \in Code : dirty'[r][c] \in {Absent, Untouched}
  BY <1>2, NothingBorn, KeysDisjoint DEF Key
<1>5. \A i \in Token \ {t} : ~Fruitful(dirty'[r][i])
  BY <1>2, NothingBorn DEF Key, Fruitful
<1>6. PaidBy(r)'
  BY <1>2, <1>3, <1>4, <1>5 DEF PaidBy
<1> QED BY <1>2, <1>6, OthersPaid

LEMMA MintPaid ==
  ASSUME ~AutoCommit, Typed, Names, Paid, NEW r \in Req, Mint(r)
  PROVE  Paid'
<1>1. PICK t \in Token : MintFacts(r, t)
  BY MintMoves
<1> DEFINE row == NewToken(job[r].grant, job[r].key, None, Now(r))
<1>2. Others(r) /\ pc[r] = "mint" /\ job[r].grant \in Grant /\ job[r].key \in Code
  BY MintMoves, JobTyped DEF Mint, Fits
<1>3. row \in TokenRow /\ row.code = job[r].key
  BY <1>2, BornRow
<1>4. Put(r, t, row)
  BY <1>1 DEF MintFacts, CreateRefreshToken
<1> HIDE DEF row
<1>5. row \in Rows(t)
  BY <1>3, KeyKinds DEF Key
<1>6. committed[row.code] # Absent /\ dirty[r][row.code] = Absent
  BY <1>2, <1>3 DEF Paid, PaidBy
<1> QED BY <1>1, <1>2, <1>3, <1>4, <1>5, <1>6, BornPaid DEF MintFacts

LEMMA ChainPaid ==
  ASSUME ~AutoCommit, Typed, Names, Paid, NEW r \in Req, Chain(r)
  PROVE  Paid'
<1> DEFINE t == job[r].new
           row == NewToken(job[r].grant, job[r].code, job[r].key, Now(r))
<1>1. /\ Others(r) /\ pc[r] = "chain" /\ pc'[r] = "reply" /\ job' = job /\ Put(r, t, row)
      /\ job[r].grant \in Grant /\ job[r].code \in Code /\ job[r].key \in Token /\ t \in Token
  BY ChainMoves, JobTyped DEF Chain, Fits
<1>2. row \in TokenRow /\ row.code = job[r].code
  BY <1>1, BornRow
<1> HIDE DEF row
<1>3. row \in Rows(t)
  BY <1>1, <1>2, KeyKinds DEF Key
<1>4. job[r].key # t
  BY <1>1, StoreConstants DEF Names, NewIsSecret, SentBeforeUse
<1>5. /\ job[r].key \in LiveTokens(row.code) \ {t}
      /\ dirty[r][job[r].key] # Untouched /\ ~Live(dirty[r][job[r].key])
  BY <1>1, <1>2, <1>4 DEF Paid, PaidBy
<1> QED BY <1>1, <1>2, <1>3, <1>5, BornPaid

LEMMA FinishPaid ==
  ASSUME ~AutoCommit, Typed, RowLocks, Paid, NEW r \in Req, Finish(r)
  PROVE  Paid'
<1>1. Others(r) /\ pc'[r] = "idle"
  BY EndMoves
<1>2. PaidBy(r)'
  BY <1>1, CommitFacts DEF PaidBy, Fruitful, Key
<1>3. ASSUME NEW q \in Req \ {r} PROVE PaidBy(q)'
  <2>1. \A k \in Key : dirty[q][k] # Untouched => committed'[k] = committed[k]
    BY CommitFacts DEF RowLocks
  <2>2. dirty'[q] = dirty[q] /\ pc'[q] = pc[q] /\ job'[q] = job[q]
    BY <1>1, CommitFacts DEF Others
  <2>3. \A c \in Code : Claims(q, c) => Claims(q, c)'
    BY <2>1, <2>2, StoreConstants DEF Claims, LiveTokens, Key
  <2>4. \A t \in Token : Fruitful(dirty[q][t]) => dirty[q][t].code \in Code
    BY KeyKinds DEF Fruitful, Live, Typed, TypeOK, StoreOK, TokenRow, Key
  <2>5. PaidBy(q)
    BY DEF Paid
  <2>6. pc[q] = "mint" => job[q].key \in Key
    BY JobTyped DEF Fits, Key
  <2>7. pc[q] = "chain" => job[q].key \in Token
    BY JobTyped DEF Fits
  <2>8. pc[q] = "mint" => committed'[job[q].key] # Absent /\ dirty[q][job[q].key] = Absent
    BY <2>1, <2>5, <2>6, StoreConstants DEF PaidBy
  <2>9. pc[q] = "chain" => /\ (job[q].key \in LiveTokens(job[q].code))'
                           /\ dirty[q][job[q].key] # Untouched /\ ~Live(dirty[q][job[q].key])
    BY <2>1, <2>2, <2>5, <2>7 DEF PaidBy, LiveTokens, Key
  <2> QED BY <2>2, <2>3, <2>4, <2>5, <2>8, <2>9 DEF PaidBy
<1> QED BY <1>2, <1>3 DEF Paid

LEMMA NextPaid ==
  ASSUME Typed, RowLocks, Names, Paid, OnlyDeletes, [Next]_vars
  PROVE  OnlyDeletes' /\ Paid'
<1>1. ASSUME NEW r \in Req, QuietStep(r) PROVE OnlyDeletes' /\ Paid'
  <2>1. Others(r) /\ Quiet(r) /\ pc'[r] \notin {"mint", "chain"}
    BY <1>1, QuietMoves, QuietSteps
  <2>2. pc[r] # "reply"
    BY <1>1 DEF QuietStep, Register, Authorize, Decide, Approve, Exchange, Replayed,
                Rotate, Revoke, Family, Revoking, Forget, Consents, Withdraw, Sessions, Select, Purge
  <2> QED BY <2>1, <2>2, QuietDeletes, QuietPaid, AutoPaid
<1>2. ASSUME NEW r \in Req, Consume(r) PROVE OnlyDeletes' /\ Paid'
  BY <1>2, ConsumeQuiet, QuietDeletes, ConsumePaid, AutoPaid
<1>3. ASSUME NEW r \in Req, Retire(r) PROVE OnlyDeletes' /\ Paid'
  <2>1. job[r].key \in Token
    BY <1>3, JobTyped DEF Retire, Fits
  <2>2. Quiet(r)
    BY <1>3, <2>1, RetireMoves, RetireQuiet, QuietRead DEF Lapse, NoRow
  <2> QED BY <1>3, <2>2, QuietDeletes, RetirePaid, AutoPaid
<1>4. ASSUME NEW r \in Req, Issue(r) \/ Mint(r) \/ Chain(r) PROVE OnlyDeletes' /\ Paid'
  <2>1. CASE Issue(r)
    <3>1. \E c \in Code : \E row : Put(r, c, row)
      BY <2>1, IssueMoves DEF IssueFacts, CreateCode
    <3> QED BY <2>1, <3>1, PutDeletes, IssuePaid, AutoPaid DEF Key
  <2>2. CASE Mint(r)
    <3>1. \E t \in Token : \E row : Put(r, t, row)
      BY <2>2, MintMoves DEF MintFacts, CreateRefreshToken
    <3> QED BY <2>2, <3>1, PutDeletes, MintPaid, AutoPaid DEF Key
  <2>3. CASE Chain(r)
    <3>1. \E t \in Token : \E row : Put(r, t, row)
      BY <2>3, ChainMoves, JobTyped DEF Chain, Fits
    <3> QED BY <2>3, <3>1, PutDeletes, ChainPaid, AutoPaid DEF Key
  <2> QED BY <1>4, <2>1, <2>2, <2>3
<1>5. ASSUME NEW r \in Req, Finish(r) PROVE OnlyDeletes' /\ Paid'
  <2>1. OnlyDeletes'
    BY <1>5, CommitFacts DEF OnlyDeletes
  <2> QED BY <1>5, <2>1, FinishPaid, AutoPaid
<1>6. ASSUME NEW r \in Req, Fail(r) PROVE OnlyDeletes' /\ Paid'
  <2>1. Others(r) /\ pc'[r] \notin {"mint", "chain"}
    BY <1>6, EndMoves
  <2> QED BY <1>6, <2>1, FailQuiet, QuietDeletes, QuietPaid, AutoPaid
<1>7. ASSUME NEW r \in Req, NEW op \in AllOps, Begin(r, op) PROVE OnlyDeletes' /\ Paid'
  <2>1. Quiet(r) /\ pc[r] # "reply"
    BY <1>7, QuietRead DEF Begin
  <2> QED BY <1>7, <2>1, BeginMoves, QuietDeletes, QuietPaid, AutoPaid
<1>8. CASE Tick \/ Install \/ UNCHANGED vars
  <2>1. UNCHANGED <<committed, dirty, pc, job>>
    BY <1>8 DEF Tick, Install, vars
  <2>2. \A r \in Req : \A c : Claims(r, c)' <=> Claims(r, c)
    BY <2>1 DEF Claims, LiveTokens
  <2> QED BY <2>1, <2>2 DEF OnlyDeletes, Paid, PaidBy, LiveTokens
<1> QED BY <1>1, <1>2, <1>3, <1>4, <1>5, <1>6, <1>7, <1>8 DEF Next, Step, QuietStep

(* OneRightPerGrant is preserved. *)

\* What makes x a right of code c.
Has(x, c) ==
  \/ x = c /\ committed[c] # Absent
  \/ x \in Token /\ Live(committed[x]) /\ committed[x].code = c
  \/ x \in Req /\ Carries(x, c)

LEMMA RightsOf ==
  ASSUME NEW c \in Code, NEW x
  PROVE  (x \in Rights(c) <=> Has(x, c)) /\ (x \in Rights(c)' <=> Has(x, c)')
BY DEF Rights, LiveTokens, Has

\* Every right was there before, or one right takes the place of the other.
LEMMA HandedOn ==
  ASSUME OneRightPerGrant, NEW k \in Code, NEW old, NEW new,
         \A c \in Code \ {k} : Rights(c)' \subseteq Rights(c),
         Rights(k) \subseteq {old}, Rights(k)' \subseteq {new} \cup (Rights(k) \ {old})
  PROVE  OneRightPerGrant'
<1>1. ASSUME NEW c \in Code PROVE \A x, y \in Rights(c)' : x = y
  <2>1. CASE c = k
    BY <2>1
  <2>2. CASE c # k
    BY <2>2 DEF OneRightPerGrant
  <2> QED BY <2>1, <2>2
<1> QED BY <1>1 DEF OneRightPerGrant

LEMMA SubsetRights ==
  ASSUME OneRightPerGrant, \A c \in Code : \A x : Has(x, c)' => Has(x, c)
  PROVE  OneRightPerGrant'
BY RightsOf DEF OneRightPerGrant

\* Statement by statement, a quiet step at most ends rights.
LEMMA QuietRights ==
  ASSUME AutoCommit, OneRightPerGrant, NEW r \in Req, Others(r), Quiet(r),
         pc'[r] \notin {"mint", "chain"}
  PROVE  OneRightPerGrant'
<1>1. ASSUME NEW c \in Code, NEW x, Has(x, c)' PROVE Has(x, c)
  <2>1. \A t \in Token : Live(committed'[t]) => committed'[t] = committed[t]
    BY DEF Quiet
  <2>2. committed'[c] # Absent => committed'[c] = committed[c]
    BY DEF Quiet
  <2>3. \A q \in Req : Carries(q, c)' => Carries(q, c)
    BY DEF Carries, Others
  <2> QED BY <1>1, <2>1, <2>2, <2>3 DEF Has
<1> QED BY <1>1, SubsetRights

\* In transactions nobody carries a right, and only a commit changes rows.
LEMMA SameRights ==
  ASSUME ~AutoCommit, OneRightPerGrant, committed' = committed
  PROVE  OneRightPerGrant'
<1>1. ASSUME NEW c \in Code, NEW x, Has(x, c)' PROVE Has(x, c)
  BY <1>1 DEF Has, Carries
<1> QED BY <1>1, SubsetRights

\* A commit brings one right to life and ends the one it was handed on from.
LEMMA CommitRights ==
  ASSUME ~AutoCommit, Typed, Names, Paid, OneRightPerGrant, NEW r \in Req, Finish(r)
  PROVE  OneRightPerGrant'
<1> DEFINE n == job[r].new
           Born(z) == z = n /\ z \in Code \cup Token /\ dirty[r][z] \notin {Absent, Untouched}
<1>1. \A k \in Key : committed'[k] = IF dirty[r][k] = Untouched THEN committed[k] ELSE dirty[r][k]
  BY CommitFacts
<1>2. Code \cup Token \subseteq Key
  BY DEF Key
<1>3. ASSUME NEW c \in Code, NEW z, Has(z, c)'
      PROVE  z \in Code \cup Token /\ ((Has(z, c) /\ dirty[r][z] = Untouched) \/ Born(z))
  <2>1. CASE z = c /\ committed'[c] # Absent
    <3>1. dirty[r][c] \notin {Absent, Untouched} => c = n
      BY DEF Paid, PaidBy
    <3> QED BY <1>1, <1>2, <2>1, <3>1 DEF Has
  <2>2. CASE z \in Token /\ Live(committed'[z]) /\ committed'[z].code = c
    <3>1. Fruitful(dirty[r][z]) => z = n /\ dirty[r][z] \notin {Absent, Untouched}
      BY <2>2 DEF Paid, PaidBy, Fruitful, Live
    <3> QED BY <1>1, <1>2, <2>2, <3>1 DEF Has, Fruitful
  <2> QED BY <1>3, <2>1, <2>2 DEF Has, Carries
<1>4. ASSUME NEW c \in Code, NEW m, Has(m, c)', Born(m), NEW z, Has(z, c)' PROVE z = m
  <2> SUFFICES ASSUME z # m PROVE FALSE
    OBVIOUS
  <2>1. Has(z, c) /\ dirty[r][z] = Untouched /\ z \in Code \cup Token
    BY <1>3, <1>4
  <2>2. CASE m \in Code
    <3>1. m = c
      BY <1>4, <2>2, KeysDisjoint DEF Has, Carries
    <3>2. z \in Token /\ committed[z] # Absent /\ committed[z].code = c
      BY <2>1, <3>1, KeysDisjoint DEF Has, Live, Carries
    <3>3. c \in Delivered
      BY <3>2 DEF Names, SentBeforeUse
    <3>4. c \notin Delivered
      BY <1>4, <2>2, <3>1, StoreConstants DEF Names, NewIsSecret
    <3> QED BY <3>3, <3>4
  <2>3. CASE m \in Token
    <3>1. Live(committed'[m]) /\ committed'[m].code = c /\ committed'[m] = dirty[r][m]
      BY <1>1, <1>2, <1>4, <2>3, KeysDisjoint DEF Has, Carries
    <3>2. Claims(r, c)
      BY <1>4, <2>3, <3>1 DEF Paid, PaidBy, Fruitful
    <3>3. PICK k : Has(k, c) /\ dirty[r][k] # Untouched
      BY <3>2, StoreConstants DEF Claims, LiveTokens, Has
    <3>4. k = z
      BY <2>1, <3>3, RightsOf DEF OneRightPerGrant
    <3> QED BY <2>1, <3>3, <3>4
  <2> QED BY <1>4, <2>2, <2>3
<1> HIDE DEF Born, n
<1>5. ASSUME NEW c \in Code, NEW x \in Rights(c)', NEW y \in Rights(c)' PROVE x = y
  <2>1. Has(x, c)' /\ Has(y, c)'
    BY <1>5, RightsOf
  <2>2. CASE Born(x) \/ Born(y)
    BY <1>4, <2>1, <2>2
  <2>3. CASE ~Born(x) /\ ~Born(y)
    <3>1. Has(x, c) /\ Has(y, c)
      BY <1>3, <2>1, <2>3
    <3> QED BY <3>1, RightsOf DEF OneRightPerGrant
  <2> QED BY <2>2, <2>3
<1> QED BY <1>5 DEF OneRightPerGrant

-----------------------------------------------------------------------------
(* The steps that hand a right on, when statements commit one by one. *)

LEMMA AutoRow ==
  ASSUME AutoCommit, OnlyDeletes, NEW r \in Req, NEW k \in Key, Row(r, k) # Absent
  PROVE  committed[k] = Row(r, k)
BY DEF OnlyDeletes, Row

LEMMA AutoPut ==
  ASSUME AutoCommit, Typed, NEW r \in Req, NEW k \in Key, NEW row \in Rows(k), Put(r, k, row)
  PROVE  committed'[k] = row /\ \A i \in Key \ {k} : committed'[i] = committed[i]
BY PutFacts DEF Typed, TypeOK

\* A code nobody was sent has led to nothing yet.
LEMMA IssueRights ==
  ASSUME AutoCommit, Typed, Names, OneRightPerGrant, NEW r \in Req, Issue(r)
  PROVE  OneRightPerGrant'
<1>1. PICK c \in Code : IssueFacts(r, c)
  BY IssueMoves
<1>2. Others(r) /\ pc'[r] = "reply"
  BY <1>1, IssueMoves DEF IssueFacts
<1> DEFINE row == [grant |-> job[r].grant, expires |-> Now(r) + CodeTTL]
<1>3. row \in CodeRow
  BY JobTyped, Limits DEF Issue, Fits, CodeRow
<1>4. Put(r, c, row) /\ c \in Key /\ row \in Rows(c)
  BY <1>1, <1>3, KeyKinds DEF IssueFacts, CreateCode, Key
<1> HIDE DEF row
<1>5. \A i \in Key \ {c} : committed'[i] = committed[i]
  BY <1>4, AutoPut
<1>6. c \notin Delivered
  BY <1>1 DEF IssueFacts, Names, SentBeforeUse
<1>7. \A x : Has(x, c) => x = c
  <2>1. \A t \in Token : Live(committed[t]) => committed[t].code # c
    BY <1>6 DEF Names, SentBeforeUse, Live
  <2>2. \A q \in Req : ~Carries(q, c)
    BY <1>6, StoreConstants DEF Names, SentBeforeUse, Carries
  <2> QED BY <2>1, <2>2 DEF Has
<1>8. \A q \in Req, i \in Code : Carries(q, i)' => Carries(q, i)
  BY <1>2 DEF Carries, Others
<1>9. \A t \in Token : committed'[t] = committed[t]
  BY <1>5, KeysDisjoint DEF Key
<1>10. ASSUME NEW i \in Code \ {c}, NEW x, Has(x, i)' PROVE Has(x, i)
  BY <1>5, <1>8, <1>9, <1>10 DEF Has, Key
<1>11. ASSUME NEW x, Has(x, c)' PROVE x = c
  <2>1. x = c \/ Has(x, c)
    BY <1>8, <1>9, <1>11 DEF Has
  <2> QED BY <1>7, <2>1
<1> QED BY <1>7, <1>10, <1>11, RightsOf, HandedOn

\* A step that turns the right of r, or one of the rows it wrote, into another.
LEMMA ConsumeRights ==
  ASSUME AutoCommit, Typed, OnlyDeletes, OneRightPerGrant, NEW r \in Req, Consume(r)
  PROVE  OneRightPerGrant'
<1>1. Others(r) /\ job' = job
  BY ConsumeMoves
<1>2. CASE Lapse(r)
  BY <1>1, <1>2, QuietRead, QuietRights DEF Lapse, NoRow
<1>3. CASE ~Lapse(r)
  <2> DEFINE c == job[r].key
  <2>1. pc'[r] = "mint" /\ Put(r, c, Absent) /\ Row(r, c) # Absent
    BY <1>3, ConsumeMoves DEF ConsumeCode
  <2>2. c \in Code /\ c \in Key /\ Absent \in Rows(c)
    BY JobTyped, KeyKinds DEF Consume, Fits, Key
  <2>3. committed[c] # Absent /\ committed'[c] = Absent
        /\ \A i \in Key \ {c} : committed'[i] = committed[i]
    BY <2>1, <2>2, AutoRow, AutoPut
  <2>4. c \in Rights(c)
    BY <2>2, <2>3, RightsOf DEF Has
  <2>5. Rights(c) \subseteq {c}
    BY <2>2, <2>4 DEF OneRightPerGrant
  <2>6. \A t \in Token : committed'[t] = committed[t]
    BY <2>2, <2>3, KeysDisjoint DEF Key
  <2>7. ASSUME NEW i \in Code \ {c}, NEW x, Has(x, i)' PROVE Has(x, i)
    <3>1. committed'[i] = committed[i]
      BY <2>3 DEF Key
    <3>2. \A q \in Req : Carries(q, i)' => Carries(q, i)
      BY <1>1, <2>1 DEF Carries, Others
    <3> QED BY <2>6, <2>7, <3>1, <3>2 DEF Has
  <2>8. ASSUME NEW i \in Code, i = c, NEW x, Has(x, i)' PROVE x = r \/ (Has(x, i) /\ x # c)
    <3>1. \A q \in Req \ {r} : Carries(q, i)' => Carries(q, i)
      BY <1>1 DEF Carries, Others
    <3> QED BY <2>2, <2>3, <2>6, <2>8, <3>1, KeysDisjoint DEF Has
  <2> HIDE DEF c
  <2>9. PICK k \in Code : k = c
    BY <2>2
  <2>10. Rights(k)' \subseteq {r} \cup (Rights(k) \ {k})
    BY <2>8, <2>9, RightsOf
  <2>11. \A i \in Code \ {k} : Rights(i)' \subseteq Rights(i)
    BY <2>7, <2>9, RightsOf
  <2>12. Rights(k) \subseteq {k}
    BY <2>5, <2>9
  <2> QED BY <2>10, <2>11, <2>12, HandedOn
<1> QED BY <1>2, <1>3

\* The token a request stores takes the place of the right it carried.
LEMMA BornRights ==
  ASSUME AutoCommit, Typed, OneRightPerGrant, NEW r \in Req, Others(r), pc'[r] = "reply",
         NEW t \in Token, NEW row \in Rows(t), Put(r, t, row),
         NEW k \in Code, Carries(r, k), row.code = k
  PROVE  OneRightPerGrant'
<1>1. t \in Key /\ committed'[t] = row /\ \A i \in Key \ {t} : committed'[i] = committed[i]
  BY AutoPut DEF Key
<1>2. \A i \in Code : committed'[i] = committed[i]
  BY <1>1, KeysDisjoint DEF Key
<1>3. \A q \in Req, i \in Code : Carries(q, i)' => q # r /\ Carries(q, i)
  BY DEF Carries, Others
<1>4. ASSUME NEW i \in Code, NEW x, Has(x, i)'
      PROVE  (x = t /\ i = k) \/ (x # r /\ Has(x, i))
  BY <1>1, <1>2, <1>3, <1>4, KeysDisjoint DEF Has, Key
<1>5. Rights(k) \subseteq {r}
  BY RightsOf DEF OneRightPerGrant, Has
<1> QED BY <1>4, <1>5, RightsOf, HandedOn

LEMMA MintRights ==
  ASSUME AutoCommit, Typed, OneRightPerGrant, NEW r \in Req, Mint(r)
  PROVE  OneRightPerGrant'
<1>1. PICK t \in Token : MintFacts(r, t)
  BY MintMoves
<1> DEFINE row == NewToken(job[r].grant, job[r].key, None, Now(r))
<1>2. Others(r) /\ pc[r] = "mint" /\ job[r].grant \in Grant /\ job[r].key \in Code
  BY MintMoves, JobTyped DEF Mint, Fits
<1>3. row \in TokenRow /\ row.code = job[r].key
  BY <1>2, BornRow
<1>4. Put(r, t, row)
  BY <1>1 DEF MintFacts, CreateRefreshToken
<1> HIDE DEF row
<1>5. row \in Rows(t)
  BY <1>3, KeyKinds DEF Key
<1>6. Carries(r, job[r].key)
  BY <1>2 DEF Carries
<1>7. PICK k \in Code : k = job[r].key
  BY <1>2
<1> QED BY <1>1, <1>2, <1>3, <1>4, <1>5, <1>6, <1>7, BornRights DEF MintFacts

LEMMA ChainRights ==
  ASSUME AutoCommit, Typed, OneRightPerGrant, NEW r \in Req, Chain(r)
  PROVE  OneRightPerGrant'
<1> DEFINE row == NewToken(job[r].grant, job[r].code, job[r].key, Now(r))
<1>1. /\ Others(r) /\ pc[r] = "chain" /\ pc'[r] = "reply" /\ Put(r, job[r].new, row)
      /\ job[r].grant \in Grant /\ job[r].code \in Code /\ job[r].key \in Token
      /\ job[r].new \in Token
  BY ChainMoves, JobTyped DEF Chain, Fits
<1>2. row \in TokenRow /\ row.code = job[r].code
  BY <1>1, BornRow
<1> HIDE DEF row
<1>3. PICK t \in Token, k \in Code : t = job[r].new /\ k = job[r].code
  BY <1>1
<1>4. row \in Rows(t) /\ Carries(r, k)
  BY <1>1, <1>2, <1>3, KeyKinds DEF Key, Carries
<1> QED BY <1>1, <1>2, <1>3, <1>4, BornRights

\* The live token a rotation retires becomes a right its request carries.
LEMMA RetireRights ==
  ASSUME AutoCommit, Typed, OnlyDeletes, OneRightPerGrant, NEW r \in Req, Retire(r)
  PROVE  OneRightPerGrant'
<1>1. Others(r) /\ pc[r] = "retire"
  BY RetireMoves DEF Retire
<1>2. CASE Lapse(r)
  BY <1>1, <1>2, QuietRead, QuietRights DEF Lapse, NoRow
<1>3. ASSUME NEW n \in Token, RetireFacts(r, n) PROVE OneRightPerGrant'
  <2>1. PICK t \in Token : t = job[r].key
    BY JobTyped DEF Retire, Fits
  <2> DEFINE row == [Row(r, t) EXCEPT !.revoked = TRUE, !.next = n]
  <2>2. t \in Key /\ Live(Row(r, t)) /\ Row(r, t) # Absent
    BY <1>3, <2>1 DEF RetireFacts, Live, Key
  <2>3. committed[t] = Row(r, t)
    BY <2>2, AutoRow
  <2>4. row \in Rows(t) /\ ~Live(row)
    BY <2>2, RetiredRow
  <2>5. Put(r, t, row)
    BY <1>3, <2>1 DEF RetireFacts, RetireToken
  <2> HIDE DEF row
  <2>6. ~Live(committed'[t]) /\ \A i \in Key \ {t} : committed'[i] = committed[i]
    BY <2>2, <2>4, <2>5, AutoPut
  <2>7. committed[t].code \in Code
    BY <2>2, <2>3, RowTyped, KeyKinds DEF TokenRow
  <2>8. PICK k \in Code : k = committed[t].code
    BY <2>7
  <2>9. Rights(k) \subseteq {t}
    BY <2>2, <2>3, <2>8, RightsOf DEF OneRightPerGrant, Has
  <2>10. pc'[r] = "chain" /\ job'[r].code = k
    BY <1>3, <2>1, <2>3, <2>8 DEF RetireFacts
  <2>11. \A q \in Req, i \in Code : Carries(q, i)' => (q = r /\ i = k) \/ Carries(q, i)
    BY <1>1, <2>10 DEF Carries, Others
  <2>12. \A i \in Code : committed'[i] = committed[i]
    BY <2>6, KeysDisjoint DEF Key
  <2>13. ASSUME NEW i \in Code, NEW x, Has(x, i)'
         PROVE  (x = r /\ i = k) \/ (x # t /\ Has(x, i))
    BY <2>6, <2>11, <2>12, <2>13, KeysDisjoint DEF Has, Key
  <2> QED BY <2>9, <2>13, RightsOf, HandedOn
<1> QED BY <1>2, <1>3, RetireMoves

\* Statement by statement a commit only deletes.
LEMMA FinishRights ==
  ASSUME AutoCommit, Typed, OnlyDeletes, OneRightPerGrant, NEW r \in Req, Finish(r)
  PROVE  OneRightPerGrant'
<1>1. Others(r) /\ pc'[r] = "idle"
  BY EndMoves
<1>2. \A k \in Key : committed'[k] \in {committed[k], Absent}
  BY CommitFacts DEF OnlyDeletes
<1>3. ASSUME NEW c \in Code, NEW x, Has(x, c)' PROVE Has(x, c)
  <2>1. \A q \in Req : Carries(q, c)' => Carries(q, c)
    BY <1>1 DEF Carries, Others
  <2> QED BY <1>2, <1>3, <2>1 DEF Has, Key, Live
<1> QED BY <1>3, SubsetRights

LEMMA NextRights ==
  ASSUME IInv, [Next]_vars
  PROVE  OneRightPerGrant'
<1>0. Typed /\ Names /\ Paid /\ OnlyDeletes /\ OneRightPerGrant
  BY DEF IInv
<1>1. ASSUME NEW r \in Req, QuietStep(r) PROVE OneRightPerGrant'
  BY <1>0, <1>1, QuietMoves, QuietSteps, QuietRights, SameRights DEF Quiet
<1>2. ASSUME NEW r \in Req, Consume(r) \/ Retire(r) PROVE OneRightPerGrant'
  <2>1. ~AutoCommit => committed' = committed
    <3>1. CASE Consume(r)
      BY <1>0, <3>1, ConsumeQuiet DEF Quiet
    <3>2. CASE Retire(r)
      <4>1. NoRow \/ \E k, row : Put(r, k, row)
        BY <3>2 DEF Retire, RetireToken
      <4> QED BY <4>1 DEF NoRow, Put, Write
    <3> QED BY <1>2, <3>1, <3>2
  <2> QED BY <1>0, <1>2, <2>1, ConsumeRights, RetireRights, SameRights
<1>3. ASSUME NEW r \in Req, Issue(r) \/ Mint(r) \/ Chain(r) PROVE OneRightPerGrant'
  <2>1. \E k, row : Put(r, k, row)
    BY <1>3 DEF Issue, CreateCode, Mint, CreateRefreshToken, Chain, ChainToken
  <2>2. ~AutoCommit => committed' = committed
    BY <2>1 DEF Put, Write
  <2> QED BY <1>0, <1>3, <2>2, IssueRights, MintRights, ChainRights, SameRights
<1>4. ASSUME NEW r \in Req, Finish(r) PROVE OneRightPerGrant'
  BY <1>0, <1>4, FinishRights, CommitRights
<1>5. ASSUME NEW r \in Req, Fail(r) PROVE OneRightPerGrant'
  <2>1. Others(r) /\ pc'[r] = "idle"
    BY <1>0, <1>5, EndMoves
  <2> QED BY <1>0, <1>5, <2>1, FailQuiet, QuietRights, SameRights DEF Quiet
<1>6. ASSUME NEW r \in Req, NEW op \in AllOps, Begin(r, op) PROVE OneRightPerGrant'
  <2>1. Quiet(r) /\ committed' = committed
    BY <1>6, QuietRead DEF Begin
  <2> QED BY <1>0, <1>6, <2>1, BeginMoves, QuietRights, SameRights
<1>7. CASE Tick \/ Install \/ UNCHANGED vars
  <2>1. UNCHANGED <<committed, pc, job>>
    BY <1>7 DEF Tick, Install, vars
  <2> QED BY <1>0, <2>1, SubsetRights DEF Has, Carries
<1> QED BY <1>1, <1>2, <1>3, <1>4, <1>5, <1>6, <1>7 DEF Next, Step, QuietStep

-----------------------------------------------------------------------------
LEMMA InitIInv == Init => IInv
<1> SUFFICES ASSUME Init PROVE IInv
  OBVIOUS
<1>1. Typed
  BY InitTyped
<1>2. \A r \in Req, k \in Key : dirty[r][k] = Untouched
  BY DEF Init, PgInit, NoWrites
<1>3. \A c \in Code \cup Token : c \in Key /\ committed[c] = Absent
  BY KeysDisjoint, Limits DEF Init, PgInit, Key
<1>4. \A r \in Req : pc[r] = "idle" /\ job[r].new = None /\ job[r].key = None
  BY DEF Init, NoJob
<1>5. Delivered = {}
  BY DEF Init, Delivered
<1>6. RowLocks /\ OnlyDeletes
  BY <1>2 DEF RowLocks, OnlyDeletes
<1>7. Names
  BY <1>2, <1>3, <1>4, <1>5 DEF Names, NewIsSecret, SentBeforeUse, Key
<1>8. Paid
  BY <1>2, <1>3, <1>4 DEF Paid, PaidBy, Fruitful
<1>9. OneRightPerGrant
  BY <1>3, <1>4, RightsOf DEF OneRightPerGrant, Has, Live, Carries
<1> QED BY <1>1, <1>6, <1>7, <1>8, <1>9 DEF IInv

LEMMA NextIInv == IInv /\ [Next]_vars => IInv'
BY NextTyped, NextLocks, NextNames, NextPaid, NextRights DEF IInv

\* An authorization code is one right that is handed on, whatever requests run at the
\* same time, fail half way or wait for each other: it is the code, or one live refresh
\* token, or a request about to store one (consume_code, rotate_refresh_token).
THEOREM OneRight == Spec => []OneRightPerGrant
<1>1. IInv => OneRightPerGrant
  BY DEF IInv
<1> QED BY <1>1, InitIInv, NextIInv, PTL DEF Spec
=============================================================================
