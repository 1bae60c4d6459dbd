--------------------------- MODULE SuccessionProofs ---------------------------
(***************************************************************************)
(* What was used up stays used up, and is answered with one successor; the *)
(* line of tokens that stems from one code is linked at both ends of every *)
(* rotation and never more than what was approved: the proofs of           *)
(* SpentStaysSpent, OneSuccessor, ChainsLinked and WithinApproved.         *)
(*                                                                         *)
(* A code or token that a client was sent is brought to life by no step,   *)
(* because what a step stores is an identifier only its request knows.  So *)
(* the request that used it up, which Took it, is the only one for good.   *)
(*                                                                         *)
(* A token row is stored once.  Later only its deletion or the end of its  *)
(* life follows, which keep its grant, code, origin and expiry: the row is *)
(* Later.  That is so for the committed rows and for what each transaction *)
(* sees.                                                                   *)
(***************************************************************************)
EXTENDS OneRightProofs

Ticket == Code \cup Token

\* The row of ticket k is not good any more.
Gone(k, row) == IF k \in Code THEN row = Absent ELSE ~Live(row)

LEMMA SpentStep ==
  ASSUME IInv, [Next]_vars, NEW k \in Ticket \cap Delivered, Gone(k, committed[k])
  PROVE  Gone(k, committed'[k])
<1>0. /\ Typed /\ Names /\ Paid /\ StoreOK
      /\ k \in Key /\ (k \in Code => k \notin Token) /\ k \in generated
  BY KeysDisjoint DEF IInv, Typed, TypeOK, Key, Ticket, Names, SentBeforeUse
<1>1. ASSUME NEW r \in Req, Quiet(r) PROVE Gone(k, committed'[k])
  BY <1>0, <1>1 DEF Quiet, Gone, Ticket
<1>2. ASSUME NEW r \in Req, NEW x \in Ticket, NEW row \in Rows(x), Put(r, x, row), x # k
      PROVE  Gone(k, committed'[k])
  <2>1. x \in Key
    BY DEF Key, Ticket
  <2>2. committed'[k] = committed[k]
    BY <1>0, <1>2, <2>1, PutFacts
  <2> QED BY <2>2 DEF Gone
<1>3. ASSUME NEW r \in Req, Issue(r) PROVE Gone(k, committed'[k])
  <2>1. PICK c \in Code : IssueFacts(r, c)
    BY <1>0, <1>3, IssueMoves
  <2> DEFINE row == [grant |-> job[r].grant, expires |-> Now(r) + CodeTTL]
  <2>2. job[r].grant \in Grant
    BY <1>0, <1>3, JobTyped DEF Issue, Fits
  <2>3. row \in CodeRow
    BY <1>0, <2>2, JobTyped, Limits DEF CodeRow
  <2>4. row \in Rows(c) /\ c \in Ticket /\ c # k
    BY <1>0, <2>1, <2>3, KeyKinds DEF Ticket, Key, IssueFacts
  <2>5. Put(r, c, row)
    BY <2>1 DEF IssueFacts, CreateCode
  <2> HIDE DEF row
  <2> QED BY <1>2, <2>4, <2>5
<1>4. ASSUME NEW r \in Req, Mint(r) PROVE Gone(k, committed'[k])
  <2>1. PICK t \in Token : MintFacts(r, t)
    BY <1>0, <1>4, MintMoves
  <2>2. job[r].grant \in Grant /\ job[r].key \in Code
    BY <1>0, <1>4, JobTyped DEF Mint, Fits
  <2> DEFINE row == NewToken(job[r].grant, job[r].key, None, Now(r))
  <2>3. row \in TokenRow
    BY <1>0, <2>2, BornRow
  <2>4. Put(r, t, row)
    BY <2>1 DEF MintFacts, CreateRefreshToken
  <2> HIDE DEF row
  <2>5. row \in Rows(t) /\ t \in Ticket /\ t # k
    BY <1>0, <2>1, <2>3, KeyKinds DEF Ticket, Key, MintFacts
  <2> QED BY <1>2, <2>4, <2>5
<1>5. ASSUME NEW r \in Req, Chain(r) PROVE Gone(k, committed'[k])
  <2>1. /\ job[r].grant \in Grant /\ job[r].key \in Token
        /\ job[r].code \in Code /\ job[r].new \in Token
    BY <1>0, <1>5, JobTyped DEF Chain, Fits
  <2> DEFINE row == NewToken(job[r].grant, job[r].code, job[r].key, Now(r))
             n == job[r].new
  <2>2. row \in TokenRow
    BY <1>0, <2>1, BornRow
  <2>3. Put(r, n, row)
    BY <1>0, <1>5, ChainMoves
  <2> HIDE DEF row
  <2>4. n # None
    BY <2>1, StoreConstants
  <2>5. n # k
    BY <1>0, <2>4 DEF Names, NewIsSecret
  <2>6. row \in Rows(n) /\ n \in Ticket
    BY <2>1, <2>2, KeyKinds DEF Ticket, Key
  <2> QED BY <1>2, <2>3, <2>5, <2>6
<1>6. ASSUME NEW r \in Req, Retire(r) PROVE Gone(k, committed'[k])
  <2>1. job[r].key \in Token
    BY <1>0, <1>6, JobTyped DEF Retire, Fits
  <2> QED BY <1>0, <1>1, <1>6, <2>1, RetireMoves, RetireQuiet, QuietRead DEF Lapse, NoRow
<1>7. ASSUME NEW r \in Req, Finish(r) PROVE Gone(k, committed'[k])
  <2>1. committed'[k] = IF dirty[r][k] = Untouched THEN committed[k] ELSE dirty[r][k]
    BY <1>0, <1>7, CommitFacts
  <2>2. k # None
    BY StoreConstants DEF Ticket
  <2>3. job[r].new # k
    BY <1>0, <2>2 DEF Names, NewIsSecret
  <2>4. k \in Code => dirty[r][k] \in {Absent, Untouched}
    BY <1>0, <2>3 DEF Paid, PaidBy
  <2>5. k \in Token => ~Fruitful(dirty[r][k])
    BY <1>0, <2>3 DEF Paid, PaidBy
  <2> QED BY <2>1, <2>4, <2>5 DEF Gone, Fruitful, Ticket
<1>8. ASSUME NEW r \in Req, QuietStep(r) \/ Consume(r) \/ Fail(r) PROVE Gone(k, committed'[k])
  BY <1>0, <1>1, <1>8, QuietSteps, ConsumeQuiet, FailQuiet
<1>9. CASE UNCHANGED committed
  BY <1>9 DEF Gone
<1> QED
  BY <1>3, <1>4, <1>5, <1>6, <1>7, <1>8, <1>9
     DEF Next, Step, QuietStep, Begin, Tick, Install, vars

\* A code or token the server handed out is never valid again once its row was deleted or
\* revoked, whatever stale rows the statements of concurrent requests started from.
THEOREM SpentForGood == Spec => SpentStaysSpent
<1> DEFINE Kept == /\ \A c \in Code \cap Delivered : committed[c] = Absent => committed'[c] = Absent
                   /\ \A t \in Token \cap Delivered : ~Live(committed[t]) => ~Live(committed'[t])
<1>1. IInv /\ [Next]_vars => [Kept]_vars
  BY SpentStep, KeysDisjoint DEF Gone, Ticket
<1>2. IInv /\ [Next]_vars => IInv'
  BY NextIInv
<1>3. Init => IInv
  BY InitIInv
<1> QED BY <1>1, <1>2, <1>3, PTL DEF Spec, SpentStaysSpent

-----------------------------------------------------------------------------
(* One successor. *)

Uses == {"exchange", "rotate"}

\* Request r has used ticket k up and has not been answered yet.
Took(r, k) ==
  /\ job[r].key = k
  /\ \/ pc[r] \in {"mint", "chain"}
     \/ pc[r] = "reply" /\ job[r].new # None /\ job[r].op \in Uses

\* A response has been sent for ticket k.
Traded(k) == \E a \in answers : a.from = k /\ a.op \in Uses

\* What a request has used up is gone, for everybody or at its commit.
TakenIsGone ==
  \A r \in Req, k \in Ticket : Took(r, k) =>
    IF AutoCommit THEN Gone(k, committed[k])
                  ELSE dirty[r][k] # Untouched /\ Gone(k, dirty[r][k])

OneTaker ==
  \A r \in Req, k \in Ticket : Took(r, k) =>
    ~Traded(k) /\ \A q \in Req : Took(q, k) => q = r

TradedIsGone == \A k \in Ticket : Traded(k) => k \in Delivered /\ Gone(k, committed[k])

\* Which endpoint a handler at these statements belongs to, what it was presented and when
\* it has something to send.
Proper(label, j) ==
  /\ label \in {"authorize", "consent", "approve", "issue"} => j.op = "authorize"
  /\ label \in {"consume", "mint"} => j.op = "exchange"
  /\ label \in {"rotate", "retire", "chain"} => j.op = "rotate"
  /\ j.op = "authorize" => j.key = None
  /\ j.new # None => label \in {"chain", "reply"} /\ j.op \in Uses \cup {"authorize"}

Handing ==
  /\ \A r \in Req : Proper(pc[r], job[r])
  /\ \A r \in Req : \A k : Took(r, k) => k \in Ticket
  /\ \A k : Traded(k) => k \in Ticket
  /\ \A a \in answers : a.op \in Uses \/ a.from = None

UseInv == TakenIsGone /\ OneTaker /\ TradedIsGone /\ Handing /\ OneSuccessor

Still(r) == Others(r) /\ answers' = answers

LEMMA SentTicket ==
  ASSUME IInv, NEW r \in Req, NEW k \in Ticket, job[r].key = k
  PROVE  k \in Delivered /\ k \in Key /\ (k \in Code => k \notin Token)
BY StoreConstants, KeysDisjoint DEF IInv, Names, SentBeforeUse, Ticket, Key

\* A step by which r uses nothing up and gives back nothing it took.
LEMMA StillUse ==
  ASSUME IInv, UseInv, [Next]_vars, NEW r \in Req, Still(r),
         \A q \in Req \ {r} : dirty'[q] = dirty[q],
         Proper(pc'[r], job'[r]),
         \A k : Took(r, k)' => Took(r, k),
         ~AutoCommit => \A k \in Ticket : Took(r, k)' => dirty'[r][k] = dirty[r][k]
  PROVE  UseInv'
<1>1. \A k : Traded(k)' <=> Traded(k)
  BY DEF Traded, Still
<1>2. \A q \in Req : \A k : Took(q, k)' => Took(q, k)
  <2> SUFFICES ASSUME NEW q \in Req, NEW k, Took(q, k)' PROVE Took(q, k)
    OBVIOUS
  <2>1. CASE q = r
    BY <2>1
  <2>2. CASE q # r
    BY <2>2 DEF Still, Others, Took
  <2> QED BY <2>1, <2>2
<1>3. Delivered' = Delivered
  BY DEF Delivered, Still
<1>4. TradedIsGone'
  BY <1>1, <1>3, SpentStep DEF UseInv, TradedIsGone, Gone
<1>5. OneTaker'
  BY <1>1, <1>2 DEF UseInv, OneTaker
<1>6. TakenIsGone'
  <2> SUFFICES ASSUME NEW q \in Req, NEW k \in Ticket, Took(q, k)'
               PROVE  IF AutoCommit THEN Gone(k, committed'[k])
                      ELSE dirty'[q][k] # Untouched /\ Gone(k, dirty'[q][k])
    BY DEF TakenIsGone, Gone
  <2>1. Took(q, k) /\ k \in Delivered
    BY <1>2, SentTicket DEF Took
  <2>2. CASE AutoCommit
    BY <2>1, <2>2, SpentStep DEF UseInv, TakenIsGone
  <2>3. CASE ~AutoCommit
    <3>1. dirty'[q][k] = dirty[q][k]
      BY <2>3
    <3> QED BY <2>1, <2>3, <3>1 DEF UseInv, TakenIsGone
  <2> QED BY <2>2, <2>3
<1>7. Handing'
  BY <1>1, <1>2 DEF UseInv, Handing, Still, Others
<1>8. OneSuccessor'
  BY DEF UseInv, OneSuccessor, Still
<1> QED BY <1>4, <1>5, <1>6, <1>7, <1>8 DEF UseInv

\* r uses ticket k up, which it read as good.
LEMMA TakeUse ==
  ASSUME IInv, UseInv, [Next]_vars, NEW r \in Req, NEW k \in Ticket, Still(r),
         job[r].key = k, job'[r].key = k, pc[r] \notin {"mint", "chain", "reply"},
         Proper(pc'[r], job'[r]),
         ~Gone(k, Row(r, k)),
         NEW row \in Rows(k), Put(r, k, row), Gone(k, row)
  PROVE  UseInv'
<1>0. StoreOK /\ Paid /\ OnlyDeletes
  BY DEF IInv, Typed, TypeOK
<1>1. k \in Delivered /\ k \in Key /\ (k \in Code => k \notin Token)
  BY SentTicket
<1>2. \A x : Traded(x)' <=> Traded(x)
  BY DEF Traded, Still
<1>3. Delivered' = Delivered
  BY DEF Delivered, Still
<1>4. \A q \in Req \ {r} : \A x : Took(q, x)' <=> Took(q, x)
  BY DEF Still, Others, Took
<1>5. \A x : Took(r, x)' => x = k
  BY DEF Took
<1>6. dirty[r][k] = Untouched \/ Gone(k, dirty[r][k])
  BY <1>0 DEF Paid, PaidBy, Gone, Fruitful, Ticket
<1>7. ~Gone(k, committed[k])
  BY <1>6 DEF Row
<1>8. \A q \in Req \ {r} : dirty[q][k] = Untouched /\ dirty'[q] = dirty[q]
  BY <1>0, <1>1, PutFacts
<1>9. ~Traded(k) /\ \A q \in Req \ {r} : ~Took(q, k)
  BY <1>7, <1>8 DEF UseInv, TradedIsGone, TakenIsGone
<1>10. TradedIsGone'
  BY <1>2, <1>3, SpentStep DEF UseInv, TradedIsGone, Gone
<1>11. OneTaker'
  BY <1>2, <1>4, <1>5, <1>9 DEF UseInv, OneTaker
<1>12. TakenIsGone'
  <2> SUFFICES ASSUME NEW q \in Req, NEW x \in Ticket, Took(q, x)'
               PROVE  IF AutoCommit THEN Gone(x, committed'[x])
                      ELSE dirty'[q][x] # Untouched /\ Gone(x, dirty'[q][x])
    BY DEF TakenIsGone, Gone
  <2>1. CASE q = r
    <3>1. x = k /\ row # Untouched
      BY <1>1, <1>5, <2>1, KeyKinds
    <3> QED BY <1>0, <1>1, <2>1, <3>1, PutFacts
  <2>2. CASE q # r
    <3>1. Took(q, x) /\ x \in Delivered
      BY <1>4, <2>2, SentTicket DEF Took
    <3>2. CASE AutoCommit
      BY <3>1, <3>2, SpentStep DEF UseInv, TakenIsGone
    <3>3. CASE ~AutoCommit
      BY <1>8, <2>2, <3>1, <3>3 DEF UseInv, TakenIsGone
    <3> QED BY <3>2, <3>3
  <2> QED BY <2>1, <2>2
<1>13. Handing'
  BY <1>2, <1>4, <1>5 DEF UseInv, Handing, Still, Others
<1>14. OneSuccessor'
  BY DEF UseInv, OneSuccessor, Still
<1> QED BY <1>10, <1>11, <1>12, <1>13, <1>14 DEF UseInv

\* The answer to r is sent.
LEMMA FinishUse ==
  ASSUME IInv, UseInv, [Next]_vars, NEW r \in Req, Finish(r)
  PROVE  UseInv'
<1> DEFINE a == [op |-> job[r].op, from |-> job[r].key, new |-> job[r].new]
<1>0. Typed /\ OnlyDeletes /\ pc[r] = "reply"
  BY DEF IInv, Finish
<1>1. Others(r) /\ pc'[r] = "idle" /\ job'[r].new = None
  BY <1>0, EndMoves
<1>2. \A q \in Req : \A x : Took(q, x)' => q # r /\ Took(q, x)
  BY <1>1 DEF Others, Took
<1>3. Delivered \subseteq Delivered'
  BY <1>0, FinishAnswers
<1>4. a.op = job[r].op /\ a.from = job[r].key /\ a.new = job[r].new
  OBVIOUS
<1>5. answers' = IF job[r].new = None THEN answers ELSE answers \cup {a}
  BY DEF Finish
<1> HIDE DEF a
<1>6. \A x : Traded(x)' => Traded(x) \/ Took(r, x)
  BY <1>0, <1>4, <1>5 DEF Traded, Took
<1>7. OneTaker'
  BY <1>2, <1>6 DEF UseInv, OneTaker
<1>8. ASSUME NEW x \in Ticket, Traded(x)' PROVE x \in Delivered' /\ Gone(x, committed'[x])
  <2>1. CASE Traded(x)
    BY <1>3, <2>1, SpentStep DEF UseInv, TradedIsGone
  <2>2. CASE Took(r, x)
    <3>1. x \in Delivered /\ x \in Key
      BY <2>2, SentTicket DEF Took
    <3>2. committed'[x] = IF dirty[r][x] = Untouched THEN committed[x] ELSE dirty[r][x]
      BY <1>0, <3>1, CommitFacts
    <3>3. AutoCommit => dirty[r][x] \in {Absent, Untouched}
      BY <1>0, <3>1 DEF OnlyDeletes
    <3>4. Gone(x, committed'[x])
      BY <2>2, <3>2, <3>3 DEF UseInv, TakenIsGone, Gone, Live
    <3> QED BY <1>3, <3>1, <3>4
  <2> QED BY <1>6, <1>8, <2>1, <2>2
<1>9. TakenIsGone'
  <2> SUFFICES ASSUME NEW q \in Req, NEW x \in Ticket, Took(q, x)'
               PROVE  IF AutoCommit THEN Gone(x, committed'[x])
                      ELSE dirty'[q][x] # Untouched /\ Gone(x, dirty'[q][x])
    BY DEF TakenIsGone, Gone
  <2>1. q # r /\ Took(q, x) /\ x \in Delivered
    BY <1>2, SentTicket DEF Took
  <2>2. dirty'[q] = dirty[q]
    BY <1>0, <2>1, CommitFacts
  <2> QED BY <2>1, <2>2, SpentStep DEF UseInv, TakenIsGone
<1>10. Handing'
  <2>1. \A q \in Req : Proper(pc'[q], job'[q])
    <3>1. NoJob.op = "none" /\ NoJob.new = None
      BY DEF NoJob
    <3> HIDE DEF NoJob
    <3>2. job'[r].op = "none" /\ Proper(pc'[r], job'[r])
      BY <1>0, <1>1, <3>1, KeepMoves DEF Finish, Proper
    <3> QED BY <1>1, <3>2 DEF UseInv, Handing, Others
  <2>2. job[r].new # None => job[r].op \in Uses \/ job[r].key = None
    BY DEF UseInv, Handing, Proper
  <2> QED BY <1>2, <1>4, <1>5, <1>6, <2>1, <2>2 DEF UseInv, Handing
<1>11. OneSuccessor'
  <2> SUFFICES ASSUME NEW b \in answers', NEW d \in answers', b.from = d.from, b.op \in Uses
               PROVE  b.new = d.new
    BY DEF OneSuccessor, Uses
  <2>0. d.op \in Uses
    <3>1. Traded(b.from)'
      BY DEF Traded
    <3>2. d.from # None
      BY <1>10, <3>1, StoreConstants DEF Handing, Ticket
    <3> QED BY <1>10, <3>2 DEF Handing
  <2>1. CASE b \in answers /\ d \in answers
    BY <2>1 DEF UseInv, OneSuccessor, Uses
  <2>2. CASE answers' # answers /\ (b = a \/ d = a)
    <3> DEFINE x == job[r].key
    <3>1. job[r].new # None /\ a.op \in Uses /\ x = a.from
      BY <1>4, <1>5, <2>0, <2>2
    <3>2. Took(r, x)
      BY <1>0, <1>4, <3>1 DEF Took
    <3>3. ~Traded(x)
      BY <3>2 DEF UseInv, OneTaker, Handing
    <3>4. b = a /\ d = a
      BY <1>5, <2>0, <2>2, <3>1, <3>3 DEF Traded
    <3> QED BY <3>4
  <2> QED BY <1>5, <2>1, <2>2
<1> QED BY <1>7, <1>8, <1>9, <1>10, <1>11 DEF UseInv, TradedIsGone, Gone

\* What a handler keeps of its local variables when it sets others.
Keeps(r) ==
  job'[r].op = job[r].op /\ job'[r].new = job[r].new /\ job'[r].key = job[r].key

LEMMA SetOne ==
  ASSUME Typed, NEW r \in Req, NEW x,
         \/ Keep(r, [job[r] EXCEPT !.grant = x])
         \/ Keep(r, [job[r] EXCEPT !.hit = x])
         \/ Keep(r, [job[r] EXCEPT !.decision = x])
         \/ Keep(r, [job[r] EXCEPT !.code = x])
  PROVE  Keeps(r)
<1> DEFINE Same(j) == j.op = job[r].op /\ j.new = job[r].new /\ j.key = job[r].key
<1>1. /\ Same([job[r] EXCEPT !.grant = x]) /\ Same([job[r] EXCEPT !.hit = x])
      /\ Same([job[r] EXCEPT !.decision = x]) /\ Same([job[r] EXCEPT !.code = x])
  BY JobTyped DEF Job
<1>2. \A j : Keep(r, j) /\ Same(j) => Keeps(r)
  BY KeepMoves DEF Keeps
<1> HIDE DEF Same
<1> QED BY <1>1, <1>2

LEMMA SetTwo ==
  ASSUME Typed, NEW r \in Req, NEW x, NEW y,
         \/ Keep(r, [job[r] EXCEPT !.grant = x, !.code = y])
         \/ Keep(r, [job[r] EXCEPT !.hit = x, !.table = y])
  PROVE  Keeps(r)
<1> DEFINE Same(j) == j.op = job[r].op /\ j.new = job[r].new /\ j.key = job[r].key
<1>1. Same([job[r] EXCEPT !.grant = x, !.code = y]) /\ Same([job[r] EXCEPT !.hit = x, !.table = y])
  BY JobTyped DEF Job
<1>2. \A j : Keep(r, j) /\ Same(j) => Keeps(r)
  BY KeepMoves DEF Keeps
<1> HIDE DEF Same
<1> QED BY <1>1, <1>2

LEMMA RefusedJob ==
  ASSUME Typed, NEW r \in Req, Refuse(r)
  PROVE  pc'[r] = "reply" /\ job'[r].op = job[r].op /\ job'[r].new = None /\ job'[r].key = None
<1> DEFINE j == [NoJob EXCEPT !.op = job[r].op]
<1>1. j.op = job[r].op /\ j.new = None /\ j.key = None
  BY DEF NoJob
<1> HIDE DEF j
<1>2. Goto(r, "reply") /\ Keep(r, j)
  BY DEF Refuse, j
<1> QED BY <1>1, <1>2, GotoMoves, KeepMoves

LEMMA QuietKeeps ==
  ASSUME Typed, NEW r \in Req, QuietStep(r)
  PROVE  Keeps(r) \/ Refuse(r)
<1>1. CASE job' = job
  BY <1>1 DEF Keeps
<1>2. CASE Authorize(r) \/ Decide(r) \/ Exchange(r) \/ Rotate(r) \/ Consents(r)
  <2>1. \/ Refuse(r) \/ job' = job
        \/ \E x : Keep(r, [job[r] EXCEPT !.grant = x]) \/ Keep(r, [job[r] EXCEPT !.decision = x])
    BY <1>2 DEF Authorize, Decide, Exchange, Rotate, Consents
  <2> QED BY <1>1, <2>1, SetOne
<1>3. CASE Revoke(r)
  <2>1. Refuse(r) \/ \E x, y : Keep(r, [job[r] EXCEPT !.grant = x, !.code = y])
    BY <1>3 DEF Revoke
  <2> QED BY <2>1, SetTwo
<1>4. CASE Replayed(r) \/ Family(r) \/ Sessions(r)
  <2>1. \E x : Keep(r, [job[r] EXCEPT !.hit = x])
    BY <1>4 DEF Replayed, Family, Sessions
  <2> QED BY <2>1, SetOne
<1>5. CASE Select(r)
  <2>1. \E x, y : Keep(r, [job[r] EXCEPT !.hit = x, !.table = y])
    BY <1>5 DEF Select
  <2> QED BY <2>1, SetTwo
<1> QED
  BY <1>1, <1>2, <1>3, <1>4, <1>5
     DEF QuietStep, Register, Approve, Revoking, Forget, Withdraw, Purge

LEMMA QuietProper ==
  ASSUME Typed, NEW r \in Req, QuietStep(r), Proper(pc[r], job[r])
  PROVE  job'[r].new = None /\ Proper(pc'[r], job'[r])
<1>1. job[r].new = None
  BY DEF Proper, QuietStep, Register, Authorize, Decide, Approve, Exchange, Replayed, Rotate,
         Revoke, Family, Revoking, Forget, Consents, Withdraw, Sessions, Select, Purge
<1>2. CASE Refuse(r)
  BY <1>2, RefusedJob DEF Proper
<1>3. CASE ~Refuse(r)
  <2>1. Keeps(r)
    BY <1>3, QuietKeeps
  <2>2. /\ pc[r] = "exchange" => job[r].op = "exchange"
        /\ pc[r] = "rotate" => job[r].op = "rotate"
        /\ pc[r] \in {"authorize", "consent", "approve"} => job[r].op = "authorize"
    BY JobTyped DEF Proper, Fits
  <2>3. \/ pc[r] = "authorize" /\ Goto(r, "consent")
        \/ pc[r] = "consent" /\ (Goto(r, "issue") \/ Goto(r, "approve"))
        \/ pc[r] = "approve" /\ Goto(r, "issue")
        \/ pc[r] = "exchange" /\ Goto(r, "consume")
        \/ pc[r] = "rotate" /\ Goto(r, "retire")
        \/ \E label \in {"replayed", "family", "withdraw", "revoking", "forget", "reply",
                         "sessions", "purge", "select"} : Goto(r, label)
    BY <1>3 DEF QuietStep, Register, Authorize, Decide, Approve, Exchange, Replayed, Rotate,
                Revoke, Family, Revoking, AfterRevoking, Forget, Consents, Withdraw, Sessions, Select, Purge
  <2>4. Proper(pc'[r], job'[r])
    BY <1>1, <2>1, <2>2, <2>3, GotoMoves DEF Keeps, Proper
  <2> QED BY <1>1, <2>1, <2>4 DEF Keeps
<1> QED BY <1>2, <1>3

LEMMA NextUse ==
  ASSUME IInv, UseInv, [Next]_vars
  PROVE  UseInv'
<1>0. Typed /\ Names /\ StoreOK
  BY DEF IInv, Typed, TypeOK
<1>1. ASSUME NEW r \in Req, QuietStep(r) PROVE UseInv'
  <2>1. answers' = answers
    BY <1>1 DEF QuietStep, Rest, Register, Authorize, Decide, Approve, Exchange, Replayed,
                Rotate, Revoke, Family, Revoking, Forget, Consents, Withdraw, Sessions, Select, Purge
  <2>2. Still(r) /\ pc'[r] \notin {"mint", "chain"} /\ Quiet(r)
    BY <1>0, <1>1, <2>1, QuietMoves, QuietSteps DEF Still
  <2>3. job'[r].new = None /\ Proper(pc'[r], job'[r])
    BY <1>0, <1>1, QuietProper DEF UseInv, Handing
  <2>4. \A k : ~Took(r, k)'
    BY <2>2, <2>3 DEF Took
  <2> QED BY <2>2, <2>3, <2>4, StillUse DEF Quiet
<1>2. ASSUME NEW r \in Req, Consume(r) PROVE UseInv'
  <2> DEFINE c == job[r].key
  <2>1. c \in Code /\ c \in Ticket /\ c \in Key /\ pc[r] = "consume"
    BY <1>0, <1>2, JobTyped DEF Consume, Fits, Ticket, Key
  <2>2. Still(r) /\ job' = job
    BY <1>0, <1>2, ConsumeMoves DEF Still, Consume, Rest
  <2>3. job[r].new = None /\ job[r].op = "exchange"
    BY <2>1 DEF UseInv, Handing, Proper
  <2>4. CASE Lapse(r)
    <3>1. \A k : ~Took(r, k)'
      BY <2>2, <2>3, <2>4 DEF Lapse, Took
    <3> QED BY <2>2, <2>3, <2>4, <3>1, StillUse DEF Lapse, NoRow, Proper
  <2>5. CASE ~Lapse(r)
    <3>1. /\ pc'[r] = "mint" /\ Put(r, c, Absent) /\ Row(r, c) # Absent
      BY <1>0, <1>2, <2>5, ConsumeMoves DEF ConsumeCode
    <3>2. Absent \in Rows(c) /\ Gone(c, Absent) /\ ~Gone(c, Row(r, c))
      BY <2>1, <3>1, KeyKinds DEF Gone
    <3> HIDE DEF c
    <3>3. job[r].key = c /\ job'[r].key = c /\ Proper(pc'[r], job'[r])
      BY <2>2, <2>3, <3>1 DEF c, Proper
    <3> QED BY <2>1, <2>2, <3>1, <3>2, <3>3, TakeUse
  <2> QED BY <2>4, <2>5
<1>3. ASSUME NEW r \in Req, Retire(r) PROVE UseInv'
  <2> DEFINE t == job[r].key
  <2>1. /\ t \in Token /\ t \in Ticket /\ t \in Key /\ t \notin Code /\ pc[r] = "retire"
    BY <1>0, <1>3, JobTyped, KeysDisjoint DEF Retire, Fits, Ticket, Key
  <2>2. Still(r) /\ job[r].op = "rotate" /\ job[r].new = None
    BY <1>0, <1>3, <2>1, RetireMoves DEF Still, Retire, Rest, UseInv, Handing, Proper
  <2>3. CASE NoRow /\ Refuse(r)
    <3>1. (\A k : ~Took(r, k)') /\ Proper(pc'[r], job'[r])
      BY <1>0, <2>2, <2>3, RefusedJob DEF Took, Proper
    <3> QED BY <2>2, <2>3, <3>1, StillUse DEF NoRow
  <2>4. CASE ~(NoRow /\ Refuse(r))
    <3> DEFINE Retired(n) == [Row(r, t) EXCEPT !.revoked = TRUE, !.next = n]
    <3>1. Live(Row(r, t))
      BY <1>3, <2>4 DEF Retire, Rotatable, RefreshValid
    <3>2. PICK n \in Token : /\ Put(r, t, Retired(n)) /\ Goto(r, "chain")
                             /\ Keep(r, [job[r] EXCEPT !.new = n, !.code = Row(r, t).code])
      BY <1>3, <2>4 DEF Retire, FreshTokens, RetireToken
    <3> DEFINE code == Row(r, t).code
               row == Retired(n)
               j == [job[r] EXCEPT !.new = n, !.code = code]
    <3>3. row \in Rows(t) /\ ~Live(row) /\ Put(r, t, row)
      BY <1>0, <2>1, <3>1, <3>2, RetiredRow DEF Live
    <3> HIDE DEF code, row, Retired
    <3>4. j.key = t /\ j.op = "rotate"
      BY <1>0, <2>2, JobTyped DEF Job
    <3> HIDE DEF j
    <3>5. Keep(r, j)
      BY <3>2 DEF j, code
    <3>6. job'[r].key = t /\ Proper(pc'[r], job'[r])
      BY <1>0, <3>2, <3>4, <3>5, GotoMoves, KeepMoves DEF Proper, Uses
    <3>7. Gone(t, row) /\ ~Gone(t, Row(r, t))
      BY <2>1, <3>1, <3>3 DEF Gone
    <3>8. job[r].key = t /\ pc[r] \notin {"mint", "chain", "reply"}
      BY <2>1 DEF t
    <3> HIDE DEF t
    <3> QED BY <2>1, <2>2, <3>3, <3>6, <3>7, <3>8, TakeUse
  <2> QED BY <2>3, <2>4
<1>4. ASSUME NEW r \in Req, NEW x \in Ticket, NEW row \in Rows(x), Put(r, x, row), Still(r),
             x # job[r].key, pc'[r] = "reply", job'[r].key = job[r].key,
             pc[r] \in {"mint", "chain"} \/ job'[r].op \notin Uses, Proper(pc'[r], job'[r])
      PROVE  UseInv'
  <2>1. x \in Key
    BY DEF Ticket, Key
  <2>2. \A k : Took(r, k)' => Took(r, k)
    BY <1>4 DEF Took
  <2>3. \A q \in Req \ {r} : dirty'[q] = dirty[q]
    BY <1>0, <1>4, <2>1, PutFacts
  <2>4. ~AutoCommit => \A k \in Ticket : Took(r, k)' => dirty'[r][k] = dirty[r][k]
    BY <1>0, <1>4, <2>1, <2>2, PutFacts DEF Took, Ticket, Key
  <2> QED BY <1>4, <2>2, <2>3, <2>4, StillUse
<1>5. ASSUME NEW r \in Req, Mint(r) PROVE UseInv'
  <2>1. PICK t \in Token : /\ CreateRefreshToken(r, t, job[r].grant, job[r].key, Now(r))
                             /\ Keep(r, [job[r] EXCEPT !.new = t])
    BY <1>5 DEF Mint, FreshTokens
  <2>2. job[r].grant \in Grant /\ job[r].key \in Code /\ pc[r] = "mint" /\ Goto(r, "reply")
    BY <1>0, <1>5, JobTyped DEF Mint, Fits
  <2> DEFINE j == [job[r] EXCEPT !.new = t]
  <2>7. j.key = job[r].key /\ j.op = job[r].op
    BY <1>0, JobTyped DEF Job
  <2> HIDE DEF j
  <2>8. Keep(r, j)
    BY <2>1 DEF j
  <2>9. pc'[r] = "reply" /\ job'[r].key = job[r].key /\ Proper(pc'[r], job'[r])
    BY <1>0, <2>2, <2>7, <2>8, GotoMoves, KeepMoves DEF UseInv, Handing, Proper, Uses
  <2> DEFINE row == NewToken(job[r].grant, job[r].key, None, Now(r))
  <2>3. row \in TokenRow
    BY <1>0, <2>2, BornRow
  <2>4. Put(r, t, row)
    BY <2>1 DEF CreateRefreshToken
  <2> HIDE DEF row
  <2>5. row \in Rows(t) /\ t \in Ticket /\ t # job[r].key
    BY <2>2, <2>3, KeyKinds, KeysDisjoint DEF Ticket, Key
  <2>6. Still(r)
    BY <1>0, <1>5, MintMoves DEF Still, Mint, Rest
  <2> QED BY <1>4, <2>2, <2>4, <2>5, <2>6, <2>9
<1>6. ASSUME NEW r \in Req, Chain(r) PROVE UseInv'
  <2>1. /\ job[r].grant \in Grant /\ job[r].key \in Token /\ pc[r] = "chain"
        /\ job[r].code \in Code /\ job[r].new \in Token
    BY <1>0, <1>6, JobTyped DEF Chain, Fits
  <2> DEFINE row == NewToken(job[r].grant, job[r].code, job[r].key, Now(r))
             n == job[r].new
  <2>2. row \in TokenRow
    BY <1>0, <2>1, BornRow
  <2>3. Put(r, n, row) /\ job' = job /\ pc'[r] = "reply"
    BY <1>0, <1>6, ChainMoves
  <2> HIDE DEF row
  <2>4. n # None /\ job[r].key # None
    BY <2>1, StoreConstants
  <2>5. n # job[r].key
    BY <1>0, <2>4 DEF Names, NewIsSecret, SentBeforeUse
  <2>6. row \in Rows(n) /\ n \in Ticket
    BY <2>1, <2>2, KeyKinds DEF Ticket, Key
  <2>7. Still(r)
    BY <1>0, <1>6, ChainMoves DEF Still, Chain, Rest
  <2>8. Proper(pc'[r], job'[r])
    BY <2>1, <2>3 DEF UseInv, Handing, Proper, Uses
  <2> QED BY <1>4, <2>1, <2>3, <2>5, <2>6, <2>7, <2>8
<1>7. ASSUME NEW r \in Req, Issue(r) PROVE UseInv'
  <2>1. PICK c \in Code \ generated : /\ CreateCode(r, c, job[r].grant, Now(r))
                                      /\ Keep(r, [job[r] EXCEPT !.new = c])
    BY <1>7 DEF Issue, FreshCodes
  <2> DEFINE j == [job[r] EXCEPT !.new = c]
             row == [grant |-> job[r].grant, expires |-> Now(r) + CodeTTL]
  <2>2. j.op = job[r].op /\ j.key = job[r].key
    BY <1>0, JobTyped DEF Job
  <2> HIDE DEF j
  <2>3. Keep(r, j) /\ Goto(r, "reply") /\ pc[r] = "issue"
    BY <1>7, <2>1 DEF Issue, j
  <2>4. /\ pc'[r] = "reply" /\ job'[r].key = job[r].key /\ job'[r].op \notin Uses
        /\ Proper(pc'[r], job'[r])
    BY <1>0, <2>2, <2>3, GotoMoves, KeepMoves DEF UseInv, Handing, Proper, Uses
  <2>5. job[r].grant \in Grant
    BY <1>0, <2>3, JobTyped DEF Fits
  <2>6. row \in CodeRow
    BY <1>0, <2>5, JobTyped, Limits DEF CodeRow
  <2>7. Put(r, c, row)
    BY <2>1 DEF CreateCode
  <2> HIDE DEF row
  <2>8. row \in Rows(c) /\ c \in Ticket
    BY <2>6, KeyKinds DEF Ticket, Key
  <2>9. c # job[r].key
    BY <1>0, StoreConstants DEF Names, SentBeforeUse
  <2>10. Still(r)
    BY <1>0, <1>7, IssueMoves DEF Still, Issue
  <2> QED BY <1>4, <2>4, <2>7, <2>8, <2>9, <2>10
<1>8. ASSUME NEW r \in Req, Fail(r) PROVE UseInv'
  <2>0. NoJob.op = "none" /\ NoJob.new = None
    BY DEF NoJob
  <2> HIDE DEF NoJob
  <2>1. Still(r) /\ pc'[r] = "idle" /\ Proper(pc'[r], job'[r])
    BY <1>0, <1>8, <2>0, EndMoves, KeepMoves DEF Still, Fail, Rest, Proper
  <2>2. \A k : ~Took(r, k)'
    BY <2>1 DEF Took
  <2> QED BY <1>0, <1>8, <2>1, <2>2, FailQuiet, StillUse DEF Quiet
<1>9. ASSUME NEW r \in Req, NEW op \in AllOps, Begin(r, op) PROVE UseInv'
  <2>1. Still(r) /\ pc'[r] \notin {"mint", "chain", "reply"} /\ dirty' = dirty
    BY <1>0, <1>9, BeginMoves DEF Still, Begin, Rest
  <2>2. PICK key \in Presented(op) :
          Keep(r, [NoJob EXCEPT !.op = op, !.key = key,
                                !.since = IF AutoCommit /\ op # "cleanup" THEN 0 ELSE clock])
    BY <1>9 DEF Begin
  <2> DEFINE j == [NoJob EXCEPT !.op = op, !.key = key,
                                !.since = IF AutoCommit /\ op # "cleanup" THEN 0 ELSE clock]
  <2>3. j.op = op /\ j.new = None /\ j.key = key
    BY DEF NoJob
  <2> HIDE DEF j
  <2>4. Keep(r, j)
    BY <2>2 DEF j
  <2>5. op = "authorize" => key = None
    BY <2>2 DEF Presented
  <2>6. Proper(pc'[r], job'[r])
    BY <1>0, <1>9, <2>3, <2>4, <2>5, GotoMoves, KeepMoves DEF Begin, AllOps, Proper
  <2>7. \A k : ~Took(r, k)'
    BY <2>1 DEF Took
  <2> QED BY <2>1, <2>6, <2>7, StillUse
<1>10. CASE Tick \/ Install \/ UNCHANGED vars
  <2>1. UNCHANGED <<committed, dirty, pc, job, answers>>
    BY <1>10 DEF Tick, Install, vars
  <2>2. /\ \A k : Traded(k)' <=> Traded(k)
        /\ \A q \in Req : \A k : Took(q, k)' <=> Took(q, k)
        /\ Delivered' = Delivered
    BY <2>1 DEF Traded, Took, Delivered
  <2> QED BY <2>1, <2>2 DEF UseInv, TakenIsGone, OneTaker, TradedIsGone, Handing, OneSuccessor, Gone
<1> QED
  BY <1>1, <1>2, <1>3, <1>5, <1>6, <1>7, <1>8, <1>9, <1>10, FinishUse DEF Next, Step, QuietStep

LEMMA InitUse == Init => UseInv
<1> SUFFICES ASSUME Init PROVE UseInv
  OBVIOUS
<1>1. answers = {} /\ \A r \in Req : pc[r] = "idle" /\ job[r].new = None /\ job[r].op = "none"
  BY DEF Init, NoJob
<1>2. \A k : ~Traded(k) /\ \A r \in Req : ~Took(r, k)
  BY <1>1 DEF Traded, Took
<1> QED
  BY <1>1, <1>2 DEF UseInv, TakenIsGone, OneTaker, TradedIsGone, Handing, Proper, OneSuccessor

\* Whatever requests present a code or a refresh token, at the same time or later, at most
\* one of them is answered with a new token (DELETE RETURNING, the conditional UPDATE).
THEOREM Successor == Spec => []OneSuccessor
<1>1. UseInv => OneSuccessor
  BY DEF UseInv
<1> QED BY <1>1, InitIInv, NextIInv, InitUse, NextUse, PTL DEF Spec

-----------------------------------------------------------------------------
(* The line of tokens of one code. *)

\* A live token was rotated or revoked.
Aged(old, new) ==
  /\ Live(old) /\ new \notin {Absent, Untouched} /\ new.revoked
  /\ new.grant = old.grant /\ new.code = old.code /\ new.from = old.from
  /\ new.expires = old.expires

Later(old, new) == new \in {old, Absent} \/ Aged(old, new)

\* The codes and tokens that are committed, those that request r sees, and those that
\* its statements change.
base    == [k \in Ticket |-> committed[k]]
view(r) == [k \in Ticket |-> Row(r, k)]
mine(r) == IF AutoCommit THEN base ELSE view(r)

\* p is no more, or was retired in favour of token t of code c.
Heir(p, t, c) == p # Absent => p.revoked /\ p.next = t /\ p.code = c

LinkedIn(v) ==
  \A t \in Token : v[t] # Absent /\ v[t].from # None => Heir(v[v[t].from], t, v[t].code)

Within(g, o) ==
  /\ g.user = o.user /\ g.client = o.client
  /\ g.scope \subseteq o.scope /\ g.resource \subseteq o.resource

\* What was approved for code c in o allows the grant g.
Approved(g, c, o) == o[c] # None /\ Within(g, o[c])

\* Rows v go back to origins o, to the tickets d that were sent, and to no token of u.
InLine(v, o, d, u) ==
  /\ LinkedIn(v)
  /\ \A t \in Token : v[t] # Absent =>
       /\ v[t].from \in d \cup {None} /\ t \notin u
       /\ Approved(v[t].grant, v[t].code, o)
  /\ \A c \in Code : v[c] # Absent => v[c].grant = o[c]

\* No row is stored under an identifier before the one request that generated it does.
Unborn == {t \in Token : t \notin generated \/ \E q \in Req : pc[q] = "chain" /\ job[q].new = t}

\* The token that r is about to send, stored by its open transaction.
Newborn(r, t) == committed[t] = Absent /\ pc[r] = "reply" /\ job[r].new = t

Versions == \A r \in Req, t \in Token : Later(committed[t], Row(r, t)) \/ Newborn(r, t)

\* What a handler between two statements of an exchange or a rotation will store is
\* approved, and the token it replaces expects it.
JobLine(label, j, v, o) ==
  /\ label \in {"consume", "mint"} => Approved(j.grant, j.key, o)
  /\ label = "retire" /\ v[j.key] # Absent => Within(j.grant, v[j.key].grant)
  /\ label = "chain" => Approved(j.grant, j.code, o) /\ Heir(v[j.key], j.new, j.code)

LineInv ==
  /\ Versions
  /\ \A c \in Code \ generated : origin[c] = None
  /\ InLine(base, origin, Delivered, Unborn)
  /\ \A r \in Req : /\ InLine(view(r), origin, Delivered, Unborn)
                    /\ JobLine(pc[r], job[r], mine(r), origin)

-----------------------------------------------------------------------------
(* Rows that only get later stay linked. *)

LEMMA LaterTwice ==
  ASSUME NEW a, NEW b, NEW c, Later(a, b), Later(b, c)
  PROVE  Later(a, c)
BY DEF Later, Aged, Live

LEMMA LinkStep ==
  ASSUME NEW v, NEW w, NEW x, LinkedIn(v),
         \A t \in Token : v[t] # Absent => v[t].from \in (Token \ {x}) \cup {None},
         \A t \in Token \ {x} : Later(v[t], w[t]),
         x \in Token => \/ Later(v[x], w[x])
                        \/ w[x] # Absent /\ w[x].from # None => Heir(w[w[x].from], x, w[x].code)
  PROVE  LinkedIn(w)
<1> SUFFICES ASSUME NEW t \in Token, w[t] # Absent, w[t].from # None
             PROVE  Heir(w[w[t].from], t, w[t].code)
  BY DEF LinkedIn
<1>1. CASE Later(v[t], w[t])
  <2>1. v[t] # Absent /\ w[t].from = v[t].from /\ w[t].code = v[t].code
    BY <1>1 DEF Later, Aged, Live
  <2> DEFINE p == v[t].from
  <2>2. p \in Token \ {x} /\ Heir(v[p], t, v[t].code)
    BY <2>1 DEF LinkedIn
  <2>3. Later(v[p], w[p])
    BY <2>2
  <2>4. w[p] # Absent => w[p] = v[p]
    BY <2>2, <2>3 DEF Later, Aged, Heir, Live
  <2> QED BY <2>1, <2>2, <2>4 DEF Heir
<1>2. CASE ~Later(v[t], w[t])
  BY <1>2
<1> QED BY <1>1, <1>2

RowsTyped(v) == /\ \A t \in Token : v[t] \in TokenRow \cup {Absent}
                /\ \A c \in Code : v[c] \in CodeRow \cup {Absent}

\* But for ticket x, rows w come after rows v.
After(v, w, x) == /\ \A t \in Token \ {x} : Later(v[t], w[t])
                  /\ \A c \in Code \ {x} : w[c] \in {v[c], Absent}

\* What is stored for ticket x is in line.
Joins(x, w, o, d, u) ==
  /\ x \in Token => /\ x \notin d /\ x \notin u
                    /\ w[x].from \in d \cup {None} /\ Approved(w[x].grant, w[x].code, o)
                    /\ w[x].from # None => Heir(w[w[x].from], x, w[x].code)
  /\ x \in Code => w[x].grant = o[x]

Kept(o, o2) == \A c \in Code : o[c] # None => o2[c] = o[c]

\* A step that brings at most ticket x to life.
LEMMA InLineStep ==
  ASSUME NEW v, NEW w, NEW o, NEW o2, NEW d, NEW d2, NEW u, NEW u2, NEW x,
         InLine(v, o, d, u), d \subseteq d2, u2 \subseteq u, Kept(o, o2),
         RowsTyped(v), After(v, w, x), Joins(x, w, o2, d, u2)
  PROVE  InLine(w, o2, d2, u2)
<1> USE DEF RowsTyped, After, Joins, Kept
<1>1. ASSUME NEW t \in Token, v[t] # Absent
      PROVE  /\ v[t].code \in Code
             /\ v[t].from \in (Token \ {x}) \cup {None}
  <2>1. v[t] \in TokenRow
    BY <1>1
  <2>2. v[t].from \in Token \cup {None} /\ v[t].code \in Code
    BY <2>1 DEF TokenRow
  <2>3. v[t].from \in d \cup {None}
    BY <1>1 DEF InLine
  <2>4. None \notin Token
    BY StoreConstants
  <2> QED BY <2>2, <2>3, <2>4
<1>2. LinkedIn(w)
  <2>1. LinkedIn(v)
    BY DEF InLine
  <2>2. \A t \in Token : v[t] # Absent => v[t].from \in (Token \ {x}) \cup {None}
    BY <1>1
  <2>3. x \in Token /\ w[x].from # None => Heir(w[w[x].from], x, w[x].code)
    OBVIOUS
  <2> QED BY <2>1, <2>2, <2>3, LinkStep
<1>3. ASSUME NEW t \in Token, w[t] # Absent
      PROVE  /\ w[t].from \in d2 \cup {None} /\ t \notin u2
             /\ Approved(w[t].grant, w[t].code, o2)
  <2>1. CASE t = x
    BY <1>3, <2>1
  <2>2. CASE t # x
    <3>1. Later(v[t], w[t])
      BY <2>2
    <3>2. /\ v[t] # Absent /\ w[t].from = v[t].from
          /\ w[t].grant = v[t].grant /\ w[t].code = v[t].code
      BY <1>3, <3>1 DEF Later, Aged, Live
    <3>3. /\ v[t].from \in d \cup {None} /\ t \notin u
          /\ Approved(v[t].grant, v[t].code, o)
      BY <3>2 DEF InLine
    <3> QED BY <1>1, <3>2, <3>3 DEF Approved
  <2> QED BY <2>1, <2>2
<1>4. ASSUME NEW c \in Code, w[c] # Absent PROVE w[c].grant = o2[c]
  <2>1. CASE c = x
    BY <1>4, <2>1
  <2>2. CASE c # x
    <3>1. w[c] = v[c] /\ v[c] \in CodeRow
      BY <1>4, <2>2
    <3>2. v[c].grant \in Grant /\ v[c].grant = o[c]
      BY <1>4, <3>1 DEF InLine, CodeRow
    <3>3. o[c] # None
      BY <3>2, StoreConstants
    <3> QED BY <3>1, <3>2, <3>3
  <2> QED BY <2>1, <2>2
<1> QED BY <1>2, <1>3, <1>4 DEF InLine

-----------------------------------------------------------------------------
(* What a request writes. *)

LEMMA TokenRows ==
  ASSUME Typed, NEW t \in Token
  PROVE  /\ t \in Key /\ committed[t] \in TokenRow \cup {Absent}
         /\ \A r \in Req : Row(r, t) \in TokenRow \cup {Absent}
         /\ Untouched \notin TokenRow \cup {Absent}
<1>1. t \in Key
  BY DEF Key
<1> QED BY <1>1, RowTyped, KeyKinds DEF Typed, TypeOK, StoreOK

\* All but the row of ticket x, a step of r only makes rows later.
Wrote(r, x) ==
  /\ \A q \in Req \ {r} : dirty'[q] = dirty[q]
  /\ \A t \in Token \ {x} : Later(committed[t], committed'[t]) /\ Later(Row(r, t), Row(r, t)')
  /\ \A c \in Code \ {x} : /\ committed'[c] \in {committed[c], Absent}
                           /\ Row(r, c)' \in {Row(r, c), Absent}

\* Before its transaction ends nothing of it is committed.
Apart(r) == ~AutoCommit => committed' = committed

LEMMA ReadWrote ==
  ASSUME NEW r \in Req, UNCHANGED <<committed, dirty>>
  PROVE  Wrote(r, None) /\ Apart(r)
BY DEF Wrote, Apart, Later, Row

LEMMA WriteWrote ==
  ASSUME Typed, OnlyDeletes, NEW r \in Req, NEW w \in [Key -> Cell \cup {Untouched}],
         NEW auto \in BOOLEAN, Write(r, w, auto), auto => AutoCommit,
         \A c \in Code : w[c] \in {Absent, Untouched},
         \A t \in Token : w[t] \in {Absent, Untouched} \/ Aged(Row(r, t), w[t])
  PROVE  Wrote(r, None) /\ Apart(r)
<1>0. StoreOK /\ Ticket \subseteq Key
  BY DEF Typed, TypeOK, Key, Ticket
<1>2. CASE auto
  <2>1. /\ dirty' = dirty
        /\ \A k \in Key : committed'[k] = IF w[k] = Untouched THEN committed[k] ELSE w[k]
    BY <1>0, <1>2, WriteFacts
  <2>2. \A k \in Key : dirty[r][k] \in {Absent, Untouched}
    BY <1>2 DEF OnlyDeletes
  <2>3. ASSUME NEW t \in Token
        PROVE  Later(committed[t], committed'[t]) /\ Later(Row(r, t), Row(r, t)')
    <3>1. t \in Key /\ dirty[r][t] \in {Absent, Untouched}
      BY <1>0, <2>2 DEF Ticket
    <3>2. Aged(Row(r, t), w[t]) => Row(r, t) = committed[t]
      BY <3>1 DEF Aged, Live, Row
    <3> QED BY <2>1, <3>1, <3>2 DEF Later, Row
  <2>4. \A c \in Code : /\ committed'[c] \in {committed[c], Absent}
                        /\ Row(r, c)' \in {Row(r, c), Absent}
    BY <1>0, <2>1, <2>2 DEF Row, Ticket
  <2> QED BY <1>0, <1>2, <2>1, <2>3, <2>4 DEF Wrote, Apart
<1>3. CASE ~auto
  <2>1. /\ committed' = committed
        /\ \A q \in Req \ {r} : dirty'[q] = dirty[q]
        /\ \A k \in Key : dirty'[r][k] = IF w[k] = Untouched THEN dirty[r][k] ELSE w[k]
    BY <1>0, <1>3, WriteFacts
  <2>2. \A k \in Key : Row(r, k)' = IF w[k] = Untouched THEN Row(r, k) ELSE w[k]
    BY <2>1 DEF Row
  <2> QED BY <1>0, <2>1, <2>2 DEF Wrote, Apart, Later, Ticket
<1> QED BY <1>2, <1>3

LEMMA PutWrote ==
  ASSUME Typed, OnlyDeletes, NEW r \in Req, NEW k \in Key, NEW row \in Rows(k), Put(r, k, row)
  PROVE  Wrote(r, k) /\ Apart(r)
<1>0. StoreOK /\ Ticket \subseteq Key
  BY DEF Typed, TypeOK, Key, Ticket
<1>1. /\ \A q \in Req \ {r} : dirty'[q] = dirty[q]
      /\ \A i \in Key \ {k} : committed'[i] = committed[i] /\ dirty'[r][i] = dirty[r][i]
      /\ Apart(r)
  BY <1>0, PutFacts DEF Apart
<1> QED BY <1>0, <1>1 DEF Wrote, Later, Row, Ticket

\* A statement that writes no code or token.
LEMMA OtherPut ==
  ASSUME Typed, OnlyDeletes, NEW r \in Req, NEW k \in Client \cup Grant, NEW row \in Rows(k),
         NoRow \/ Put(r, k, row)
  PROVE  Wrote(r, None) /\ Apart(r)
<1>1. k \in Key /\ k \notin Code /\ k \notin Token
  BY KeysDisjoint DEF Key, ConsentKey
<1> QED BY <1>1, ReadWrote, PutWrote DEF NoRow, Wrote

LEMMA AgedRow ==
  ASSUME Typed, NEW r \in Req, NEW t \in Token, NEW n \in Token, Live(Row(r, t))
  PROVE  /\ Aged(Row(r, t), [Row(r, t) EXCEPT !.revoked = TRUE])
         /\ Aged(Row(r, t), [Row(r, t) EXCEPT !.revoked = TRUE, !.next = n])
         /\ [Row(r, t) EXCEPT !.revoked = TRUE, !.next = n].next = n
<1>1. PICK old \in TokenRow : old = Row(r, t)
  BY TokenRows DEF Live
<1> DEFINE a == [old EXCEPT !.revoked = TRUE]
           b == [old EXCEPT !.revoked = TRUE, !.next = n]
<1>2. /\ a \in TokenRow /\ a.revoked /\ a.grant = old.grant /\ a.code = old.code /\ a.from = old.from
      /\ b \in TokenRow /\ b.revoked /\ b.grant = old.grant /\ b.code = old.code /\ b.from = old.from
      /\ a.expires = old.expires /\ b.expires = old.expires /\ b.next = n
  BY DEF TokenRow
<1>3. Absent \notin TokenRow /\ Untouched \notin TokenRow
  BY StoreConstants
<1>4. a = [Row(r, t) EXCEPT !.revoked = TRUE] /\ b = [Row(r, t) EXCEPT !.revoked = TRUE, !.next = n]
  BY <1>1
<1> HIDE DEF a, b
<1>5. Aged(old, a) /\ Aged(old, b)
  BY <1>1, <1>2, <1>3 DEF Aged
<1> QED BY <1>1, <1>2, <1>4, <1>5

LEMMA QuietWrote ==
  ASSUME IInv, NEW r \in Req, QuietStep(r) \/ Consume(r)
  PROVE  Wrote(r, None) /\ Apart(r)
<1>0. Typed /\ OnlyDeletes
  BY DEF IInv
<1>1. CASE UNCHANGED <<committed, dirty>>
  BY <1>1, ReadWrote
<1>2. CASE Register(r)
  <2>1. PICK cl \in Client : Put(r, cl, Registration[cl])
    BY <1>2 DEF Register, CreateClient
  <2>2. Registration[cl] \in Rows(cl)
    BY Limits, KeyKinds DEF Key
  <2> QED BY <1>0, <2>1, <2>2, OtherPut
<1>3. CASE Approve(r)
  <2> DEFINE g == job[r].grant
             row == [expires |-> IF ConsentTTL = 0 THEN Never ELSE Now(r) + ConsentTTL]
  <2>1. g \in Grant /\ row \in ConsentRow
    BY <1>0, <1>3, JobTyped, Limits DEF Approve, Fits, ConsentRow
  <2>2. row \in Rows(g)
    BY <2>1, KeyKinds DEF Key, ConsentKey
  <2>3. Put(r, g, row)
    BY <1>3 DEF Approve, CreateConsent
  <2> QED BY <1>0, <2>1, <2>2, <2>3, OtherPut
<1>4. CASE Forget(r) \/ Withdraw(r)
  <2> DEFINE g == job[r].grant
  <2>1. g \in Grant
    BY <1>0, <1>4, JobTyped DEF Forget, Withdraw, Fits
  <2>2. Absent \in Rows(g)
    BY <2>1, KeyKinds DEF Key, ConsentKey
  <2>3. NoRow \/ Put(r, g, Absent)
    BY <1>4 DEF Forget, Withdraw, DeleteConsent
  <2> QED BY <1>0, <2>1, <2>2, <2>3, OtherPut
<1>5. CASE Revoking(r)
  <2> DEFINE w == RevokedRows(r, job[r].hit)
  <2>1. job[r].hit \subseteq Token
    BY <1>0, <1>5, JobTyped DEF Revoking, Fits
  <2>2. w \in [Key -> Cell \cup {Untouched}]
    BY <1>0, <2>1, RevokedRowsTyped
  <2>3. \A c \in Code : w[c] = Untouched
    BY <2>1, KeysDisjoint DEF RevokedRows, Key
  <2>4. \A t \in Token : w[t] = Untouched \/ Aged(Row(r, t), w[t])
    BY <1>0, AgedRow DEF RevokedRows, Key
  <2>5. Write(r, w, AutoCommit) /\ AutoCommit \in BOOLEAN
    BY <1>5, Limits DEF Revoking, RevokeRows, RevokedRows
  <2> HIDE DEF w
  <2> QED BY <1>0, <2>2, <2>3, <2>4, <2>5, WriteWrote
<1>6. CASE Purge(r)
  <2> DEFINE w == [k \in Key |-> IF k \in StoredRows(r, job[r].hit) THEN Absent ELSE Untouched]
             auto == AutoCommit /\ job[r].op # "cleanup"
  <2>1. w \in [Key -> Cell \cup {Untouched}] /\ \A k \in Key : w[k] \in {Absent, Untouched}
    BY DEF Cell
  <2>2. Write(r, w, auto) /\ auto \in BOOLEAN /\ (auto => AutoCommit)
    BY <1>6 DEF Purge, DeleteRows
  <2> HIDE DEF w, auto
  <2> QED BY <1>0, <2>1, <2>2, WriteWrote DEF Key
<1>7. CASE Consume(r)
  <2> DEFINE c == job[r].key
             w == [NoWrites EXCEPT ![c] = Absent]
  <2>1. c \in Code /\ c \in Key
    BY <1>0, <1>7, JobTyped DEF Consume, Fits, Key
  <2>2. w \in [Key -> Cell \cup {Untouched}] /\ \A k \in Key : w[k] \in {Absent, Untouched}
    BY <2>1 DEF NoWrites, Cell
  <2>3. NoRow \/ Write(r, w, AutoCommit)
    BY <1>7 DEF Consume, ConsumeCode, Put
  <2>4. AutoCommit \in BOOLEAN
    BY Limits
  <2> HIDE DEF w
  <2> QED BY <1>0, <2>2, <2>3, <2>4, WriteWrote, ReadWrote DEF NoRow, Key
<1> QED
  BY <1>1, <1>2, <1>3, <1>4, <1>5, <1>6, <1>7
     DEF QuietStep, Authorize, Decide, Exchange, Replayed, Rotate, Revoke, Family, Consents, Sessions, Select

-----------------------------------------------------------------------------
(* From the rows a step writes to the line of every token. *)

LEMMA LineRows ==
  ASSUME Typed, NEW k \in Ticket
  PROVE  /\ k \in Key /\ base[k] = committed[k]
         /\ k \in Code => base[k] \in CodeRow \cup {Absent}
         /\ k \in Token => base[k] \in TokenRow \cup {Absent}
         /\ \A r \in Req : /\ view(r)[k] = Row(r, k)
                           /\ k \in Code => view(r)[k] \in CodeRow \cup {Absent}
                           /\ k \in Token => view(r)[k] \in TokenRow \cup {Absent}
<1>1. k \in Key
  BY DEF Key, Ticket
<1> QED BY <1>1, RowTyped, KeyKinds DEF Typed, TypeOK, StoreOK, base, view

\* Rows that stay as they are.
LEMMA InLineSame ==
  ASSUME NEW v, NEW o, NEW o2, NEW d, NEW d2, NEW u, NEW u2,
         InLine(v, o, d, u), d \subseteq d2, u2 \subseteq u, Kept(o, o2), RowsTyped(v)
  PROVE  InLine(v, o2, d2, u2)
<1>1. None \notin Token \cup Code
  BY StoreConstants
<1>2. After(v, v, None) /\ Joins(None, v, o2, d, u2)
  BY <1>1 DEF Later, After, Joins
<1> QED BY <1>2, InLineStep

\* Statement by statement, a request sees what is committed, less what it deletes.
LEMMA AutoLine ==
  ASSUME AutoCommit, OnlyDeletes', InLine(base', origin', Delivered', Unborn'),
         \A t \in Token : base'[t] \in TokenRow \cup {Absent}
  PROVE  Versions' /\ \A q \in Req : InLine(view(q)', origin', Delivered', Unborn')
<1>1. \A q \in Req, k \in Ticket : Row(q, k)' \in {committed'[k], Absent}
  BY DEF OnlyDeletes, Row, Key, Ticket
<1>2. Versions'
  BY <1>1 DEF Versions, Later, Ticket
<1>3. ASSUME NEW q \in Req PROVE InLine(view(q)', origin', Delivered', Unborn')
  <2> DEFINE v == base'
             w == view(q)'
  <2>1. \A k \in Ticket : w[k] \in {v[k], Absent}
    BY <1>1 DEF base, view
  <2>2. InLine(v, origin', Delivered', Unborn')
    OBVIOUS
  <2> HIDE DEF v, w
  <2>3. LinkedIn(w)
    <3> SUFFICES ASSUME NEW t \in Token, w[t] # Absent, w[t].from # None
                 PROVE  Heir(w[w[t].from], t, w[t].code)
      BY DEF LinkedIn
    <3>1. w[t] = v[t]
      BY <2>1 DEF Ticket
    <3>2. Heir(v[v[t].from], t, v[t].code)
      BY <2>2, <3>1 DEF InLine, LinkedIn
    <3>3. v[t] \in TokenRow
      BY <3>1 DEF v
    <3>4. v[t].from \in Token
      BY <3>1, <3>3 DEF TokenRow
    <3> QED BY <2>1, <3>1, <3>2, <3>4 DEF Heir, Ticket
  <2>4. \A k \in Ticket : w[k] # Absent => w[k] = v[k]
    BY <2>1
  <2>5. Code \subseteq Ticket /\ Token \subseteq Ticket
    BY DEF Ticket
  <2>6. InLine(w, origin', Delivered', Unborn')
    BY <2>2, <2>3, <2>4, <2>5 DEF InLine
  <2> QED BY <2>6 DEF w
<1> QED BY <1>2, <1>3

\* A handler that waits meanwhile: what it read still bounds what it will store.
LEMMA JobLineKept ==
  ASSUME NEW label, NEW j \in Job, Fits(label, j), NEW v, NEW w, NEW o, NEW o2,
         JobLine(label, j, v, o),
         Kept(o, o2), label \in {"retire", "chain"} => Later(v[j.key], w[j.key])
  PROVE  JobLine(label, j, w, o2)
<1>1. label \in {"consume", "mint"} => Approved(j.grant, j.key, o2)
  BY DEF JobLine, Approved, Fits, Kept
<1>2. label = "retire" /\ w[j.key] # Absent => Within(j.grant, w[j.key].grant)
  BY DEF JobLine, Later, Aged, Live
<1>3. label = "chain" => Approved(j.grant, j.code, o2) /\ Heir(w[j.key], j.new, j.code)
  BY DEF JobLine, Approved, Fits, Kept, Later, Aged, Live, Heir
<1> QED BY <1>1, <1>2, <1>3 DEF JobLine

\* What the step that stores token t makes of it.
Born(r, t) == t \in Unborn /\ pc'[r] = "reply" /\ job'[r].new = t

OriginsKept ==
  /\ Kept(origin, origin')
  /\ \A c \in Code \ generated' : origin'[c] = None

LEMMA WaitingJob ==
  ASSUME IInv, LineInv, NEW q \in Req, pc'[q] = pc[q], job'[q] = job[q], OriginsKept,
         \A t \in Token \cap Delivered : Later(mine(q)[t], mine(q)'[t])
  PROVE  JobLine(pc'[q], job'[q], mine(q)', origin')
<1> DEFINE j == job[q]
<1>1. j \in Job /\ Fits(pc[q], j)
  BY JobTyped DEF IInv
<1>2. pc[q] \in {"retire", "chain"} => j.key \in Token \cap Delivered
  <2>1. j.key \in Delivered \cup {None}
    BY DEF IInv, Names, SentBeforeUse
  <2>2. pc[q] \in {"retire", "chain"} => j.key \in Token
    BY <1>1 DEF Fits
  <2> QED BY <2>1, <2>2, StoreConstants
<1>3. JobLine(pc[q], j, mine(q), origin)
  BY DEF LineInv
<1> HIDE DEF j
<1>4. JobLine(pc[q], j, mine(q)', origin')
  <2> DEFINE w == mine(q)'
             o2 == origin'
  <2>1. pc[q] \in {"retire", "chain"} => Later(mine(q)[j.key], w[j.key])
    BY <1>2
  <2>2. Kept(origin, o2)
    BY DEF OriginsKept
  <2> HIDE DEF w, o2
  <2>3. JobLine(pc[q], j, w, o2)
    BY <1>1, <1>3, <2>1, <2>2, JobLineKept
  <2> QED BY <2>3 DEF w, o2
<1> QED BY <1>4 DEF j

\* A step of r that goes on with its transaction and brings at most x to life.
LEMMA StepLine ==
  ASSUME IInv, IInv', LineInv, NEW r \in Req, NEW x, Wrote(r, x), Apart(r), Others(r),
         pc[r] # "reply", Delivered' = Delivered, OriginsKept,
         Unborn' \subseteq Unborn, x \notin Delivered, x \in Token => Born(r, x),
         Joins(x, mine(r)', origin', Delivered, Unborn'),
         JobLine(pc'[r], job'[r], mine(r)', origin')
  PROVE  LineInv'
<1>0. Typed /\ Names /\ OnlyDeletes' /\ Typed'
  BY DEF IInv
<1> DEFINE v == mine(r)
           w == mine(r)'
<1>1. InLine(v, origin, Delivered, Unborn)
  BY DEF LineInv, mine
<1>2. RowsTyped(v)
  BY <1>0, LineRows DEF mine, Ticket, RowsTyped
<1>3. After(v, w, x)
  BY DEF Wrote, mine, base, view, Ticket, After
<1>5. InLine(w, origin', Delivered', Unborn')
  <2> DEFINE o2 == origin'
             d2 == Delivered'
             u2 == Unborn'
  <2>1. Kept(origin, o2) /\ Delivered \subseteq d2 /\ u2 \subseteq Unborn
    BY DEF OriginsKept
  <2>2. Joins(x, w, o2, Delivered, u2)
    OBVIOUS
  <2> HIDE DEF v, w, o2, d2, u2
  <2>3. InLine(w, o2, d2, u2)
    BY <1>1, <1>2, <1>3, <2>1, <2>2, InLineStep
  <2> QED BY <2>3 DEF o2, d2, u2
<1>6. Versions' /\ InLine(base', origin', Delivered', Unborn')
      /\ \A q \in Req : InLine(view(q)', origin', Delivered', Unborn')
  <2>1. CASE AutoCommit
    <3>1. InLine(base', origin', Delivered', Unborn')
      BY <1>5, <2>1 DEF mine
    <3>2. \A t \in Token : base'[t] \in TokenRow \cup {Absent}
      <4>1. \A t \in Token : t \in Key /\ committed'[t] \in Rows(t)
        BY <1>0 DEF Typed, TypeOK, StoreOK, Key
      <4> QED BY <4>1, KeyKinds DEF base, Ticket
    <3> QED BY <1>0, <2>1, <3>1, <3>2, AutoLine
  <2>2. CASE ~AutoCommit
    <3>1. committed' = committed /\ base' = base
      BY <2>2 DEF Apart, base
    <3>2. \A q \in Req \ {r} : view(q)' = view(q) /\ \A t \in Token : Row(q, t)' = Row(q, t)
      BY <3>1 DEF Wrote, view, Row
    <3>3. InLine(view(r)', origin', Delivered', Unborn')
      BY <1>5, <2>2 DEF mine
    <3>4. ASSUME NEW z, InLine(z, origin, Delivered, Unborn), RowsTyped(z)
          PROVE  InLine(z, origin', Delivered', Unborn')
      <4> DEFINE o2 == origin'
                 d2 == Delivered'
                 u2 == Unborn'
      <4>1. Kept(origin, o2) /\ Delivered \subseteq d2 /\ u2 \subseteq Unborn
        BY DEF OriginsKept
      <4> HIDE DEF o2, d2, u2
      <4>2. InLine(z, o2, d2, u2)
        BY <3>4, <4>1, InLineSame
      <4> QED BY <4>2 DEF o2, d2, u2
    <3>5. \A q \in Req \ {r} : InLine(view(q)', origin', Delivered', Unborn')
      BY <1>0, <3>2, <3>4, LineRows DEF LineInv, Ticket, RowsTyped
    <3>6. InLine(base', origin', Delivered', Unborn')
      BY <1>0, <3>1, <3>4, LineRows DEF LineInv, Ticket, RowsTyped
    <3>7. Versions'
      <4>1. ASSUME NEW q \in Req \ {r}, NEW t \in Token
            PROVE  (Later(committed[t], Row(q, t)) \/ Newborn(q, t))'
        BY <3>1, <3>2 DEF LineInv, Versions, Newborn, Others
      <4>2. ASSUME NEW t \in Token PROVE (Later(committed[t], Row(r, t)) \/ Newborn(r, t))'
        <5>1. CASE t = x
          <6>1. base[x] = Absent
            BY <5>1 DEF Born, LineInv, InLine
          <6> QED BY <3>1, <5>1, <6>1 DEF Born, Newborn, base, Ticket
        <5>2. CASE t # x
          <6>1. Later(committed[t], Row(r, t)) /\ Later(Row(r, t), Row(r, t)')
            BY <5>2 DEF LineInv, Versions, Newborn, Wrote
          <6> QED BY <3>1, <6>1, LaterTwice
        <5> QED BY <5>1, <5>2
      <4> QED BY <4>1, <4>2 DEF Versions
    <3> QED BY <3>3, <3>5, <3>6, <3>7
  <2> QED BY <2>1, <2>2
<1>7. \A q \in Req \ {r} : JobLine(pc'[q], job'[q], mine(q)', origin')
  <2> SUFFICES ASSUME NEW q \in Req \ {r} PROVE JobLine(pc'[q], job'[q], mine(q)', origin')
    OBVIOUS
  <2>1. \A t \in Token \cap Delivered : Later(mine(q)[t], mine(q)'[t])
    <3>1. CASE AutoCommit
      BY <3>1 DEF Wrote, mine, base, Ticket
    <3>2. CASE ~AutoCommit
      BY <3>2 DEF Wrote, Apart, mine, view, Row, Ticket, Later
    <3> QED BY <3>1, <3>2
  <2> QED BY <2>1, WaitingJob DEF Others
<1> QED BY <1>6, <1>7 DEF LineInv, OriginsKept

-----------------------------------------------------------------------------
(* The steps. *)

LEMMA NoTicket ==
  ASSUME Typed, Names
  PROVE  None \notin Delivered /\ None \notin Token /\ None \notin Code
BY StoreConstants DEF Typed, TypeOK, RequestsOK, Names, SentBeforeUse

\* No identifier becomes unborn.
LEMMA UnbornShrinks ==
  ASSUME NEW r \in Req, Others(r), generated \subseteq generated', pc'[r] # "chain"
  PROVE  Unborn' \subseteq Unborn
BY DEF Unborn, Others

LEMMA SameOrigins ==
  ASSUME LineInv, origin' = origin, generated \subseteq generated'
  PROVE  OriginsKept
BY DEF OriginsKept, Kept, LineInv

\* A live row is the same to whoever reads it.
LEMMA MineIsSeen ==
  ASSUME OnlyDeletes, NEW r \in Req, NEW k \in Ticket, Row(r, k) # Absent
  PROVE  mine(r)[k] = Row(r, k)
BY DEF OnlyDeletes, mine, base, view, Row, Key, Ticket

\* A step that stores no ticket and is no part of an exchange or a rotation.
LEMMA PlainLine ==
  ASSUME IInv, IInv', LineInv, NEW r \in Req, Wrote(r, None), Apart(r), Others(r),
         pc[r] # "reply", pc'[r] # "chain", generated \subseteq generated', origin' = origin,
         answers' = answers,
         JobLine(pc'[r], job'[r], mine(r)', origin)
  PROVE  LineInv'
<1>1. Delivered' = Delivered
  BY DEF Delivered
<1>2. None \notin Delivered /\ None \notin Token /\ None \notin Code
  BY NoTicket DEF IInv
<1>3. Joins(None, mine(r)', origin', Delivered, Unborn')
  BY <1>2 DEF Joins
<1> QED BY <1>1, <1>2, <1>3, UnbornShrinks, SameOrigins, StepLine

LEMMA ExchangeLine ==
  ASSUME IInv, LineInv, NEW r \in Req, Exchange(r)
  PROVE  JobLine(pc'[r], job'[r], mine(r)', origin)
<1>0. Typed
  BY DEF IInv
<1> DEFINE c == job[r].key
           row == Row(r, c)
<1>1. c \in Code
  BY <1>0, JobTyped DEF Exchange, Fits
<1>2. CASE Refuse(r)
  BY <1>0, <1>2, RefuseMoves DEF JobLine
<1>3. CASE Goto(r, "replayed")
  BY <1>0, <1>3, GotoMoves DEF JobLine
<1>4. CASE ~Refuse(r) /\ ~Goto(r, "replayed")
  <2>1. PICK want \in SUBSET Resource :
          /\ CodeActive(r, c, Now(r)) /\ Narrower({}, want, row.grant)
          /\ Goto(r, "consume")
          /\ Keep(r, [job[r] EXCEPT !.grant = IF want = {} THEN row.grant
                                             ELSE [row.grant EXCEPT !.resource = want]])
    BY <1>4 DEF Exchange
  <2> DEFINE g == IF want = {} THEN row.grant ELSE [row.grant EXCEPT !.resource = want]
             j == [job[r] EXCEPT !.grant = g]
  <2>2. row \in CodeRow /\ row # Absent
    BY <1>0, <1>1, <2>1, RowTyped, KeyKinds DEF CodeActive, Unexpired, Key
  <2>3. row.grant = origin[c] /\ row.grant \in Grant /\ row.grant # None
    BY <1>1, <2>2, StoreConstants DEF LineInv, InLine, view, CodeRow, Ticket
  <2>4. Within(g, row.grant)
    <3>1. PICK h \in Grant : h = row.grant
      BY <2>3
    <3> HIDE DEF row
    <3> QED BY <2>1, <3>1 DEF Within, Narrower, Grant
  <2>5. Approved(g, c, origin)
    BY <2>3, <2>4 DEF Approved
  <2> HIDE DEF g
  <2>6. j.grant = g /\ j.key = c
    BY <1>0, JobTyped DEF Job
  <2> HIDE DEF j
  <2>7. pc'[r] = "consume" /\ job'[r] = j
    BY <1>0, <2>1, GotoMoves, KeepMoves DEF j, g
  <2> QED BY <2>5, <2>6, <2>7 DEF JobLine
<1> QED BY <1>2, <1>3, <1>4

LEMMA RotateLine ==
  ASSUME IInv, LineInv, NEW r \in Req, Rotate(r)
  PROVE  JobLine(pc'[r], job'[r], mine(r)', origin)
<1>0. Typed /\ OnlyDeletes
  BY DEF IInv
<1> DEFINE t == job[r].key
           row == Row(r, t)
<1>1. t \in Token
  BY <1>0, JobTyped DEF Rotate, Fits
<1>2. CASE Refuse(r)
  BY <1>0, <1>2, RefuseMoves DEF JobLine
<1>3. CASE ~Refuse(r)
  <2>1. PICK scope \in (SUBSET Scope) \ {{}}, resource \in SUBSET Resource :
          /\ RefreshValid(r, t, Now(r)) /\ Narrower(scope, resource, row.grant)
          /\ Goto(r, "retire")
          /\ Keep(r, [job[r] EXCEPT !.grant =
                        [row.grant EXCEPT !.scope = scope, !.resource = resource]])
    BY <1>3 DEF Rotate
  <2> DEFINE g == [row.grant EXCEPT !.scope = scope, !.resource = resource]
             j == [job[r] EXCEPT !.grant = g]
  <2>2. row # Absent /\ row \in TokenRow
    BY <1>0, <1>1, <2>1, RowTyped, KeyKinds DEF RefreshValid, Unexpired, Key
  <2>3. Within(g, row.grant)
    <3>1. PICK h \in Grant : h = row.grant
      BY <2>2 DEF TokenRow
    <3> HIDE DEF row
    <3> QED BY <2>1, <3>1 DEF Within, Narrower, Grant
  <2>4. mine(r)'[t] = row
    <3>1. mine(r)[t] = row
      BY <1>0, <1>1, <2>2, MineIsSeen DEF Ticket
    <3>2. mine(r)' = mine(r)
      BY DEF Rotate, mine, base, view, Row
    <3> QED BY <3>1, <3>2
  <2> HIDE DEF g
  <2>5. j.grant = g /\ j.key = t
    BY <1>0, JobTyped DEF Job
  <2> HIDE DEF j
  <2>6. pc'[r] = "retire" /\ job'[r] = j
    BY <1>0, <2>1, GotoMoves, KeepMoves DEF j, g
  <2> QED BY <2>3, <2>4, <2>5, <2>6 DEF JobLine
<1> QED BY <1>2, <1>3

LEMMA QuietLine ==
  ASSUME IInv, IInv', LineInv, NEW r \in Req, QuietStep(r) \/ Consume(r)
  PROVE  LineInv'
<1>0. Typed /\ Names
  BY DEF IInv
<1>1. Wrote(r, None) /\ Apart(r)
  BY QuietWrote
<1>2. Others(r) /\ pc'[r] # "chain"
  BY <1>0, QuietMoves, ConsumeMoves DEF Lapse
<1>3. pc[r] # "reply"
  BY
     DEF QuietStep, Register, Authorize, Decide, Approve, Exchange, Replayed, Rotate, Revoke,
         Family, Revoking, Forget, Consents, Withdraw, Sessions, Select, Purge, Consume
<1>4. origin' = origin /\ answers' = answers
  BY
     DEF QuietStep, Register, Authorize, Decide, Approve, Exchange, Replayed, Rotate, Revoke,
         Family, Revoking, Forget, Consents, Withdraw, Sessions, Select, Purge, Consume, Rest
<1>5. generated \subseteq generated'
  BY
     DEF QuietStep, Register, Authorize, Decide, Approve, Exchange, Replayed, Rotate, Revoke,
         Family, Revoking, Forget, Consents, Withdraw, Sessions, Select, Purge, Consume, Generate
<1>6. JobLine(pc'[r], job'[r], mine(r)', origin)
  <2>1. CASE Exchange(r)
    BY <2>1, ExchangeLine
  <2>2. CASE Rotate(r)
    BY <2>2, RotateLine
  <2>3. CASE Consume(r)
    BY <1>0, <2>3, ConsumeMoves DEF LineInv, JobLine, Lapse, Consume
  <2>4. CASE ~(Exchange(r) \/ Rotate(r) \/ Consume(r))
    <3>1. \E label \in {"consent", "issue", "approve", "revoking", "family", "withdraw",
                        "reply", "forget", "sessions", "select", "purge"} : Goto(r, label)
      BY <2>4
         DEF QuietStep, Register, Authorize, Decide, Approve, Replayed, Revoke, Family, Revoking,
             AfterRevoking, Forget, Consents, Withdraw, Sessions, Select, Purge, Refuse
    <3> QED BY <1>0, <3>1, GotoMoves DEF JobLine
  <2> QED BY <2>1, <2>2, <2>3, <2>4
<1> QED BY <1>1, <1>2, <1>3, <1>4, <1>5, <1>6, PlainLine

LEMMA BeginLine ==
  ASSUME IInv, IInv', LineInv, NEW r \in Req, NEW op \in AllOps, Begin(r, op)
  PROVE  LineInv'
<1>0. Typed
  BY DEF IInv
<1>1. Wrote(r, None) /\ Apart(r)
  BY ReadWrote DEF Begin
<1>2. pc[r] # "reply" /\ pc'[r] \notin {"consume", "mint", "retire", "chain"}
  BY <1>0, GotoMoves DEF Begin, AllOps
<1>3. /\ generated \subseteq generated' /\ origin' = origin /\ answers' = answers
  BY DEF Begin, Rest
<1>4. JobLine(pc'[r], job'[r], mine(r)', origin)
  BY <1>2 DEF JobLine
<1> QED BY <1>0, <1>1, <1>2, <1>3, <1>4, BeginMoves, PlainLine

\* What a statement on one row leaves for its request to see.
LEMMA MineStored ==
  ASSUME Typed, NEW r \in Req, NEW k \in Ticket, NEW row \in Rows(k), Put(r, k, row)
  PROVE  /\ mine(r)'[k] = row
         /\ \A i \in Ticket \ {k} : mine(r)'[i] = mine(r)[i]
<1>0. StoreOK /\ Ticket \subseteq Key
  BY DEF Typed, TypeOK, Key, Ticket
<1>1. row # Untouched
  BY <1>0, KeyKinds
<1>2. CASE AutoCommit
  BY <1>0, <1>2, PutFacts DEF mine, base
<1>3. CASE ~AutoCommit
  BY <1>0, <1>1, <1>3, PutFacts DEF mine, view, Row
<1> QED BY <1>2, <1>3

LEMMA IssueLine ==
  ASSUME IInv, IInv', LineInv, NEW r \in Req, Issue(r)
  PROVE  LineInv'
<1>0. Typed /\ Names /\ OnlyDeletes
  BY DEF IInv
<1>1. PICK c \in Code \ generated :
        /\ CreateCode(r, c, job[r].grant, Now(r)) /\ generated' = generated \cup {c}
        /\ origin' = [origin EXCEPT ![c] = job[r].grant]
  BY DEF Issue, FreshCodes, Generate
<1> DEFINE row == [grant |-> job[r].grant, expires |-> Now(r) + CodeTTL]
<1>2. job[r].grant \in Grant
  BY <1>0, JobTyped DEF Issue, Fits
<1>3. row \in CodeRow /\ row.grant = job[r].grant
  BY <1>0, <1>2, JobTyped, Limits DEF CodeRow
<1>4. Put(r, c, row)
  BY <1>1 DEF CreateCode
<1> HIDE DEF row
<1>5. c \in Key /\ c \in Ticket /\ c \notin Token /\ row \in Rows(c)
  BY <1>3, KeyKinds, KeysDisjoint DEF Key, Ticket
<1>6. Wrote(r, c) /\ Apart(r) /\ mine(r)'[c] = row
  BY <1>0, <1>4, <1>5, PutWrote, MineStored
<1>7. Others(r) /\ pc[r] = "issue" /\ pc'[r] = "reply" /\ answers' = answers
  BY <1>0, IssueMoves DEF Issue, IssueFacts
<1>8. Delivered' = Delivered /\ c \notin Delivered
  BY <1>0, <1>1, <1>7 DEF Delivered, Names, SentBeforeUse
<1>9. /\ OriginsKept /\ origin'[c] = job[r].grant
  BY <1>0, <1>1 DEF OriginsKept, Kept, LineInv, Typed, TypeOK, RequestsOK
<1>10. Joins(c, mine(r)', origin', Delivered, Unborn')
  BY <1>3, <1>5, <1>6, <1>9 DEF Joins
<1>11. JobLine(pc'[r], job'[r], mine(r)', origin')
  BY <1>7 DEF JobLine
<1>12. Unborn' \subseteq Unborn
  BY <1>1, <1>7, UnbornShrinks
<1> QED BY <1>5, <1>6, <1>7, <1>8, <1>9, <1>10, <1>11, <1>12, StepLine

\* A token is stored, by the exchange or the rotation that r has come to the end of.
LEMMA StoredLine ==
  ASSUME IInv, IInv', LineInv, NEW r \in Req, NEW t \in Token, NEW row \in TokenRow,
         Put(r, t, row), Others(r), pc[r] # "reply", pc'[r] = "reply", job'[r].new = t,
         generated \subseteq generated', origin' = origin, answers' = answers,
         t \in Unborn, t \in generated', \A q \in Req \ {r} : job[q].new # t, t \notin Delivered,
         row.from \in Delivered \cup {None}, Approved(row.grant, row.code, origin),
         row.from # None => row.from \in Token /\ Heir(mine(r)[row.from], t, row.code)
  PROVE  LineInv'
<1>0. Typed /\ Names /\ OnlyDeletes
  BY DEF IInv
<1>1. t \in Key /\ t \in Ticket /\ t \notin Code /\ row \in Rows(t)
  BY KeyKinds, KeysDisjoint DEF Key, Ticket
<1>2. Wrote(r, t) /\ Apart(r)
  BY <1>0, <1>1, PutWrote
<1>3. mine(r)'[t] = row /\ \A i \in Ticket \ {t} : mine(r)'[i] = mine(r)[i]
  BY <1>0, <1>1, MineStored
<1>4. Delivered' = Delivered
  BY DEF Delivered
<1>5. Unborn' \subseteq Unborn /\ t \notin Unborn'
  BY UnbornShrinks DEF Unborn, Others
<1>6. row.from # None => Heir(mine(r)'[row.from], t, row.code)
  <2>1. row.from # None => row.from \in Ticket \ {t}
    BY DEF Ticket
  <2> QED BY <1>3, <2>1
<1>7. Joins(t, mine(r)', origin', Delivered, Unborn')
  BY <1>1, <1>3, <1>5, <1>6 DEF Joins
<1>8. JobLine(pc'[r], job'[r], mine(r)', origin')
  BY DEF JobLine
<1> QED BY <1>2, <1>4, <1>5, <1>7, <1>8, SameOrigins, StepLine DEF Born

LEMMA MintLine ==
  ASSUME IInv, IInv', LineInv, NEW r \in Req, Mint(r)
  PROVE  LineInv'
<1>0. Typed /\ Names
  BY DEF IInv
<1>1. PICK t \in Token : MintFacts(r, t)
  BY <1>0, MintMoves
<1>2. job[r].grant \in Grant /\ job[r].key \in Code
  BY <1>0, JobTyped DEF Mint, Fits
<1> DEFINE row == NewToken(job[r].grant, job[r].key, None, Now(r))
<1>3. row \in TokenRow /\ row.grant = job[r].grant /\ row.code = job[r].key /\ row.from = None
  BY <1>0, <1>2, BornRow DEF NewToken
<1>4. Put(r, t, row)
  BY <1>1 DEF MintFacts, CreateRefreshToken
<1> HIDE DEF row
<1>5. /\ t \notin Delivered /\ t \in Unborn /\ t \in generated'
      /\ \A q \in Req \ {r} : job[q].new # t
  BY <1>0, <1>1, NoTicket DEF MintFacts, Names, NewIsSecret, SentBeforeUse, Unborn
<1>6. Approved(row.grant, row.code, origin)
  BY <1>3 DEF Mint, LineInv, JobLine
<1>7. /\ pc[r] # "reply" /\ pc'[r] = "reply" /\ job'[r].new = t /\ Others(r)
      /\ generated \subseteq generated' /\ origin' = origin /\ answers' = answers
  BY <1>0, <1>1, MintMoves DEF Mint, MintFacts, Rest
<1> QED BY <1>3, <1>4, <1>5, <1>6, <1>7, StoredLine

LEMMA ChainLine ==
  ASSUME IInv, IInv', LineInv, NEW r \in Req, Chain(r)
  PROVE  LineInv'
<1>0. Typed /\ Names
  BY DEF IInv
<1>1. /\ job[r].grant \in Grant /\ job[r].key \in Token
      /\ job[r].code \in Code /\ job[r].new \in Token
  BY <1>0, JobTyped DEF Chain, Fits
<1> DEFINE row == NewToken(job[r].grant, job[r].code, job[r].key, Now(r))
           n == job[r].new
<1>2. /\ row \in TokenRow
      /\ row.grant = job[r].grant /\ row.code = job[r].code /\ row.from = job[r].key
  BY <1>0, <1>1, BornRow DEF NewToken
<1>3. Put(r, n, row)
  BY <1>0, ChainMoves
<1> HIDE DEF row
<1>4. pc[r] = "chain" /\ job' = job /\ pc'[r] = "reply" /\ Others(r)
  BY <1>0, ChainMoves DEF Chain
<1>5. /\ n \notin Delivered /\ n \in Unborn /\ n \in generated'
      /\ \A q \in Req \ {r} : job[q].new # n
  BY <1>0, <1>1, <1>4, NoTicket, ChainMoves DEF Names, NewIsSecret, Unborn
<1>6. Approved(row.grant, row.code, origin) /\ Heir(mine(r)[row.from], n, row.code)
  BY <1>2, <1>4 DEF LineInv, JobLine
<1>7. row.from \in Delivered \cup {None} /\ row.from \in Token
  BY <1>0, <1>1, <1>2 DEF Names, SentBeforeUse
<1>8. generated \subseteq generated' /\ origin' = origin /\ answers' = answers
  BY DEF Chain, Rest
<1> QED BY <1>1, <1>2, <1>3, <1>4, <1>5, <1>6, <1>7, <1>8, StoredLine

LEMMA RetireLine ==
  ASSUME IInv, IInv', LineInv, NEW r \in Req, Retire(r)
  PROVE  LineInv'
<1>0. Typed /\ Names /\ OnlyDeletes
  BY DEF IInv
<1>1. pc[r] = "retire" /\ origin' = origin /\ answers' = answers /\ Others(r)
  BY <1>0, RetireMoves DEF Retire, Rest
<1>2. CASE Lapse(r)
  <2>1. Wrote(r, None) /\ Apart(r)
    BY <1>2, ReadWrote DEF Lapse, NoRow
  <2>2. JobLine(pc'[r], job'[r], mine(r)', origin)
    BY <1>2 DEF Lapse, JobLine
  <2> QED BY <1>1, <1>2, <2>1, <2>2, PlainLine DEF Lapse
<1>3. CASE ~Lapse(r)
  <2> DEFINE t == job[r].key
             old == Row(r, t)
  <2>1. PICK n \in Token : RetireFacts(r, n)
    BY <1>0, <1>3, RetireMoves
  <2>2. t \in Token /\ t \in Ticket /\ t \in Key
    BY <1>0, JobTyped DEF Retire, Fits, Ticket, Key
  <2>3. Live(old) /\ old \in TokenRow /\ old # Absent
    BY <1>0, <2>1, <2>2, RowTyped, KeyKinds DEF RetireFacts, Live
  <2> DEFINE row == [old EXCEPT !.revoked = TRUE, !.next = n]
             w == [NoWrites EXCEPT ![t] = row]
  <2>4. Aged(old, row) /\ row.next = n
    BY <1>0, <2>2, <2>3, AgedRow
  <2>5. Put(r, t, row) /\ row \in Rows(t)
    BY <1>0, <2>1, <2>2, <2>3, RetiredRow DEF RetireFacts, RetireToken
  <2> HIDE DEF row
  <2>6. /\ w \in [Key -> Cell \cup {Untouched}]
        /\ w[t] = row /\ \A k \in Key \ {t} : w[k] = Untouched
    BY <2>2, <2>5, KeyKinds DEF NoWrites
  <2>7. /\ \A c \in Code : w[c] \in {Absent, Untouched}
        /\ \A i \in Token : w[i] \in {Absent, Untouched} \/ Aged(Row(r, i), w[i])
    BY <2>2, <2>4, <2>6, KeysDisjoint DEF Key
  <2>8. Write(r, w, AutoCommit) /\ AutoCommit \in BOOLEAN
    BY <2>5, Limits DEF Put
  <2> HIDE DEF w
  <2>9. Wrote(r, None) /\ Apart(r)
    BY <1>0, <2>6, <2>7, <2>8, WriteWrote
  <2>10. pc'[r] = "chain" /\ job'[r].new = n /\ job'[r].key = t /\ job'[r].code = old.code
    BY <2>1 DEF RetireFacts
  <2>11. job'[r].grant = job[r].grant
    <3>1. ~Refuse(r)
      BY <1>0, <2>10, RefuseMoves
    <3>2. PICK i, c : Keep(r, [job[r] EXCEPT !.new = i, !.code = c])
      BY <3>1 DEF Retire
    <3> DEFINE j == [job[r] EXCEPT !.new = i, !.code = c]
    <3>3. j.grant = job[r].grant
      BY <1>0, JobTyped DEF Job
    <3> HIDE DEF j
    <3>4. Keep(r, j)
      BY <3>2 DEF j
    <3> QED BY <1>0, <3>3, <3>4, KeepMoves
  <2>12. Approved(job[r].grant, old.code, origin)
    <3>1. mine(r)[t] = old /\ view(r)[t] = old
      BY <1>0, <2>2, <2>3, MineIsSeen DEF view
    <3>2. Within(job[r].grant, old.grant)
      BY <1>1, <2>3, <3>1 DEF LineInv, JobLine
    <3>3. Approved(old.grant, old.code, origin)
      BY <2>2, <2>3, <3>1 DEF LineInv, InLine
    <3> QED BY <3>2, <3>3 DEF Approved, Within
  <2>13. mine(r)'[t] = row
    BY <1>0, <2>2, <2>5, MineStored
  <2>14. JobLine(pc'[r], job'[r], mine(r)', origin')
    BY <1>1, <2>4, <2>10, <2>11, <2>12, <2>13 DEF JobLine, Heir, Aged
  <2>15. Unborn' \subseteq Unborn /\ generated \subseteq generated'
    BY <1>1, <2>1, <2>10 DEF Unborn, Others, RetireFacts
  <2>16. None \notin Delivered /\ Joins(None, mine(r)', origin', Delivered, Unborn')
    BY <1>0, NoTicket DEF Joins
  <2>17. Delivered' = Delivered /\ None \notin Token
    BY <1>0, <1>1, NoTicket DEF Delivered
  <2> QED BY <1>1, <2>9, <2>14, <2>15, <2>16, <2>17, SameOrigins, StepLine
<1> QED BY <1>2, <1>3

-----------------------------------------------------------------------------
(* The end of a request. *)

LEMMA EndLine ==
  ASSUME IInv, LineInv, NEW r \in Req, Others(r), pc'[r] = "idle", OriginsKept, Versions',
         InLine(base', origin', Delivered', Unborn'),
         \A q \in Req : InLine(view(q)', origin', Delivered', Unborn'),
         \A q \in Req \ {r}, t \in Token \cap Delivered : Later(mine(q)[t], mine(q)'[t])
  PROVE  LineInv'
<1>1. \A q \in Req \ {r} : JobLine(pc'[q], job'[q], mine(q)', origin')
  BY WaitingJob DEF Others
<1>2. JobLine(pc'[r], job'[r], mine(r)', origin')
  BY DEF JobLine
<1> QED BY <1>1, <1>2 DEF LineInv, OriginsKept

\* Rows v, some of which are deleted, stay in line.
LEMMA StaysInLine ==
  ASSUME IInv, LineInv, OriginsKept, Delivered \subseteq Delivered', Unborn' \subseteq Unborn,
         NEW v, NEW w, RowsTyped(v), InLine(v, origin, Delivered, Unborn),
         \A k \in Ticket : w[k] \in {v[k], Absent}
  PROVE  InLine(w, origin', Delivered', Unborn')
<1> DEFINE o2 == origin'
           d2 == Delivered'
           u2 == Unborn'
<1>1. Kept(origin, o2) /\ Delivered \subseteq d2 /\ u2 \subseteq Unborn
  BY DEF OriginsKept
<1>2. None \notin Token /\ None \notin Code
  BY StoreConstants
<1>3. After(v, w, None) /\ Joins(None, w, o2, Delivered, u2)
  BY <1>2 DEF After, Joins, Later, Ticket
<1> HIDE DEF o2, d2, u2
<1>4. InLine(w, o2, d2, u2)
  BY <1>1, <1>3, InLineStep
<1> QED BY <1>4 DEF o2, d2, u2

\* Two transactions that wrote different rows of b, put together.
LEMMA MergeLine ==
  ASSUME NEW b, NEW v, NEW w, NEW m, NEW o, NEW d, NEW u,
         InLine(v, o, d, u), InLine(w, o, d, u), RowsTyped(v), RowsTyped(w),
         \A k \in Ticket : (m[k] = v[k] /\ w[k] = b[k]) \/ (m[k] = w[k] /\ v[k] = b[k]),
         \A t \in Token \cap d : Later(b[t], v[t]) /\ Later(b[t], w[t])
  PROVE  InLine(m, o, d, u)
<1>1. Code \subseteq Ticket /\ Token \subseteq Ticket
  BY DEF Ticket
<1>2. ASSUME NEW t \in Token, m[t] # Absent
      PROVE  /\ m[t].from \in d \cup {None} /\ t \notin u
             /\ Approved(m[t].grant, m[t].code, o)
             /\ m[t].from # None => m[t].from \in Token
             /\ m[t].from # None => \/ Heir(v[m[t].from], t, m[t].code)
                                    \/ Heir(w[m[t].from], t, m[t].code)
  <2>1. CASE m[t] = v[t]
    BY <1>2, <2>1 DEF InLine, LinkedIn, RowsTyped, TokenRow
  <2>2. CASE m[t] = w[t]
    BY <1>2, <2>2 DEF InLine, LinkedIn, RowsTyped, TokenRow
  <2> QED BY <1>1, <2>1, <2>2
<1>3. ASSUME NEW p \in Token \cap d, NEW t, NEW c, Heir(v[p], t, c) \/ Heir(w[p], t, c)
      PROVE  Heir(m[p], t, c)
  BY <1>1, <1>3 DEF Heir, Later, Aged, Live
<1>4. LinkedIn(m)
  BY <1>2, <1>3 DEF LinkedIn
<1>5. \A c \in Code : m[c] # Absent => m[c].grant = o[c]
  BY <1>1 DEF InLine
<1> QED BY <1>2, <1>4, <1>5 DEF InLine

\* What an open transaction holds of tokens that were sent is later than the committed rows.
LEMMA SentLater ==
  ASSUME IInv, LineInv, NEW r \in Req, NEW t \in Token \cap Delivered
  PROVE  Later(committed[t], Row(r, t))
<1>1. ~Newborn(r, t)
  BY NoTicket DEF Newborn, IInv, Names, NewIsSecret
<1> QED BY <1>1 DEF LineInv, Versions

LEMMA AutoEndLine ==
  ASSUME IInv, IInv', LineInv, NEW r \in Req, Others(r), pc'[r] = "idle", AutoCommit,
         origin' = origin, generated' = generated, Delivered \subseteq Delivered',
         \A k \in Ticket : committed'[k] \in {committed[k], Absent}
  PROVE  LineInv'
<1>0. Typed /\ Typed' /\ OnlyDeletes'
  BY DEF IInv
<1>1. OriginsKept /\ Unborn' \subseteq Unborn
  BY UnbornShrinks, SameOrigins
<1>2. \A k \in Ticket : base'[k] \in {base[k], Absent}
  BY DEF base
<1>3. RowsTyped(base) /\ InLine(base, origin, Delivered, Unborn)
  BY <1>0, LineRows DEF RowsTyped, LineInv, Ticket
<1>4. InLine(base', origin', Delivered', Unborn')
  BY <1>1, <1>2, <1>3, StaysInLine
<1>5. \A t \in Token : base'[t] \in TokenRow \cup {Absent}
  BY <1>2, <1>3 DEF RowsTyped, Ticket
<1>6. Versions' /\ \A q \in Req : InLine(view(q)', origin', Delivered', Unborn')
  BY <1>0, <1>4, <1>5, AutoLine
<1>7. \A q \in Req \ {r}, t \in Token \cap Delivered : Later(mine(q)[t], mine(q)'[t])
  BY <1>2 DEF mine, Later, Ticket
<1> QED BY <1>1, <1>4, <1>6, <1>7, EndLine

LEMMA FinishLine ==
  ASSUME IInv, IInv', LineInv, NEW r \in Req, Finish(r)
  PROVE  LineInv'
<1>0. Typed /\ OnlyDeletes /\ RowLocks /\ Ticket \subseteq Key
  BY DEF IInv, Key, Ticket
<1>1. /\ Others(r) /\ pc'[r] = "idle" /\ origin' = origin /\ generated' = generated
      /\ Delivered \subseteq Delivered'
  BY <1>0, EndMoves, FinishAnswers DEF Finish
<1>2. /\ \A k \in Ticket : committed'[k] = Row(r, k) /\ Row(r, k)' = Row(r, k)
      /\ \A q \in Req \ {r} : dirty'[q] = dirty[q]
  BY <1>0, CommitFacts DEF Row
<1>3. CASE AutoCommit
  <2>1. \A k \in Ticket : committed'[k] \in {committed[k], Absent}
    BY <1>0, <1>2, <1>3 DEF OnlyDeletes, Row
  <2> QED BY <1>1, <1>3, <2>1, AutoEndLine
<1>4. CASE ~AutoCommit
  <2>1. OriginsKept /\ Unborn' \subseteq Unborn
    BY <1>1, UnbornShrinks, SameOrigins
  <2>2. \A q \in Req : RowsTyped(view(q)) /\ InLine(view(q), origin, Delivered, Unborn)
    BY <1>0, LineRows DEF RowsTyped, LineInv, Ticket
  <2>3. \A k \in Ticket : base'[k] = view(r)[k] /\ view(r)'[k] = view(r)[k]
    BY <1>2 DEF base, view
  <2>4. /\ InLine(base', origin', Delivered', Unborn')
        /\ InLine(view(r)', origin', Delivered', Unborn')
    BY <1>1, <2>1, <2>2, <2>3, StaysInLine
  <2>5. ASSUME NEW q \in Req \ {r}, NEW k \in Ticket
        PROVE  \/ view(q)'[k] = view(r)[k] /\ view(q)[k] = base[k]
               \/ /\ view(q)'[k] = view(q)[k] /\ view(r)[k] = base[k]
                  /\ committed'[k] = committed[k]
    BY <1>0, <1>2 DEF RowLocks, Row, view, base
  <2>6. ASSUME NEW q \in Req, NEW t \in Token \cap Delivered
        PROVE  Later(base[t], view(q)[t])
    BY SentLater DEF base, view, Ticket
  <2>7. ASSUME NEW q \in Req \ {r}
        PROVE  InLine(view(q)', origin', Delivered', Unborn')
    <3> DEFINE m == view(q)'
    <3>1. \A k \in Ticket : (m[k] = view(r)[k] /\ view(q)[k] = base[k])
                            \/ (m[k] = view(q)[k] /\ view(r)[k] = base[k])
      BY <2>5
    <3> HIDE DEF m
    <3>2. InLine(m, origin, Delivered, Unborn)
      BY <2>2, <2>6, <3>1, MergeLine
    <3>3. RowsTyped(m)
      BY <2>2, <3>1 DEF RowsTyped, Ticket
    <3>4. InLine(m, origin', Delivered', Unborn')
      BY <1>1, <2>1, <3>2, <3>3, StaysInLine
    <3> QED BY <3>4 DEF m
  <2>8. Versions'
    <3>1. \A t \in Token : Later(committed'[t], Row(r, t)')
      BY <1>2 DEF Later, Ticket
    <3>2. ASSUME NEW q \in Req \ {r}, NEW t \in Token
          PROVE  (Later(committed[t], Row(q, t)) \/ Newborn(q, t))'
      <4>1. CASE dirty[q][t] = Untouched
        BY <1>2, <4>1 DEF Row, Later
      <4>2. CASE dirty[q][t] # Untouched
        <5>1. dirty[r][t] = Untouched
          BY <1>0, <4>2 DEF RowLocks, Ticket
        <5>2. committed'[t] = committed[t] /\ Row(q, t)' = Row(q, t)
          BY <1>2, <5>1 DEF Row, Ticket
        <5> QED BY <1>1, <5>2 DEF LineInv, Versions, Newborn, Others
      <4> QED BY <4>1, <4>2
    <3> QED BY <3>1, <3>2 DEF Versions
  <2>9. ASSUME NEW q \in Req \ {r}, NEW t \in Token \cap Delivered
        PROVE  Later(mine(q)[t], mine(q)'[t])
    <3>1. Later(view(q)[t], view(q)'[t])
      BY <2>5, <2>6 DEF Later, Ticket
    <3> QED BY <1>4, <3>1 DEF mine
  <2> QED BY <1>1, <2>1, <2>4, <2>7, <2>8, <2>9, EndLine
<1> QED BY <1>3, <1>4

LEMMA FailLine ==
  ASSUME IInv, IInv', LineInv, NEW r \in Req, Fail(r)
  PROVE  LineInv'
<1>0. Typed /\ Ticket \subseteq Key
  BY DEF IInv, Key, Ticket
<1>1. /\ Others(r) /\ pc'[r] = "idle" /\ origin' = origin /\ generated' = generated
      /\ answers' = answers /\ Delivered' = Delivered /\ committed' = committed
  BY <1>0, EndMoves DEF Fail, Rollback, Rest, Delivered
<1>2. CASE AutoCommit
  BY <1>1, <1>2, AutoEndLine
<1>3. CASE ~AutoCommit
  <2>1. OriginsKept /\ Unborn' \subseteq Unborn
    BY <1>1, UnbornShrinks, SameOrigins
  <2>2. /\ \A q \in Req \ {r} : dirty'[q] = dirty[q]
        /\ \A k \in Ticket : dirty'[r][k] = Untouched
    BY <1>0, FailQuiet DEF Quiet
  <2>3. base' = base /\ \A q \in Req \ {r} : view(q)' = view(q)
    BY <1>1, <2>2 DEF base, view, Row
  <2>4. \A k \in Ticket : view(r)'[k] = base[k]
    BY <1>1, <2>2 DEF base, view, Row
  <2>5. /\ RowsTyped(base) /\ InLine(base, origin, Delivered, Unborn)
        /\ \A q \in Req : RowsTyped(view(q)) /\ InLine(view(q), origin, Delivered, Unborn)
    BY <1>0, LineRows DEF RowsTyped, LineInv, Ticket
  <2>6. /\ InLine(base', origin', Delivered', Unborn')
        /\ InLine(view(r)', origin', Delivered', Unborn')
    BY <1>1, <2>1, <2>3, <2>4, <2>5, StaysInLine
  <2>7. \A q \in Req \ {r} : InLine(view(q)', origin', Delivered', Unborn')
    BY <1>1, <2>1, <2>3, <2>5, StaysInLine
  <2>8. Versions'
    BY <1>1, <2>2 DEF LineInv, Versions, Newborn, Others, Later, Row, Ticket
  <2>9. \A q \in Req \ {r}, t \in Token \cap Delivered : Later(mine(q)[t], mine(q)'[t])
    BY <1>3, <2>3 DEF mine, Later
  <2> QED BY <1>1, <2>1, <2>6, <2>7, <2>8, <2>9, EndLine
<1> QED BY <1>2, <1>3

-----------------------------------------------------------------------------
LEMMA NextLine == IInv /\ LineInv /\ [Next]_vars => LineInv'
<1> SUFFICES ASSUME IInv, LineInv, [Next]_vars PROVE LineInv'
  OBVIOUS
<1>0. IInv'
  BY NextIInv
<1>1. ASSUME NEW r \in Req, Step(r) PROVE LineInv'
  BY <1>0, <1>1, QuietLine, IssueLine, MintLine, RetireLine, ChainLine, FinishLine
     DEF Step, QuietStep
<1>2. ASSUME NEW r \in Req, Fail(r) \/ \E op \in AllOps : Begin(r, op) PROVE LineInv'
  BY <1>0, <1>2, FailLine, BeginLine
<1>3. CASE UNCHANGED <<committed, dirty, pc, job, generated, origin, answers>>
  BY <1>3 DEF LineInv, Versions, Newborn, base, view, mine, Row, Delivered, Unborn
<1> QED BY <1>1, <1>2, <1>3 DEF Next, Tick, Install, vars

LEMMA InitLine == Init => LineInv
<1> SUFFICES ASSUME Init PROVE LineInv
  OBVIOUS
<1>1. \A k \in Ticket : committed[k] = Absent /\ \A r \in Req : Row(r, k) = Absent
  BY KeysDisjoint, Limits DEF Init, PgInit, NoWrites, Row, Ticket, Key
<1>2. Versions
  BY <1>1 DEF Versions, Later, Ticket
<1>3. \A v : (\A k \in Ticket : v[k] = Absent) => InLine(v, origin, Delivered, Unborn)
  BY DEF InLine, LinkedIn, Ticket
<1>4. \A r \in Req : JobLine(pc[r], job[r], mine(r), origin)
  BY DEF Init, JobLine
<1>5. \A k \in Ticket : base[k] = Absent /\ \A r \in Req : view(r)[k] = Absent
  BY <1>1 DEF base, view
<1> QED BY <1>2, <1>3, <1>4, <1>5 DEF LineInv, Init

\* Both ends of a rotation agree about it: a stored successor names the token it replaced,
\* which is revoked in its favour and of one family, unless it was deleted meanwhile
\* (rotate_refresh_token).
THEOREM Chained == Spec => []ChainsLinked
<1>1. IInv /\ LineInv => ChainsLinked
  <2> SUFFICES ASSUME IInv, LineInv, NEW t \in Token, committed[t] # Absent, committed[t].from # None
               PROVE  Heir(committed[committed[t].from], t, committed[t].code)
    BY DEF ChainsLinked, Heir
  <2>1. base[t] = committed[t] /\ committed[t] \in TokenRow
    BY LineRows DEF IInv, Ticket
  <2>2. committed[t].from \in Token
    BY <2>1 DEF TokenRow
  <2>3. base[committed[t].from] = committed[committed[t].from]
    BY <2>2 DEF base, Ticket
  <2> QED BY <2>1, <2>3 DEF LineInv, InLine, LinkedIn
<1> QED BY <1>1, InitIInv, NextIInv, InitLine, NextLine, PTL DEF Spec

\* However often a grant is narrowed by exchange and rotations, concurrent and failing
\* ones, its tokens stay within what the user approved for the code (token.py).
THEOREM StaysApproved == Spec => []WithinApproved
<1>1. LineInv => WithinApproved
  BY DEF LineInv, InLine, base, Ticket, Approved, Within, WithinApproved
<1> QED BY <1>1, InitIInv, NextIInv, InitLine, NextLine, PTL DEF Spec
=============================================================================
