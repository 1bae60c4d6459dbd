--------------------------- MODULE RefinementProofs ---------------------------
(***************************************************************************)
(* OAuthGrants implements GrantLife: the proof of ImplementsGrantLife.     *)
(*                                                                         *)
(* By OneRightPerGrant at most one code, token or request Held a grant, so *)
(* a step is known by what it does to that.  In transactions only a commit *)
(* does anything: it issues a code, hands one grant on or ends grants.     *)
(* Statement by statement a code is issued when it is stored, its grant is *)
(* handed on when the next token is stored, and ends when the row or the   *)
(* request that carries it goes.                                           *)
(***************************************************************************)
EXTENDS GrantRefinement, SuccessionProofs

\* x stands for the right of code c.
Held(c, x) ==
  \/ x = c /\ committed[c] # Absent
  \/ x \in LiveTokens(c)
  \/ \E r \in Req : Carries(r, c) /\ job[r].key = x

HolderFacts ==
  \A c \in Code :
     /\ \A x : Held(c, x) => Holder(c) = x /\ Holder(c) \notin {None, Absent}
     /\ (\A x : ~Held(c, x)) => Holder(c) = IF WasIssued(c) THEN Absent ELSE None

LEMMA HolderIs == Typed /\ OneRightPerGrant => HolderFacts
<1> SUFFICES ASSUME Typed, OneRightPerGrant, NEW c \in Code
             PROVE  /\ \A x : Held(c, x) => Holder(c) = x /\ Holder(c) \notin {None, Absent}
                    /\ (\A x : ~Held(c, x)) => Holder(c) = IF WasIssued(c) THEN Absent ELSE None
  BY DEF HolderFacts
<1> USE StoreConstants, HolderKinds, KeysDisjoint
<1>1. ASSUME committed[c] # Absent
      PROVE  c \in Rights(c) /\ Holder(c) = c
  BY <1>1 DEF Rights, Holder
<1>2. ASSUME NEW t \in LiveTokens(c)
      PROVE  t \in Token /\ t \in Rights(c) /\ committed[c] = Absent /\ Holder(c) = t
  <2>1. t \in Token /\ t \in Rights(c)
    BY <1>2 DEF Rights, LiveTokens
  <2>2. committed[c] = Absent
    BY <1>1, <2>1 DEF OneRightPerGrant
  <2> DEFINE h == CHOOSE u \in LiveTokens(c) : TRUE
  <2>3. h \in LiveTokens(c)
    BY <1>2
  <2>4. h \in Rights(c)
    BY <2>3 DEF Rights
  <2>5. h = t
    BY <2>1, <2>4 DEF OneRightPerGrant
  <2> QED BY <1>2, <2>1, <2>2, <2>5 DEF Holder
<1>3. ASSUME NEW r \in Req, Carries(r, c)
      PROVE  Holder(c) = job[r].key /\ job[r].key \in Code \cup Token
  <2>1. r \in Rights(c)
    BY <1>3 DEF Rights
  <2>2. committed[c] = Absent
    BY <1>1, <2>1 DEF OneRightPerGrant
  <2>3. LiveTokens(c) = {}
    BY <1>2, <2>1 DEF OneRightPerGrant
  <2> DEFINE q == CHOOSE p \in Req : Carries(p, c)
  <2>4. q \in Req /\ Carries(q, c)
    BY <1>3
  <2>5. q \in Rights(c)
    BY <2>4 DEF Rights
  <2>6. q = r
    BY <2>1, <2>5 DEF OneRightPerGrant
  <2>7. Holder(c) = job[q].key
    BY <1>3, <2>2, <2>3 DEF Holder
  <2>8. job[r].key \in Code \cup Token
    BY <1>3, JobTyped DEF Carries, Fits
  <2> QED BY <2>6, <2>7, <2>8
<1>4. ASSUME NEW x, Held(c, x)
      PROVE  Holder(c) = x /\ x \in Code \cup Token
  BY <1>1, <1>2, <1>3, <1>4 DEF Held
<1>5. ASSUME \A x : ~Held(c, x)
      PROVE  Holder(c) = IF WasIssued(c) THEN Absent ELSE None
  BY <1>5 DEF Held, Holder
<1> QED BY <1>4, <1>5

LEMMA HolderWillBe == Typed' /\ OneRightPerGrant' => HolderFacts'
BY HolderIs, PTL

-----------------------------------------------------------------------------
(* What the steps of GrantLife look like from the rows. *)

LEMMA EndMaps ==
  ASSUME \A c \in Code : \/ Holder(c)' = Holder(c)
                         \/ Holder(c) \notin {None, Absent} /\ Holder(c)' = Absent,
         \A t \in Token : WasStored(t) => WasStored(t)'
  PROVE  Life!Next
<1> DEFINE C == {c \in Code : Holder(c)' # Holder(c)}
           T == {t \in Token : WasStored(t)'}
           old == [c \in Code |-> Holder(c)]
           new == [c \in Code |-> Holder(c)']
<1>1. C \in SUBSET Code /\ T \in SUBSET Token
  OBVIOUS
<1>2. \A c \in C : old[c] \notin {None, Absent}
  OBVIOUS
<1>3. new = [c \in Code |-> IF c \in C THEN Absent ELSE old[c]]
  OBVIOUS
<1>4. {t \in Token : WasStored(t)'} = {t \in Token : WasStored(t)} \cup T
  OBVIOUS
<1> HIDE DEF C, T
<1>5. Life!End(C, T)
  BY <1>2, <1>3, <1>4 DEF Life!End
<1> QED BY <1>1, <1>5 DEF Life!Next

LEMMA HandOnMaps ==
  ASSUME NEW k \in Code, NEW n \in Token, Holder(k) \notin {None, Absent}, Holder(k)' = n,
         \A c \in Code \ {k} : Holder(c)' = Holder(c),
         ~WasStored(n), \A t \in Token : WasStored(t)' <=> WasStored(t) \/ t = n
  PROVE  Life!Next
<1>1. Life!HandOn(k, n)
  BY DEF Life!HandOn
<1> QED BY <1>1 DEF Life!Next

LEMMA IssueMaps ==
  ASSUME NEW k \in Code, Holder(k) = None, Holder(k)' = k,
         \A c \in Code \ {k} : Holder(c)' = Holder(c),
         \A t \in Token : WasStored(t)' <=> WasStored(t)
  PROVE  Life!Next
<1>1. Life!Issue(k)
  BY DEF Life!Issue
<1> QED BY <1>1 DEF Life!Next

\* A grant that is held has been issued.
Issued == \A c \in Code : \A x : Held(c, x) => WasIssued(c)

SameGrant(c) ==
  /\ WasIssued(c)' <=> WasIssued(c)
  /\ \A x : Held(c, x)' <=> Held(c, x)

LEMMA SameHolder ==
  ASSUME HolderFacts, HolderFacts', NEW c \in Code, SameGrant(c)
  PROVE  Holder(c)' = Holder(c)
<1>1. CASE \E x : Held(c, x)
  <2>1. PICK x : Held(c, x)
    BY <1>1
  <2>2. Held(c, x)'
    BY <2>1 DEF SameGrant
  <2> QED BY <2>1, <2>2 DEF HolderFacts
<1>2. CASE \A x : ~Held(c, x)
  BY <1>2 DEF HolderFacts, SameGrant
<1> QED BY <1>1, <1>2

\* A step that at most ends rights.
LEMMA Dwindles ==
  ASSUME IInv, IInv', Issued,
         \A c \in Code : /\ WasIssued(c)' <=> WasIssued(c)
                         /\ \A x : Held(c, x)' => Held(c, x),
         \A t \in Token : WasStored(t) => WasStored(t)'
  PROVE  Life!Next
<1>0. HolderFacts /\ HolderFacts'
  BY HolderIs, HolderWillBe DEF IInv
<1>1. ASSUME NEW c \in Code
      PROVE  \/ Holder(c)' = Holder(c)
             \/ Holder(c) \notin {None, Absent} /\ Holder(c)' = Absent
  <2>1. CASE \E x : Held(c, x) /\ ~Held(c, x)'
    <3>1. PICK x : Held(c, x) /\ ~Held(c, x)'
      BY <2>1
    <3>2. WasIssued(c)' /\ Holder(c) = x /\ Holder(c) \notin {None, Absent}
      BY <1>0, <3>1 DEF Issued, HolderFacts
    <3>3. \A y : ~Held(c, y)'
      BY <1>0, <3>1, <3>2 DEF HolderFacts
    <3> QED BY <1>0, <3>2, <3>3 DEF HolderFacts
  <2>2. CASE ~\E x : Held(c, x) /\ ~Held(c, x)'
    BY <1>0, <2>2, SameHolder DEF SameGrant
  <2> QED BY <2>1, <2>2
<1> QED BY <1>1, EndMaps

\* A step by which token n takes over.
LEMMA Passes ==
  ASSUME IInv, IInv', NEW k \in Code, NEW n \in Token, NEW old, Held(k, old), Held(k, n)',
         \A c \in Code \ {k} : SameGrant(c),
         ~WasStored(n), \A t \in Token : WasStored(t)' <=> WasStored(t) \/ t = n
  PROVE  Life!Next
<1>0. HolderFacts /\ HolderFacts'
  BY HolderIs, HolderWillBe DEF IInv
<1>1. Holder(k) \notin {None, Absent} /\ Holder(k)' = n
  BY <1>0 DEF HolderFacts
<1> QED BY <1>0, <1>1, SameHolder, HandOnMaps

\* A step by which code k comes to life.
LEMMA Starts ==
  ASSUME IInv, IInv', NEW k \in Code, \A x : ~Held(k, x), ~WasIssued(k), Held(k, k)',
         \A c \in Code \ {k} : SameGrant(c),
         \A t \in Token : WasStored(t)' <=> WasStored(t)
  PROVE  Life!Next
<1>0. HolderFacts /\ HolderFacts'
  BY HolderIs, HolderWillBe DEF IInv
<1>1. Holder(k) = None /\ Holder(k)' = k
  BY <1>0 DEF HolderFacts
<1> QED BY <1>0, <1>1, SameHolder, IssueMaps

-----------------------------------------------------------------------------
(* The codes and tokens that an open transaction has written. *)

Unwritten(r, T) == \A k \in T : dirty[r][k] = Untouched

Footprint(r) ==
  /\ pc[r] \in {"idle", "authorize", "consent", "approve", "issue", "exchange", "consume",
                "rotate", "retire"} => Unwritten(r, Ticket)
  /\ pc[r] \in {"mint", "chain"} => Unwritten(r, Ticket \ {job[r].key})
  /\ pc[r] = "reply" /\ job[r].new # None =>
       /\ Unwritten(r, Ticket \ {job[r].key, job[r].new})
       /\ job[r].new \in Code => job[r].key = None /\ dirty[r][job[r].new] \notin {Absent, Untouched}
       /\ job[r].new \in Token => Fruitful(dirty[r][job[r].new])

\* A transaction that will hand a right on, or issue a code, writes no other rows, and
\* what is stored is sent when it is committed.
OwnWrites ==
  ~AutoCommit => /\ \A r \in Req : Footprint(r)
                 /\ \A k \in Ticket : committed[k] # Absent => k \in Delivered

LEMMA InitOwn == Init => OwnWrites
<1> SUFFICES ASSUME Init PROVE OwnWrites
  OBVIOUS
<1>1. \A k \in Ticket : k \in Key /\ committed[k] = Absent
  BY KeysDisjoint, Limits DEF Init, PgInit, Ticket, Key
<1>2. \A r \in Req : Unwritten(r, Ticket) /\ pc[r] = "idle"
  BY <1>1 DEF Init, PgInit, NoWrites, Unwritten
<1> QED BY <1>1, <1>2 DEF OwnWrites, Footprint

\* A step of r before its commit.
LEMMA OwnStep ==
  ASSUME ~AutoCommit, OwnWrites, NEW r \in Req, Others(r), committed' = committed,
         Delivered' = Delivered, \A q \in Req \ {r} : dirty'[q] = dirty[q], Footprint(r)'
  PROVE  OwnWrites'
<1>1. ASSUME NEW q \in Req \ {r} PROVE Footprint(q)'
  BY <1>1 DEF OwnWrites, Footprint, Unwritten, Others
<1> QED BY <1>1 DEF OwnWrites

LEMMA QuietOwn ==
  ASSUME ~AutoCommit, IInv, UseInv, OwnWrites, NEW r \in Req, QuietStep(r)
  PROVE  OwnWrites'
<1>0. Typed
  BY DEF IInv
<1>1. Others(r) /\ pc'[r] \notin {"mint", "chain"} /\ Quiet(r) /\ job'[r].new = None
  BY <1>0, QuietMoves, QuietSteps, QuietProper DEF UseInv, Handing
<1>2. answers' = answers
  BY DEF QuietStep, Rest, Register, Authorize, Decide, Approve, Exchange, Replayed,
         Rotate, Revoke, Family, Revoking, Forget, Consents, Withdraw, Sessions, Select, Purge
<1>3. Footprint(r)'
  <2>1. CASE Authorize(r) \/ Decide(r) \/ Exchange(r) \/ Rotate(r) \/ Revoke(r) \/ Consents(r)
             \/ Replayed(r) \/ Family(r) \/ Sessions(r) \/ Select(r)
    <3>1. dirty' = dirty
      BY <2>1 DEF Authorize, Decide, Exchange, Rotate, Revoke, Consents, Replayed, Family, Sessions, Select
    <3>2. \/ pc[r] \in {"authorize", "consent", "exchange", "rotate"}
          \/ \E label \in {"reply", "family", "withdraw", "revoking", "purge"} : Goto(r, label)
      BY <2>1 DEF Authorize, Decide, Exchange, Rotate, Revoke, Consents, Replayed, Family, Sessions,
                  Select, Refuse
    <3> QED BY <1>0, <1>1, <3>1, <3>2, GotoMoves DEF OwnWrites, Footprint, Unwritten
  <2>2. CASE Approve(r)
    <3> DEFINE g == job[r].grant
               row == [expires |-> IF ConsentTTL = 0 THEN Never ELSE Now(r) + ConsentTTL]
    <3>1. g \in Grant /\ row \in ConsentRow
      BY <1>0, <2>2, JobTyped, Limits DEF Approve, Fits, ConsentRow
    <3>2. g \in Key /\ row \in Rows(g) /\ StoreOK
      BY <1>0, <3>1, KeyKinds DEF Key, ConsentKey, Typed, TypeOK
    <3>3. Put(r, g, row)
      BY <2>2 DEF Approve, CreateConsent
    <3> HIDE DEF row
    <3>4. \A k \in Key \ {g} : dirty'[r][k] = dirty[r][k]
      BY <3>2, <3>3, PutFacts
    <3>5. \A k \in Ticket : k \in Key \ {g}
      BY <3>1, KeysDisjoint DEF Ticket, Key
    <3>6. Unwritten(r, Ticket)
      BY <2>2 DEF OwnWrites, Footprint, Approve
    <3> QED BY <1>1, <3>4, <3>5, <3>6 DEF Footprint, Unwritten
  <2>3. CASE Register(r) \/ Revoking(r) \/ Forget(r) \/ Withdraw(r) \/ Purge(r)
    <3>1. \E label \in {"reply", "forget", "sessions", "select"} : Goto(r, label)
      BY <2>3 DEF Register, Revoking, AfterRevoking, Forget, Withdraw, Purge
    <3> QED BY <1>0, <1>1, <3>1, GotoMoves DEF Footprint
  <2> QED BY <2>1, <2>2, <2>3 DEF QuietStep
<1> QED BY <1>1, <1>2, <1>3, OwnStep DEF Quiet, Delivered

\* What one statement writes in an open transaction.
LEMMA OwnPut ==
  ASSUME ~AutoCommit, Typed, NEW r \in Req, NEW k \in Ticket, NEW row \in Rows(k), Put(r, k, row)
  PROVE  /\ committed' = committed /\ \A q \in Req \ {r} : dirty'[q] = dirty[q]
         /\ dirty'[r][k] = row /\ \A i \in Ticket \ {k} : dirty'[r][i] = dirty[r][i]
<1>1. StoreOK /\ Ticket \subseteq Key
  BY DEF Typed, TypeOK, Ticket, Key
<1> QED BY <1>1, PutFacts

LEMMA ConsumeOwn ==
  ASSUME ~AutoCommit, IInv, UseInv, OwnWrites, NEW r \in Req, Consume(r)
  PROVE  OwnWrites'
<1> DEFINE c == job[r].key
<1>0. Typed /\ pc[r] = "consume" /\ Unwritten(r, Ticket) /\ job[r].new = None
  BY DEF IInv, Consume, OwnWrites, Footprint, UseInv, Handing, Proper
<1>1. Others(r) /\ job' = job /\ Delivered' = Delivered
  BY <1>0, ConsumeMoves DEF Consume, Rest, Delivered
<1>2. c \in Ticket /\ Absent \in Rows(c)
  BY <1>0, JobTyped, KeyKinds DEF Fits, Ticket, Key
<1>3. CASE Lapse(r)
  <2>1. Footprint(r)'
    BY <1>0, <1>1, <1>3 DEF Lapse, Footprint
  <2> QED BY <1>1, <1>3, <2>1, OwnStep DEF Lapse, NoRow
<1>4. CASE ~Lapse(r)
  <2>1. pc'[r] = "mint" /\ Put(r, c, Absent)
    BY <1>0, <1>4, ConsumeMoves DEF ConsumeCode
  <2>2. /\ committed' = committed /\ \A q \in Req \ {r} : dirty'[q] = dirty[q]
        /\ \A i \in Ticket \ {c} : dirty'[r][i] = dirty[r][i]
    BY <1>0, <1>2, <2>1, OwnPut
  <2>3. Footprint(r)'
    BY <1>0, <1>1, <2>1, <2>2 DEF Footprint, Unwritten
  <2> QED BY <1>1, <2>2, <2>3, OwnStep
<1> QED BY <1>3, <1>4

LEMMA RetireOwn ==
  ASSUME ~AutoCommit, IInv, OwnWrites, NEW r \in Req, Retire(r)
  PROVE  OwnWrites'
<1> DEFINE t == job[r].key
<1>0. Typed /\ pc[r] = "retire" /\ Unwritten(r, Ticket)
  BY DEF IInv, Retire, OwnWrites, Footprint
<1>1. Others(r) /\ Delivered' = Delivered /\ t \in Token /\ t \in Ticket
  BY <1>0, RetireMoves, JobTyped DEF Retire, Rest, Delivered, Fits, Ticket
<1>2. CASE NoRow /\ Refuse(r)
  <2>1. Footprint(r)'
    BY <1>0, <1>2, RefusedJob DEF Footprint
  <2> QED BY <1>1, <1>2, <2>1, OwnStep DEF NoRow
<1>3. CASE ~(NoRow /\ Refuse(r))
  <2>1. Live(Row(r, t)) /\ t \in Key
    BY <1>1, <1>3 DEF Retire, Rotatable, RefreshValid, Key
  <2>2. PICK n \in Token \ generated :
          /\ RetireToken(r, t, n)
          /\ Keep(r, [job[r] EXCEPT !.new = n, !.code = Row(r, t).code])
          /\ Goto(r, "chain")
    BY <1>3 DEF Retire, FreshTokens
  <2> DEFINE row == [Row(r, t) EXCEPT !.revoked = TRUE, !.next = n]
             code == Row(r, t).code
             j == [job[r] EXCEPT !.new = n, !.code = code]
  <2>3. row \in Rows(t)
    BY <1>0, <1>1, <2>1, RetiredRow DEF Live
  <2>4. Put(r, t, row)
    BY <2>2 DEF RetireToken
  <2> HIDE DEF row, code
  <2>5. j.key = t
    BY <1>0, JobTyped DEF Job
  <2> HIDE DEF j
  <2>6. job'[r].key = t /\ pc'[r] = "chain"
    <3>1. Keep(r, j)
      BY <2>2 DEF j, code
    <3> QED BY <1>0, <2>2, <2>5, <3>1, KeepMoves, GotoMoves
  <2>7. /\ committed' = committed /\ \A q \in Req \ {r} : dirty'[q] = dirty[q]
        /\ \A i \in Ticket \ {t} : dirty'[r][i] = dirty[r][i]
    BY <1>0, <1>1, <2>3, <2>4, OwnPut
  <2>8. Footprint(r)'
    BY <1>0, <2>6, <2>7 DEF Footprint, Unwritten
  <2> QED BY <1>1, <2>7, <2>8, OwnStep
<1> QED BY <1>2, <1>3

\* The token that an exchange or a rotation stores.
LEMMA BornOwn ==
  ASSUME ~AutoCommit, Typed, OwnWrites, NEW r \in Req, Others(r), Delivered' = Delivered,
         pc[r] \in {"mint", "chain"}, pc'[r] = "reply", job'[r].key = job[r].key,
         NEW t \in Token, job'[r].new = t,
         NEW row \in Rows(t), Put(r, t, row), Live(row), row # Untouched
  PROVE  OwnWrites'
<1>1. t \in Ticket /\ t \notin Code
  BY KeysDisjoint DEF Ticket
<1>2. /\ committed' = committed /\ \A q \in Req \ {r} : dirty'[q] = dirty[q]
      /\ dirty'[r][t] = row /\ \A i \in Ticket \ {t} : dirty'[r][i] = dirty[r][i]
  BY <1>1, OwnPut
<1>3. Unwritten(r, Ticket \ {job[r].key})
  BY DEF OwnWrites, Footprint
<1>4. Footprint(r)'
  BY <1>1, <1>2, <1>3 DEF Footprint, Unwritten, Fruitful
<1> QED BY <1>2, <1>4, OwnStep

LEMMA MintOwn ==
  ASSUME ~AutoCommit, IInv, OwnWrites, NEW r \in Req, Mint(r)
  PROVE  OwnWrites'
<1>0. Typed
  BY DEF IInv
<1>1. PICK t \in Token : MintFacts(r, t)
  BY <1>0, MintMoves
<1> DEFINE row == NewToken(job[r].grant, job[r].key, None, Now(r))
<1>2. /\ Others(r) /\ pc[r] = "mint" /\ job[r].grant \in Grant /\ job[r].key \in Code
      /\ Delivered' = Delivered
  BY <1>0, MintMoves, JobTyped DEF Mint, Fits, Rest, Delivered
<1>3. row \in TokenRow /\ Live(row) /\ row # Untouched
  BY <1>0, <1>2, BornRow
<1>4. Put(r, t, row)
  BY <1>1 DEF MintFacts, CreateRefreshToken
<1> HIDE DEF row
<1>5. row \in Rows(t)
  BY <1>3, KeyKinds DEF Key
<1> QED BY <1>0, <1>1, <1>2, <1>3, <1>4, <1>5, BornOwn DEF MintFacts

LEMMA ChainOwn ==
  ASSUME ~AutoCommit, IInv, OwnWrites, NEW r \in Req, Chain(r)
  PROVE  OwnWrites'
<1>0. Typed
  BY DEF IInv
<1> DEFINE t == job[r].new
           row == NewToken(job[r].grant, job[r].code, job[r].key, Now(r))
<1>1. /\ Others(r) /\ job' = job /\ pc[r] = "chain" /\ pc'[r] = "reply" /\ Put(r, t, row)
      /\ job[r].grant \in Grant /\ job[r].code \in Code /\ job[r].key \in Token
      /\ t \in Token /\ Delivered' = Delivered
  BY <1>0, ChainMoves, JobTyped DEF Chain, Fits, Rest, Delivered
<1>2. row \in TokenRow /\ Live(row) /\ row # Untouched
  BY <1>0, <1>1, BornRow
<1> HIDE DEF row
<1>3. row \in Rows(t)
  BY <1>1, <1>2, KeyKinds DEF Key
<1> QED BY <1>0, <1>1, <1>2, <1>3, BornOwn

LEMMA IssueOwn ==
  ASSUME ~AutoCommit, IInv, UseInv, OwnWrites, NEW r \in Req, Issue(r)
  PROVE  OwnWrites'
<1>0. Typed /\ pc[r] = "issue" /\ Unwritten(r, Ticket) /\ job[r].key = None
  BY DEF IInv, Issue, OwnWrites, Footprint, UseInv, Handing, Proper
<1>1. PICK c \in Code : IssueFacts(r, c)
  BY <1>0, IssueMoves
<1> DEFINE row == [grant |-> job[r].grant, expires |-> Now(r) + CodeTTL]
<1>2. Others(r) /\ job[r].grant \in Grant /\ Delivered' = Delivered
  BY <1>0, IssueMoves, JobTyped DEF Issue, Fits, Delivered
<1>3. row \in CodeRow
  BY <1>0, <1>2, JobTyped, Limits DEF CodeRow
<1>4. Put(r, c, row)
  BY <1>1 DEF IssueFacts, CreateCode
<1> HIDE DEF row
<1>5. row \in Rows(c) /\ c \in Ticket /\ c \notin Token /\ row \notin {Absent, Untouched}
  BY <1>3, KeyKinds, KeysDisjoint, StoreConstants DEF Key, Ticket
<1>6. /\ committed' = committed /\ \A q \in Req \ {r} : dirty'[q] = dirty[q]
      /\ dirty'[r][c] = row /\ \A i \in Ticket \ {c} : dirty'[r][i] = dirty[r][i]
  BY <1>0, <1>4, <1>5, OwnPut
<1>7. Footprint(r)'
  BY <1>0, <1>1, <1>5, <1>6 DEF IssueFacts, Footprint, Unwritten
<1> QED BY <1>2, <1>6, <1>7, OwnStep

LEMMA FailOwn ==
  ASSUME ~AutoCommit, IInv, OwnWrites, NEW r \in Req, Fail(r)
  PROVE  OwnWrites'
<1>0. Typed
  BY DEF IInv
<1>1. Others(r) /\ pc'[r] = "idle" /\ \A k \in Key : dirty'[r][k] = Untouched
  BY <1>0, EndMoves, FailQuiet
<1>2. Footprint(r)'
  BY <1>1 DEF Footprint, Unwritten, Ticket, Key
<1>3. committed' = committed /\ Delivered' = Delivered /\ \A q \in Req \ {r} : dirty'[q] = dirty[q]
  BY <1>0, FailQuiet DEF Fail, Rollback, Rest, Delivered, Quiet
<1> QED BY <1>1, <1>2, <1>3, OwnStep

LEMMA BeginOwn ==
  ASSUME ~AutoCommit, IInv, OwnWrites, NEW r \in Req, NEW op \in AllOps, Begin(r, op)
  PROVE  OwnWrites'
<1>0. Typed /\ Unwritten(r, Ticket)
  BY DEF IInv, Begin, OwnWrites, Footprint
<1>1. /\ Others(r) /\ pc'[r] \notin {"mint", "chain", "reply"} /\ Delivered' = Delivered
      /\ UNCHANGED <<committed, dirty>>
  BY <1>0, BeginMoves DEF Begin, Rest, Delivered
<1>2. Footprint(r)'
  BY <1>0, <1>1 DEF Footprint, Unwritten
<1> QED BY <1>1, <1>2, OwnStep

\* What a transaction stores is what its request sends with the commit.
LEMMA FinishOwn ==
  ASSUME ~AutoCommit, IInv, LineInv, OwnWrites, NEW r \in Req, Finish(r)
  PROVE  OwnWrites'
<1>0. Typed /\ Paid /\ pc[r] = "reply"
  BY DEF IInv, Finish
<1>1. /\ Others(r) /\ pc'[r] = "idle" /\ Delivered' = Delivered \cup ({job[r].new} \ {None})
      /\ \A q \in Req \ {r} : dirty'[q] = dirty[q]
      /\ \A k \in Ticket : /\ committed'[k] = Row(r, k) /\ dirty'[r][k] = Untouched
                           /\ k \in Key /\ k # None
  BY <1>0, EndMoves, FinishAnswers, CommitFacts, StoreConstants DEF Row, Ticket, Key
<1>2. \A k \in Ticket : Row(r, k) # Absent => k \in Delivered \/ job[r].new = k
  <2>1. \A c \in Code : dirty[r][c] \in {Absent, Untouched} \/ job[r].new = c
    BY <1>0 DEF Paid, PaidBy
  <2>2. \A t \in Token : Row(r, t) # Absent => committed[t] # Absent \/ job[r].new = t
    BY DEF LineInv, Versions, Newborn, Later, Aged, Live
  <2> QED BY <2>1, <2>2 DEF OwnWrites, Ticket, Row
<1>3. \A k \in Ticket : committed'[k] # Absent => k \in Delivered'
  BY <1>1, <1>2
<1>4. \A q \in Req : Footprint(q)'
  BY <1>1 DEF OwnWrites, Footprint, Unwritten, Others
<1> QED BY <1>3, <1>4 DEF OwnWrites

LEMMA NextOwn == IInv /\ UseInv /\ LineInv /\ OwnWrites /\ [Next]_vars => OwnWrites'
<1> SUFFICES ASSUME ~AutoCommit, IInv, UseInv, LineInv, OwnWrites, [Next]_vars PROVE OwnWrites'
  BY DEF OwnWrites
<1>1. ASSUME NEW r \in Req, Step(r) PROVE OwnWrites'
  BY <1>1, QuietOwn, IssueOwn, ConsumeOwn, MintOwn, RetireOwn, ChainOwn, FinishOwn
     DEF Step, QuietStep
<1>2. ASSUME NEW r \in Req, Fail(r) \/ \E op \in AllOps : Begin(r, op) PROVE OwnWrites'
  BY <1>2, FailOwn, BeginOwn
<1>3. CASE UNCHANGED <<committed, dirty, pc, job, answers>>
  BY <1>3 DEF OwnWrites, Footprint, Unwritten, Delivered
<1> QED BY <1>1, <1>2, <1>3 DEF Next, Tick, Install, vars

-----------------------------------------------------------------------------
(* Every step maps to one of GrantLife. *)

LEMMA HeldIssued ==
  ASSUME IInv, LineInv, OwnWrites
  PROVE  Issued
<1> SUFFICES ASSUME NEW c \in Code, NEW x, Held(c, x) PROVE WasIssued(c)
  BY DEF Issued
<1>0. Typed /\ Names /\ None \notin Grant
  BY StoreConstants DEF IInv
<1>1. CASE committed[c] # Absent
  <2>1. c \in Ticket /\ base[c] = committed[c] /\ base[c] \in CodeRow
    BY <1>0, <1>1, LineRows DEF Ticket
  <2>2. base[c].grant = origin[c]
    BY <1>1, <2>1 DEF LineInv, InLine
  <2>3. origin[c] # None
    BY <1>0, <2>1, <2>2 DEF CodeRow
  <2> QED BY <1>1, <2>1, <2>3 DEF WasIssued, OwnWrites
<1>2. CASE x \in LiveTokens(c)
  <2>1. x \in Token /\ x \in Ticket /\ committed[x] # Absent /\ committed[x].code = c
    BY <1>2 DEF LiveTokens, Live, Ticket
  <2>2. origin[c] # None
    BY <2>1 DEF LineInv, InLine, base, Approved
  <2>3. c \in Delivered
    BY <1>0, <2>1 DEF Names, SentBeforeUse
  <2> QED BY <2>2, <2>3 DEF WasIssued
<1>3. ASSUME NEW r \in Req, Carries(r, c) PROVE WasIssued(c)
  BY <1>3 DEF Carries, LineInv, JobLine, Approved, WasIssued
<1> QED BY <1>1, <1>2, <1>3 DEF Held

\* Before the commit of a transaction nothing has happened.
LEMMA OpenMaps ==
  ASSUME ~AutoCommit, IInv, IInv', Issued, committed' = committed, Delivered' = Delivered
  PROVE  Life!Next
<1>1. ASSUME NEW c \in Code, NEW x, Held(c, x)' PROVE Held(c, x)
  BY <1>1 DEF Held, LiveTokens, Carries
<1>2. /\ \A c \in Code : WasIssued(c)' <=> WasIssued(c)
      /\ \A t \in Token : WasStored(t) => WasStored(t)'
  BY DEF WasIssued, WasStored
<1> QED BY <1>1, <1>2, Dwindles

\* A step of r in autocommit mode that stores nothing and carries nothing on.
LEMMA AutoMaps ==
  ASSUME AutoCommit, IInv, IInv', Issued, NEW r \in Req, Others(r), pc'[r] \notin {"mint", "chain"},
         origin' = origin, generated \subseteq generated',
         \A c \in Code : committed'[c] \in {committed[c], Absent},
         \A t \in Token : committed'[t] = committed[t] \/ ~Live(committed'[t])
  PROVE  Life!Next
<1>1. ASSUME NEW q \in Req, NEW c \in Code, Carries(q, c)' PROVE Carries(q, c) /\ job'[q] = job[q]
  BY <1>1 DEF Carries, Others
<1>2. ASSUME NEW c \in Code, NEW x, Held(c, x)' PROVE Held(c, x)
  <2>1. CASE x = c /\ committed'[c] # Absent
    BY <2>1 DEF Held
  <2>2. CASE x \in LiveTokens(c)'
    BY <2>2 DEF Held, LiveTokens
  <2>3. ASSUME NEW q \in Req, Carries(q, c)', job'[q].key = x PROVE Held(c, x)
    BY <1>1, <2>3 DEF Held
  <2> QED BY <1>2, <2>1, <2>2, <2>3 DEF Held
<1>3. \A c \in Code : WasIssued(c)' <=> WasIssued(c)
  BY DEF WasIssued
<1>4. \A t \in Token : WasStored(t) => WasStored(t)'
  BY DEF WasStored, Others
<1> QED BY <1>2, <1>3, <1>4, Dwindles

LEMMA ConsumeMaps ==
  ASSUME AutoCommit, IInv, IInv', Issued, NEW r \in Req, Consume(r)
  PROVE  Life!Next
<1>0. Typed /\ OnlyDeletes
  BY DEF IInv
<1>1. /\ Others(r) /\ job' = job /\ Quiet(r) /\ origin' = origin /\ UNCHANGED generated
      /\ pc[r] = "consume" /\ pc'[r] # "chain"
  BY <1>0, ConsumeMoves, ConsumeQuiet DEF Consume, Rest, Lapse
<1>2. CASE Lapse(r)
  BY <1>1, <1>2, AutoMaps DEF Lapse, Quiet
<1>3. CASE ~Lapse(r)
  <2> DEFINE k == job[r].key
  <2>1. Row(r, k) # Absent /\ k \in Code /\ k \in Key
    BY <1>0, <1>1, <1>3, ConsumeMoves, JobTyped DEF Fits, Key
  <2>2. committed[k] # Absent
    BY <1>0, <2>1, AutoRow
  <2>3. ASSUME NEW q \in Req, NEW c \in Code, Carries(q, c)'
        PROVE  Carries(q, c) \/ (q = r /\ c = k)
    BY <1>1, <2>3 DEF Carries, Others
  <2>4. ASSUME NEW c \in Code, NEW x, Held(c, x)' PROVE Held(c, x)
    <3>1. CASE (x = c /\ committed'[c] # Absent) \/ x \in LiveTokens(c)'
      BY <1>1, <3>1 DEF Held, LiveTokens, Quiet
    <3>2. ASSUME NEW q \in Req, Carries(q, c)', job'[q].key = x PROVE Held(c, x)
      BY <1>1, <2>2, <2>3, <3>2 DEF Held
    <3> QED BY <2>4, <3>1, <3>2 DEF Held
  <2>5. /\ \A c \in Code : WasIssued(c)' <=> WasIssued(c)
        /\ \A t \in Token : WasStored(t) => WasStored(t)'
    BY <1>1 DEF WasIssued, WasStored, Others
  <2> QED BY <2>4, <2>5, Dwindles
<1> QED BY <1>2, <1>3

\* The token that a rotation retires stands for its grant until the next is stored.
LEMMA RetireMaps ==
  ASSUME AutoCommit, IInv, IInv', Issued, NEW r \in Req, Retire(r)
  PROVE  Life!Next
<1>0. Typed /\ OnlyDeletes /\ Names
  BY DEF IInv
<1>1. Others(r) /\ origin' = origin /\ pc[r] = "retire" /\ job[r].key \in Token
  BY <1>0, RetireMoves, JobTyped DEF Retire, Rest, Fits
<1>2. CASE Lapse(r)
  BY <1>1, <1>2, AutoMaps DEF Lapse, NoRow
<1>3. ASSUME NEW n \in Token, RetireFacts(r, n) PROVE Life!Next
  <2> DEFINE t == job[r].key
             k == committed[t].code
  <2>1. Quiet(r)
    BY <1>0, <1>1, <1>3, RetireQuiet
  <2>2. Live(committed[t]) /\ job'[r].code = k /\ job'[r].key = t /\ pc'[r] = "chain"
    BY <1>0, <1>1, <1>3, AutoRow DEF RetireFacts, Live, Key
  <2>3. t \in LiveTokens(k)
    BY <1>1, <2>2 DEF LiveTokens
  <2>4. ASSUME NEW q \in Req, NEW c \in Code, Carries(q, c)'
        PROVE  (Carries(q, c) /\ job'[q] = job[q]) \/ (q = r /\ c = k)
    BY <1>1, <2>2, <2>4 DEF Carries, Others
  <2>5. ASSUME NEW c \in Code, NEW x, Held(c, x)' PROVE Held(c, x)
    <3>1. CASE (x = c /\ committed'[c] # Absent) \/ x \in LiveTokens(c)'
      BY <2>1, <3>1 DEF Held, LiveTokens, Quiet
    <3>2. ASSUME NEW q \in Req, Carries(q, c)', job'[q].key = x PROVE Held(c, x)
      BY <2>2, <2>3, <2>4, <3>2 DEF Held
    <3> QED BY <2>5, <3>1, <3>2 DEF Held
  <2>6. \A c \in Code : WasIssued(c)' <=> WasIssued(c)
    BY <1>1 DEF WasIssued
  <2>7. \A u \in Token : WasStored(u) => WasStored(u)'
    BY <1>1, <1>3, <2>2 DEF WasStored, Others, RetireFacts
  <2> QED BY <2>5, <2>6, <2>7, Dwindles
<1> QED BY <1>0, <1>2, <1>3, RetireMoves

\* The token a request stores stands for the grant it carried.
LEMMA BornMaps ==
  ASSUME AutoCommit, IInv, IInv', LineInv, NEW r \in Req, Others(r), pc'[r] = "reply", origin' = origin,
         NEW t \in Token, NEW row \in Rows(t), Put(r, t, row), Live(row),
         NEW k \in Code, Carries(r, k), row.code = k,
         ~WasStored(t), \A u \in Token : WasStored(u)' <=> WasStored(u) \/ u = t
  PROVE  Life!Next
<1>0. Typed
  BY DEF IInv
<1>1. t \in Key /\ committed'[t] = row /\ \A i \in Key \ {t} : committed'[i] = committed[i]
  BY <1>0, AutoPut DEF Key
<1>2. committed[t] = Absent
  <2>1. t \in Unborn /\ base[t] = committed[t]
    BY DEF WasStored, Unborn, base, Ticket
  <2> QED BY <2>1 DEF LineInv, InLine
<1>3. \A i \in Code : committed'[i] = committed[i]
  BY <1>1, KeysDisjoint DEF Key
<1>4. Held(k, job[r].key) /\ Held(k, t)'
  BY <1>1 DEF Held, LiveTokens
<1>5. ASSUME NEW c \in Code \ {k} PROVE SameGrant(c)
  <2>1. LiveTokens(c)' = LiveTokens(c)
    BY <1>1, <1>2 DEF LiveTokens, Key, Live
  <2>2. \A q \in Req : Carries(q, c)' <=> Carries(q, c)
    BY DEF Carries, Others
  <2>3. \A q \in Req : Carries(q, c) => job'[q] = job[q]
    BY <1>5 DEF Carries, Others
  <2>4. ASSUME NEW x PROVE Held(c, x)' <=> Held(c, x)
    BY <1>3, <2>1, <2>2, <2>3 DEF Held
  <2> QED BY <2>4 DEF SameGrant, WasIssued
<1> QED BY <1>4, <1>5, Passes

LEMMA MintMaps ==
  ASSUME AutoCommit, IInv, IInv', LineInv, NEW r \in Req, Mint(r)
  PROVE  Life!Next
<1>0. Typed /\ Names
  BY DEF IInv
<1>1. PICK t \in Token : MintFacts(r, t)
  BY <1>0, MintMoves
<1> DEFINE row == NewToken(job[r].grant, job[r].key, None, Now(r))
<1>2. /\ Others(r) /\ pc[r] = "mint" /\ job[r].grant \in Grant /\ job[r].key \in Code
      /\ origin' = origin
  BY <1>0, MintMoves, JobTyped DEF Mint, Fits, Rest
<1>3. row \in TokenRow /\ Live(row) /\ row.code = job[r].key
  BY <1>0, <1>2, BornRow
<1>4. Put(r, t, row)
  BY <1>1 DEF MintFacts, CreateRefreshToken
<1> HIDE DEF row
<1>5. row \in Rows(t)
  BY <1>3, KeyKinds DEF Key
<1>6. Carries(r, job[r].key)
  BY <1>2 DEF Carries
<1>7. PICK k \in Code : k = job[r].key
  BY <1>2
<1>8. \A q \in Req : pc[q] = "chain" => job[q].new \in Token /\ job[q].new \in generated
  BY <1>0, JobTyped, StoreConstants DEF Names, NewIsSecret, Fits
<1>9. ~WasStored(t) /\ \A u \in Token : WasStored(u)' <=> WasStored(u) \/ u = t
  <2>1. \A u \in Token : (\E q \in Req : pc'[q] = "chain" /\ job'[q].new = u)
                           <=> \E q \in Req : pc[q] = "chain" /\ job[q].new = u
    BY <1>1, <1>2 DEF Others, MintFacts
  <2> QED BY <1>1, <1>8, <2>1 DEF WasStored, MintFacts
<1> QED BY <1>1, <1>2, <1>3, <1>4, <1>5, <1>6, <1>7, <1>9, BornMaps DEF MintFacts

LEMMA ChainMaps ==
  ASSUME AutoCommit, IInv, IInv', LineInv, NEW r \in Req, Chain(r)
  PROVE  Life!Next
<1>0. Typed /\ Names
  BY DEF IInv
<1> DEFINE t == job[r].new
           row == NewToken(job[r].grant, job[r].code, job[r].key, Now(r))
<1>1. /\ Others(r) /\ job' = job /\ pc[r] = "chain" /\ pc'[r] = "reply" /\ Put(r, t, row)
      /\ job[r].grant \in Grant /\ job[r].code \in Code /\ job[r].key \in Token
      /\ t \in Token /\ origin' = origin /\ generated' = generated
  BY <1>0, ChainMoves, JobTyped DEF Chain, Fits, Rest
<1>2. row \in TokenRow /\ Live(row) /\ row.code = job[r].code
  BY <1>0, <1>1, BornRow
<1> HIDE DEF row
<1>3. PICK k \in Code : k = job[r].code
  BY <1>1
<1>4. row \in Rows(t) /\ Carries(r, k)
  BY <1>1, <1>2, <1>3, KeyKinds DEF Key, Carries
<1>5. t \in generated /\ \A q \in Req : job[q].new = t => q = r
  BY <1>0, <1>1, StoreConstants DEF Names, NewIsSecret
<1>6. ~WasStored(t) /\ \A u \in Token : WasStored(u)' <=> WasStored(u) \/ u = t
  BY <1>1, <1>5 DEF WasStored, Others
<1> QED BY <1>1, <1>2, <1>3, <1>4, <1>6, BornMaps

LEMMA AutoIssueMaps ==
  ASSUME AutoCommit, IInv, IInv', LineInv, Issued, NEW r \in Req, Issue(r)
  PROVE  Life!Next
<1>0. Typed
  BY DEF IInv
<1>1. PICK c \in Code \ generated : /\ CreateCode(r, c, job[r].grant, Now(r))
                                    /\ generated' = generated \cup {c}
                                    /\ origin' = [origin EXCEPT ![c] = job[r].grant]
  BY DEF Issue, FreshCodes, Generate
<1> DEFINE row == [grant |-> job[r].grant, expires |-> Now(r) + CodeTTL]
<1>2. Others(r) /\ pc[r] = "issue" /\ pc'[r] = "reply" /\ job[r].grant \in Grant
  BY <1>0, IssueMoves, JobTyped DEF Issue, Fits, IssueFacts
<1>3. row \in CodeRow
  BY <1>0, <1>2, JobTyped, Limits DEF CodeRow
<1>4. Put(r, c, row)
  BY <1>1 DEF CreateCode
<1> HIDE DEF row
<1>5. row \in Rows(c) /\ c \in Key /\ c \notin Token /\ row # Absent
  BY <1>3, KeyKinds, KeysDisjoint, StoreConstants DEF Key
<1>6. committed'[c] = row /\ \A i \in Key \ {c} : committed'[i] = committed[i]
  BY <1>0, <1>4, <1>5, AutoPut
<1>7. ~WasIssued(c) /\ \A x : ~Held(c, x)
  BY DEF LineInv, WasIssued, Issued
<1>8. Held(c, c)'
  BY <1>5, <1>6 DEF Held
<1>9. ASSUME NEW i \in Code \ {c} PROVE SameGrant(i)
  <2>1. LiveTokens(i)' = LiveTokens(i) /\ committed'[i] = committed[i]
    BY <1>5, <1>6 DEF LiveTokens, Key
  <2>2. \A q \in Req : Carries(q, i)' <=> Carries(q, i)
    BY <1>2 DEF Carries, Others
  <2>3. \A q \in Req : Carries(q, i) => job'[q] = job[q]
    BY <1>2 DEF Carries, Others
  <2>4. origin \in [Code -> Grant \cup {None}]
    BY <1>0 DEF Typed, TypeOK, RequestsOK
  <2>5. WasIssued(i)' <=> WasIssued(i)
    BY <1>1, <2>4 DEF WasIssued
  <2>6. ASSUME NEW x PROVE Held(i, x)' <=> Held(i, x)
    BY <2>1, <2>2, <2>3 DEF Held
  <2> QED BY <2>5, <2>6 DEF SameGrant
<1>10. \A t \in Token : WasStored(t)' <=> WasStored(t)
  <2>1. \A t \in Token : (\E q \in Req : pc'[q] = "chain" /\ job'[q].new = t)
                           <=> \E q \in Req : pc[q] = "chain" /\ job[q].new = t
    BY <1>2 DEF Others
  <2> QED BY <1>1, <1>5, <2>1 DEF WasStored
<1> QED BY <1>7, <1>8, <1>9, <1>10, Starts

\* Statement by statement.
LEMMA AutoStepMaps ==
  ASSUME AutoCommit, IInv, IInv', LineInv, Issued, [Next]_vars
  PROVE  Life!Next
<1>0. Typed /\ OnlyDeletes
  BY DEF IInv
<1>1. ASSUME NEW r \in Req, QuietStep(r) PROVE Life!Next
  <2>1. Others(r) /\ Quiet(r) /\ pc'[r] \notin {"mint", "chain"}
    BY <1>0, <1>1, QuietMoves, QuietSteps
  <2>2. origin' = origin /\ generated \subseteq generated'
    BY <1>1 DEF QuietStep, Rest, Generate, Register, Authorize, Decide, Approve, Exchange, Replayed,
                Rotate, Revoke, Family, Revoking, Forget, Consents, Withdraw, Sessions, Select, Purge
  <2> QED BY <2>1, <2>2, AutoMaps DEF Quiet
<1>2. ASSUME NEW r \in Req, Finish(r) \/ Fail(r) PROVE Life!Next
  <2>1. /\ Others(r) /\ pc'[r] = "idle" /\ origin' = origin /\ generated' = generated
        /\ \A k \in Key : committed'[k] \in {committed[k], Absent}
    BY <1>0, <1>2, EndMoves, CommitFacts DEF Finish, Fail, Rollback, Rest, OnlyDeletes
  <2> QED BY <2>1, AutoMaps DEF Key, Live
<1>3. ASSUME NEW r \in Req, NEW op \in AllOps, Begin(r, op) PROVE Life!Next
  BY <1>0, <1>3, BeginMoves, AutoMaps DEF Begin, Rest
<1>4. CASE UNCHANGED <<committed, pc, job, generated, origin>>
  <2>1. ASSUME NEW c \in Code, NEW x, Held(c, x)' PROVE Held(c, x)
    BY <1>4, <2>1 DEF Held, LiveTokens, Carries
  <2>2. /\ \A c \in Code : WasIssued(c)' <=> WasIssued(c)
        /\ \A t \in Token : WasStored(t) => WasStored(t)'
    BY <1>4 DEF WasIssued, WasStored
  <2> QED BY <2>1, <2>2, Dwindles
<1> QED
  BY <1>1, <1>2, <1>3, <1>4, ConsumeMaps, RetireMaps, MintMaps, ChainMaps, AutoIssueMaps
     DEF Next, Step, QuietStep, Tick, Install, vars

\* A transaction commits: what it stored takes over from what it used up.
LEMMA FinishMaps ==
  ASSUME ~AutoCommit, IInv, IInv', OwnWrites, Issued, NEW r \in Req, Finish(r)
  PROVE  Life!Next
<1> DEFINE n == job[r].new
           key == job[r].key
<1>0. Typed /\ Names /\ Paid /\ pc[r] = "reply" /\ Ticket \subseteq Key /\ None \notin Ticket
  BY StoreConstants DEF IInv, Finish, Ticket, Key
<1>1. /\ Delivered' = Delivered \cup ({n} \ {None})
      /\ \A k \in Ticket : committed'[k] = IF dirty[r][k] = Untouched THEN committed[k] ELSE dirty[r][k]
  BY <1>0, FinishAnswers, CommitFacts
<1>2. n # None => /\ n \in Ticket /\ n \notin Delivered /\ committed[n] = Absent
                  /\ Unwritten(r, Ticket \ {key, n})
  BY <1>0, JobTyped DEF Job, Ticket, Names, NewIsSecret, OwnWrites, Footprint
<1>3. /\ \A c \in Code : \A x : Held(c, x) <=> (x = c /\ committed[c] # Absent) \/ x \in LiveTokens(c)
      /\ \A c \in Code : \A x : Held(c, x)' <=> (x = c /\ committed'[c] # Absent) \/ x \in LiveTokens(c)'
  BY DEF Held, Carries
<1>4. CASE n = None
  <2>1. \A c \in Code : dirty[r][c] \in {Absent, Untouched}
    BY <1>0, <1>4 DEF Paid, PaidBy, Ticket
  <2>2. \A t \in Token : ~Fruitful(dirty[r][t])
    BY <1>0, <1>4 DEF Paid, PaidBy, Ticket
  <2>3. ASSUME NEW c \in Code, NEW x, Held(c, x)' PROVE Held(c, x)
    <3>1. CASE x = c /\ committed'[c] # Absent
      BY <1>1, <1>3, <2>1, <3>1 DEF Ticket
    <3>2. CASE x \in LiveTokens(c)'
      BY <1>1, <1>3, <2>2, <3>2 DEF LiveTokens, Fruitful, Ticket
    <3> QED BY <1>3, <2>3, <3>1, <3>2
  <2>4. /\ \A c \in Code : WasIssued(c)' <=> WasIssued(c)
        /\ \A t \in Token : WasStored(t) => WasStored(t)'
    BY <1>1, <1>4 DEF WasIssued, WasStored
  <2> QED BY <2>3, <2>4, Dwindles
<1>5. ASSUME NEW m \in Code, m = n PROVE Life!Next
  <2>1. /\ key = None /\ dirty[r][m] \notin {Absent, Untouched} /\ m \notin Token
        /\ m \in Ticket /\ m # None
    BY <1>0, <1>5, KeysDisjoint DEF OwnWrites, Footprint, Ticket
  <2>2. \A k \in Ticket \ {m} : committed'[k] = committed[k]
    BY <1>0, <1>1, <1>2, <1>5, <2>1 DEF Unwritten
  <2>3. ~WasIssued(m) /\ \A x : ~Held(m, x)
    BY <1>2, <1>5, <2>1 DEF WasIssued, Issued
  <2>4. Held(m, m)'
    BY <1>1, <1>3, <1>5, <2>1
  <2>5. ASSUME NEW c \in Code \ {m} PROVE SameGrant(c)
    <3>1. committed'[c] = committed[c] /\ LiveTokens(c)' = LiveTokens(c)
      BY <2>1, <2>2 DEF LiveTokens, Ticket
    <3>2. WasIssued(c)' <=> WasIssued(c)
      BY <1>1, <1>5 DEF WasIssued
    <3> QED BY <1>3, <3>1, <3>2 DEF SameGrant
  <2>6. \A t \in Token : WasStored(t)' <=> WasStored(t)
    BY <1>1, <1>5, <2>1 DEF WasStored
  <2> QED BY <2>3, <2>4, <2>5, <2>6, Starts
<1>6. ASSUME NEW m \in Token, m = n PROVE Life!Next
  <2>0. m \in Ticket /\ m \in Key /\ m # None
    BY <1>0, <1>6 DEF Ticket
  <2>1. Fruitful(dirty[r][m]) /\ Claims(r, dirty[r][m].code)
    BY <1>0, <1>6, <2>0 DEF OwnWrites, Footprint, Paid, PaidBy
  <2>2. PICK k \in Code : k = dirty[r][m].code /\ m \notin Code
    <3>1. dirty[r][m] \in TokenRow
      BY <1>0, <1>6, <2>0, <2>1, KeyKinds DEF Typed, TypeOK, StoreOK, Fruitful, Live
    <3> QED BY <1>6, <3>1, KeysDisjoint DEF TokenRow
  <2>3. committed'[m] = dirty[r][m]
    BY <1>1, <2>0, <2>1 DEF Fruitful
  <2>4. Held(k, m)'
    BY <1>3, <1>6, <2>1, <2>2, <2>3 DEF LiveTokens, Fruitful
  <2>5. PICK old \in Ticket : /\ Held(k, old) /\ dirty[r][old] # Untouched
                              /\ committed[old] # Absent /\ (old \in Code => old = k)
                              /\ old \in Token => committed[old].code = k /\ ~Live(dirty[r][old])
    <3>1. CASE committed[k] # Absent /\ dirty[r][k] = Absent
      <4>1. k \in Ticket /\ k \notin Token /\ dirty[r][k] # Untouched /\ Held(k, k)
        BY <3>1, KeysDisjoint, StoreConstants DEF Ticket, Held
      <4> QED BY <3>1, <4>1
    <3>2. ASSUME NEW t \in LiveTokens(k), dirty[r][t] # Untouched, ~Live(dirty[r][t])
          PROVE  /\ t \in Ticket /\ t \notin Code /\ Held(k, t)
                 /\ committed[t] # Absent /\ committed[t].code = k
      BY <3>2, KeysDisjoint DEF LiveTokens, Live, Ticket, Held
    <3> QED BY <2>1, <2>2, <3>1, <3>2 DEF Claims
  <2>6. \A i \in Ticket \ {old, m} : committed'[i] = committed[i]
    BY <1>0, <1>1, <1>2, <1>6, <2>0, <2>5 DEF Unwritten
  <2>7. ASSUME NEW c \in Code \ {k} PROVE SameGrant(c)
    <3>1. committed'[c] = committed[c]
      BY <2>2, <2>5, <2>6 DEF Ticket
    <3>2. ASSUME NEW t \in Token PROVE t \in LiveTokens(c)' <=> t \in LiveTokens(c)
      <4>1. CASE t = m
        BY <1>2, <1>6, <2>0, <2>2, <2>3, <4>1 DEF LiveTokens, Live
      <4>2. CASE t = old
        <5>1. committed'[t] = dirty[r][t]
          BY <1>1, <2>5, <4>2
        <5> QED BY <2>5, <4>2, <5>1 DEF LiveTokens
      <4>3. CASE t \notin {m, old}
        BY <2>6, <4>3 DEF LiveTokens, Ticket
      <4> QED BY <4>1, <4>2, <4>3
    <3>3. LiveTokens(c)' = LiveTokens(c)
      BY <3>2 DEF LiveTokens
    <3>4. WasIssued(c)' <=> WasIssued(c)
      BY <1>1, <1>6, <2>2 DEF WasIssued
    <3> QED BY <1>3, <3>1, <3>3, <3>4 DEF SameGrant
  <2>8. ~WasStored(m) /\ \A t \in Token : WasStored(t)' <=> WasStored(t) \/ t = m
    BY <1>1, <1>2, <1>6, <2>0 DEF WasStored
  <2> QED BY <1>6, <2>2, <2>4, <2>5, <2>7, <2>8, Passes
<1> QED BY <1>2, <1>4, <1>5, <1>6 DEF Ticket

\* In transactions.
LEMMA OpenStepMaps ==
  ASSUME ~AutoCommit, IInv, IInv', OwnWrites, Issued, [Next]_vars
  PROVE  Life!Next
<1>0. Typed
  BY DEF IInv
<1>1. ASSUME NEW r \in Req, QuietStep(r) \/ Consume(r) PROVE Life!Next
  <2>1. committed' = committed
    BY <1>0, <1>1, QuietSteps, ConsumeQuiet DEF Quiet
  <2>2. Delivered' = Delivered
    BY <1>1 DEF Delivered, QuietStep, Rest, Register, Authorize, Decide, Approve, Exchange, Replayed,
                Rotate, Revoke, Family, Revoking, Forget, Consents, Withdraw, Sessions, Select, Purge,
                Consume
  <2> QED BY <2>1, <2>2, OpenMaps
<1>2. ASSUME NEW r \in Req, Issue(r) \/ Mint(r) \/ Retire(r) \/ Chain(r) PROVE Life!Next
  <2>1. NoRow \/ \E k, row : Put(r, k, row)
    BY <1>2 DEF Issue, CreateCode, Mint, CreateRefreshToken, Retire, RetireToken, Chain, ChainToken
  <2>2. committed' = committed
    BY <2>1 DEF NoRow, Put, Write
  <2>3. Delivered' = Delivered
    BY <1>2 DEF Delivered, Rest, Issue, Mint, Retire, Chain
  <2> QED BY <2>2, <2>3, OpenMaps
<1>3. ASSUME NEW r \in Req, Finish(r) PROVE Life!Next
  BY <1>3, FinishMaps
<1>4. CASE UNCHANGED <<committed, answers>>
  BY <1>4, OpenMaps DEF Delivered
<1> QED
  BY <1>1, <1>2, <1>3, <1>4
     DEF Next, Step, QuietStep, Fail, Rollback, Rest, Begin, Tick, Install, vars

LEMMA InitMaps == Init => Life!Init
<1> SUFFICES ASSUME Init PROVE Life!Init
  OBVIOUS
<1>1. \A k \in Ticket : committed[k] = Absent
  BY KeysDisjoint, Limits DEF Init, PgInit, Ticket, Key
<1>2. \A c \in Code : Holder(c) = None
  <2>1. \A c \in Code : committed[c] = Absent /\ LiveTokens(c) = {} /\ ~WasIssued(c)
    BY <1>1 DEF Init, Ticket, LiveTokens, Live, WasIssued, Delivered
  <2>2. \A c \in Code, r \in Req : ~Carries(r, c)
    BY DEF Init, Carries
  <2> QED BY <2>1, <2>2 DEF Holder
<1>3. \A t \in Token : ~WasStored(t)
  BY KeysDisjoint, Limits DEF Init, WasStored, Delivered
<1> QED BY <1>2, <1>3 DEF Life!Init

\* Read as the holder of each grant's right, the rows that concurrent, failing and waiting
\* requests leave behind go through no step but those of GrantLife: a grant is issued once,
\* handed on from one holder to the next, and once ended never comes back.
THEOREM Refinement == Spec => ImplementsGrantLife
<1>1. IInv /\ LineInv /\ OwnWrites /\ [Next]_vars => Life!Next
  BY NextIInv, HeldIssued, AutoStepMaps, OpenStepMaps
<1>2. Spec => [](IInv /\ UseInv /\ LineInv /\ OwnWrites)
  BY InitIInv, NextIInv, InitUse, NextUse, InitLine, NextLine, InitOwn, NextOwn, PTL DEF Spec
<1> QED BY <1>1, <1>2, InitMaps, PTL DEF Spec, ImplementsGrantLife, Life!Spec
=============================================================================
