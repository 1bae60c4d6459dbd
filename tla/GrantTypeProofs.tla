-------------------------- MODULE GrantTypeProofs --------------------------
(***************************************************************************)
(* Every behaviour of OAuthGrants is type correct, and the handlers have   *)
(* set the local variables they use: the proof of Typed.                   *)
(***************************************************************************)
EXTENDS GrantInvariant, TLAPS

LEMMA KeyKinds ==
  ASSUME NEW k \in Key
  PROVE  /\ Rows(k) \subseteq Cell /\ Absent \in Rows(k) /\ Untouched \notin Rows(k)
         /\ k \in Client => Rows(k) = ClientRow \cup {Absent}
         /\ k \in Code => Rows(k) = CodeRow \cup {Absent}
         /\ k \in Token => Rows(k) = TokenRow \cup {Absent}
         /\ k \in Grant => Rows(k) = ConsentRow \cup {Absent}
BY StoreConstants, KeysDisjoint DEF Key, ConsentKey, Rows, Cell

\* What a write leaves behind, row by row.
LEMMA WriteFacts ==
  ASSUME StoreOK, NEW r \in Req, NEW w \in [Key -> Cell \cup {Untouched}], NEW auto,
         Write(r, w, auto)
  PROVE  /\ \A k \in Key : w[k] # Untouched => \A q \in Req \ {r} : dirty[q][k] = Untouched
         /\ auto => /\ dirty' = dirty
                    /\ committed' \in [Key -> Cell]
                    /\ \A k \in Key : committed'[k] = IF w[k] = Untouched THEN committed[k] ELSE w[k]
         /\ ~auto => /\ committed' = committed
                     /\ dirty' \in [Req -> [Key -> Cell \cup {Untouched}]]
                     /\ \A q \in Req \ {r} : dirty'[q] = dirty[q]
                     /\ \A k \in Key : dirty'[r][k] = IF w[k] = Untouched THEN dirty[r][k] ELSE w[k]
BY DEF StoreOK, Write, Blocked, Overlay

LEMMA WriteTyped ==
  ASSUME StoreOK, NEW r \in Req, NEW w \in [Key -> Cell \cup {Untouched}], NEW auto,
         \A k \in Key : w[k] \in Rows(k) \cup {Untouched},
         Write(r, w, auto)
  PROVE  StoreOK'
BY WriteFacts DEF StoreOK

LEMMA PutTyped ==
  ASSUME StoreOK, NEW r \in Req, NEW k \in Key, NEW row \in Rows(k), Put(r, k, row)
  PROVE  StoreOK'
<1> DEFINE w == [NoWrites EXCEPT ![k] = row]
<1>1. w \in [Key -> Cell \cup {Untouched}]
  BY KeyKinds DEF NoWrites
<1>2. \A i \in Key : w[i] \in Rows(i) \cup {Untouched}
  BY DEF NoWrites
<1> QED BY <1>1, <1>2, WriteTyped DEF Put

LEMMA InitTyped == Init => Typed
<1> SUFFICES ASSUME Init PROVE Typed
  OBVIOUS
<1>1. StoreOK
  <2>1. \A k \in Key : committed[k] \in Rows(k)
    BY KeyKinds, Limits DEF Init, PgInit
  <2>2. committed \in [Key -> Cell]
    BY KeyKinds, <2>1 DEF Init, PgInit
  <2> QED BY <2>1, <2>2 DEF Init, PgInit, StoreOK, NoWrites
<1>2. RequestsOK /\ \A r \in Req : Fits(pc[r], job[r])
  BY Limits DEF Init, RequestsOK, Fits, NoJob, Job, Labels, AllOps
<1> QED BY <1>1, <1>2 DEF Typed, TypeOK

-----------------------------------------------------------------------------
(* Handlers and their local variables. *)

MovesFit ==
  /\ pc' \in [Req -> Labels] /\ job' \in [Req -> Job]
  /\ \A q \in Req : Fits(pc'[q], job'[q])

\* A handler that moves on leaves the other handlers where they are.
LEMMA MoveTyped ==
  ASSUME Typed, NEW r \in Req, NEW label \in Labels, NEW j \in Job, Fits(label, j),
         Goto(r, label), Keep(r, j)
  PROVE  MovesFit
<1>1. /\ pc' \in [Req -> Labels] /\ job' \in [Req -> Job]
      /\ pc'[r] = label /\ job'[r] = j
      /\ \A q \in Req \ {r} : pc'[q] = pc[q] /\ job'[q] = job[q]
  BY DEF Typed, TypeOK, RequestsOK, Goto, Keep
<1> QED BY <1>1 DEF MovesFit, Typed

\* The same for a handler whose local variables do not change.
LEMMA GotoTyped ==
  ASSUME Typed, NEW r \in Req, NEW label \in Labels, Fits(label, job[r]),
         Goto(r, label), job' = job
  PROVE  MovesFit
<1>1. /\ pc' \in [Req -> Labels] /\ pc'[r] = label
      /\ \A q \in Req \ {r} : pc'[q] = pc[q]
  BY DEF Typed, TypeOK, RequestsOK, Goto
<1> QED BY <1>1 DEF MovesFit, Typed, TypeOK, RequestsOK

LEMMA JobTyped ==
  ASSUME Typed, NEW r \in Req
  PROVE  job[r] \in Job /\ pc[r] \in Labels /\ Fits(pc[r], job[r]) /\ Now(r) \in Nat
BY DEF Typed, TypeOK, RequestsOK, Now, Job

LEMMA RowTyped ==
  ASSUME Typed, NEW r \in Req, NEW k \in Key
  PROVE  Row(r, k) \in Rows(k)
BY DEF Typed, TypeOK, StoreOK, Row

LEMMA RefuseTyped ==
  ASSUME Typed, NEW r \in Req, Refuse(r)
  PROVE  MovesFit
<1> DEFINE j == [NoJob EXCEPT !.op = job[r].op]
<1>1. j \in Job
  BY JobTyped DEF NoJob, Job
<1>2. Fits("reply", j) /\ "reply" \in Labels
  BY DEF Fits, Labels
<1> HIDE DEF j
<1>3. Goto(r, "reply") /\ Keep(r, j)
  BY DEF Refuse, j
<1> QED BY <1>1, <1>2, <1>3, MoveTyped

\* A step that only reads.
LEMMA ReadTyped ==
  ASSUME Typed, MovesFit, UNCHANGED <<committed, dirty, generated>>, Rest
  PROVE  Typed'
BY DEF Rest, MovesFit, Typed, TypeOK, StoreOK, RequestsOK

LEMMA BeginTyped ==
  ASSUME Typed, NEW r \in Req, NEW op \in AllOps, Begin(r, op)
  PROVE  Typed'
<1>1. PICK key \in Presented(op) :
        Keep(r, [NoJob EXCEPT !.op = op, !.key = key,
                              !.since = IF AutoCommit /\ op # "cleanup" THEN 0 ELSE clock])
  BY DEF Begin
<1> DEFINE j == [NoJob EXCEPT !.op = op, !.key = key,
                              !.since = IF AutoCommit /\ op # "cleanup" THEN 0 ELSE clock]
           label == IF op \in {"uninstall", "cleanup"} THEN "select" ELSE op
<1>2. /\ op = "exchange" => key \in Code
      /\ op \in {"rotate", "revoke"} => key \in Token
      /\ key \in Code \cup Token \cup {None}
  BY DEF Presented
<1>3. clock \in Nat
  BY DEF Typed, TypeOK, RequestsOK
<1>4. j \in Job /\ j.key = key /\ j.op = op /\ j.table = 0
  BY <1>2, <1>3 DEF NoJob, Job
<1>5. label \in Labels
  BY DEF Labels, AllOps
<1>6. Len(PurgePlan(op)) \in {3, 4}
  BY DEF PurgePlan
<1> HIDE DEF j
<1>7. Fits(label, j)
  <2>1. CASE op \in {"uninstall", "cleanup"}
    <3>1. label = "select" /\ j.op \in {"cleanup", "uninstall"}
      BY <1>4, <2>1
    <3>2. j.table < Len(PurgePlan(j.op))
      <4>1. j.op = op /\ j.table = 0
        BY <1>4
      <4>2. 0 < Len(PurgePlan(op))
        BY <1>6
      <4> QED BY <4>1, <4>2
    <3> HIDE DEF label
    <3> QED BY <3>1, <3>2 DEF Fits
  <2>2. CASE op \notin {"uninstall", "cleanup"}
    BY <1>2, <1>4, <2>2 DEF Fits, AllOps
  <2> QED BY <2>1, <2>2
<1>8. Goto(r, label) /\ Keep(r, j)
  BY <1>1 DEF Begin, j
<1> HIDE DEF label
<1>9. MovesFit
  BY <1>4, <1>5, <1>7, <1>8, MoveTyped
<1> QED BY <1>9, ReadTyped DEF Begin

LEMMA AuthorizeTyped ==
  ASSUME Typed, NEW r \in Req, Authorize(r)
  PROVE  Typed'
<1>1. CASE Refuse(r)
  BY <1>1, RefuseTyped, ReadTyped DEF Authorize
<1>2. CASE ~Refuse(r)
  <2>1. PICK g \in Grant : Goto(r, "consent") /\ Keep(r, [job[r] EXCEPT !.grant = g])
    BY <1>2, Limits DEF Authorize
  <2> DEFINE j == [job[r] EXCEPT !.grant = g]
  <2>2. j \in Job /\ j.grant = g
    BY JobTyped DEF Job
  <2>3. Fits("consent", j) /\ "consent" \in Labels
    BY <2>2 DEF Fits, Labels
  <2> HIDE DEF j
  <2>4. Goto(r, "consent") /\ Keep(r, j)
    BY <2>1 DEF j
  <2>5. MovesFit
    BY <2>2, <2>3, <2>4, MoveTyped
  <2> QED BY <2>5, ReadTyped DEF Authorize
<1> QED BY <1>1, <1>2

LEMMA DecideTyped ==
  ASSUME Typed, NEW r \in Req, Decide(r)
  PROVE  Typed'
<1>1. CASE Refuse(r)
  BY <1>1, RefuseTyped, ReadTyped DEF Decide
<1>2. CASE ~Refuse(r)
  <2>1. PICK decision \in {"none", "allow", "deny"}, label \in {"issue", "approve"} :
          Goto(r, label) /\ Keep(r, [job[r] EXCEPT !.decision = decision])
    BY <1>2 DEF Decide
  <2> DEFINE j == [job[r] EXCEPT !.decision = decision]
  <2>2. j \in Job /\ j.grant = job[r].grant
    BY JobTyped DEF Job
  <2>3. job[r].grant \in Grant
    BY JobTyped DEF Decide, Fits
  <2> HIDE DEF j
  <2>4. Fits(label, j) /\ label \in Labels
    BY <2>2, <2>3 DEF Fits, Labels
  <2>5. Goto(r, label) /\ Keep(r, j)
    BY <2>1 DEF j
  <2>6. MovesFit
    BY <2>2, <2>4, <2>5, MoveTyped
  <2> QED BY <2>6, ReadTyped DEF Decide
<1> QED BY <1>1, <1>2

LEMMA NarrowedGrant ==
  ASSUME NEW g \in Grant, NEW resource \in SUBSET Resource
  PROVE  [g EXCEPT !.resource = resource] \in Grant
BY DEF Grant

LEMMA ExchangeTyped ==
  ASSUME Typed, NEW r \in Req, Exchange(r)
  PROVE  Typed'
<1> DEFINE c == job[r].key
<1>1. c \in Code
  BY JobTyped DEF Exchange, Fits
<1>2. CASE Refuse(r)
  BY <1>2, RefuseTyped, ReadTyped DEF Exchange
<1>3. CASE Goto(r, "replayed") /\ UNCHANGED job
  <2>1. job[r].op = "exchange"
    BY JobTyped DEF Exchange, Fits
  <2>2. Fits("replayed", job[r]) /\ "replayed" \in Labels
    BY <1>1, <2>1 DEF Fits, Labels
  <2> QED BY <1>3, <2>2, GotoTyped, ReadTyped DEF Exchange
<1>4. CASE ~Refuse(r) /\ ~(Goto(r, "replayed") /\ UNCHANGED job)
  <2>1. CodeActive(r, c, Now(r))
    BY <1>4 DEF Exchange
  <2>2. PICK want \in SUBSET Resource :
          /\ Goto(r, "consume")
          /\ Keep(r, [job[r] EXCEPT !.grant = IF want = {} THEN Row(r, c).grant
                                             ELSE [Row(r, c).grant EXCEPT !.resource = want]])
    BY <1>4 DEF Exchange
  <2> DEFINE g == IF want = {} THEN Row(r, c).grant ELSE [Row(r, c).grant EXCEPT !.resource = want]
             j == [job[r] EXCEPT !.grant = g]
  <2>3. Row(r, c) \in CodeRow
    BY <1>1, <2>1, RowTyped, KeyKinds DEF CodeActive, Unexpired, Key
  <2>4. g \in Grant
    <3>1. PICK h \in Grant : h = Row(r, c).grant
      BY <2>3 DEF CodeRow
    <3>2. CASE want = {}
      BY <3>1, <3>2
    <3>3. CASE want # {}
      BY <3>1, <3>3, NarrowedGrant
    <3> QED BY <3>2, <3>3
  <2> HIDE DEF g
  <2>5. j \in Job /\ j.grant = g /\ j.key = c
    BY <2>4, JobTyped DEF Job
  <2> HIDE DEF j
  <2>6. Fits("consume", j) /\ "consume" \in Labels
    BY <1>1, <2>4, <2>5 DEF Fits, Labels
  <2>7. Goto(r, "consume") /\ Keep(r, j)
    BY <2>2 DEF j, g
  <2> QED BY <2>5, <2>6, <2>7, MoveTyped, ReadTyped DEF Exchange
<1> QED BY <1>2, <1>3, <1>4

LEMMA RotateTyped ==
  ASSUME Typed, NEW r \in Req, Rotate(r)
  PROVE  Typed'
<1> DEFINE t == job[r].key
<1>1. t \in Token
  BY JobTyped DEF Rotate, Fits
<1>2. CASE Refuse(r)
  BY <1>2, RefuseTyped, ReadTyped DEF Rotate
<1>3. CASE ~Refuse(r)
  <2>1. PICK scope \in (SUBSET Scope) \ {{}}, resource \in SUBSET Resource :
          /\ RefreshValid(r, t, Now(r))
          /\ Goto(r, "retire")
          /\ Keep(r, [job[r] EXCEPT !.grant =
                        [Row(r, t).grant EXCEPT !.scope = scope, !.resource = resource]])
    BY <1>3 DEF Rotate
  <2> DEFINE g == [Row(r, t).grant EXCEPT !.scope = scope, !.resource = resource]
             j == [job[r] EXCEPT !.grant = g]
  <2>2. Row(r, t) \in TokenRow
    BY <1>1, <2>1, RowTyped, KeyKinds DEF RefreshValid, Unexpired, Key
  <2>3. g \in Grant
    BY <2>2 DEF TokenRow, Grant
  <2> HIDE DEF g
  <2>4. j \in Job /\ j.grant = g /\ j.key = t
    BY <2>3, JobTyped DEF Job
  <2> HIDE DEF j
  <2>5. Fits("retire", j) /\ "retire" \in Labels
    BY <1>1, <2>3, <2>4 DEF Fits, Labels
  <2>6. Goto(r, "retire") /\ Keep(r, j)
    BY <2>1 DEF j, g
  <2> QED BY <2>4, <2>5, <2>6, MoveTyped, ReadTyped DEF Rotate
<1> QED BY <1>2, <1>3

LEMMA RevokeTyped ==
  ASSUME Typed, NEW r \in Req, Revoke(r)
  PROVE  Typed'
<1> DEFINE row == Row(r, job[r].key)
           j == [job[r] EXCEPT !.grant = row.grant, !.code = row.code]
<1>1. job[r].key \in Token
  BY JobTyped DEF Revoke, Fits
<1>2. CASE Refuse(r)
  BY <1>2, RefuseTyped, ReadTyped DEF Revoke
<1>3. CASE ~Refuse(r)
  <2>1. row # Absent /\ Goto(r, "family") /\ Keep(r, j)
    BY <1>3 DEF Revoke
  <2>2. row \in TokenRow
    BY <1>1, <2>1, RowTyped, KeyKinds DEF Key
  <2>3. row.grant \in Grant /\ row.code \in Code
    BY <2>2 DEF TokenRow
  <2>4. j \in Job /\ j.grant = row.grant /\ j.code = row.code /\ j.op = job[r].op
    BY <2>3, JobTyped DEF Job
  <2> HIDE DEF j, row
  <2>5. job[r].op = "revoke"
    BY JobTyped DEF Revoke, Fits
  <2>6. Fits("family", j) /\ "family" \in Labels
    BY <2>3, <2>4, <2>5 DEF Fits, Labels
  <2> QED BY <2>1, <2>4, <2>6, MoveTyped, ReadTyped DEF Revoke
<1> QED BY <1>2, <1>3

LEMMA ConsentsTyped ==
  ASSUME Typed, NEW r \in Req, Consents(r)
  PROVE  Typed'
<1>1. CASE Refuse(r)
  BY <1>1, RefuseTyped, ReadTyped DEF Consents
<1>2. CASE ~Refuse(r)
  <2>1. PICK g \in Grant : Goto(r, "withdraw") /\ Keep(r, [job[r] EXCEPT !.grant = g])
    BY <1>2 DEF Consents, ConsentKey
  <2> DEFINE j == [job[r] EXCEPT !.grant = g]
  <2>2. j \in Job /\ j.grant = g
    BY JobTyped DEF Job
  <2>3. Fits("withdraw", j) /\ "withdraw" \in Labels
    BY <2>2 DEF Fits, Labels
  <2> HIDE DEF j
  <2>4. Goto(r, "withdraw") /\ Keep(r, j)
    BY <2>1 DEF j
  <2> QED BY <2>2, <2>3, <2>4, MoveTyped, ReadTyped DEF Consents
<1> QED BY <1>1, <1>2

\* The snapshots of the three revocations.
LEMMA SnapshotTyped ==
  ASSUME Typed, NEW r \in Req, NEW K \in SUBSET Token,
         job[r].op = "revoke" => job[r].grant \in Grant,
         Keep(r, [job[r] EXCEPT !.hit = K]), Goto(r, "revoking")
  PROVE  MovesFit
<1> DEFINE j == [job[r] EXCEPT !.hit = K]
<1>1. j \in Job /\ j.hit = K /\ j.op = job[r].op /\ j.grant = job[r].grant
  BY JobTyped DEF Job, Key
<1> HIDE DEF j
<1>2. Fits("revoking", j) /\ "revoking" \in Labels
  BY <1>1 DEF Fits, Labels
<1>3. Keep(r, j)
  BY DEF j
<1> QED BY <1>1, <1>2, <1>3, MoveTyped

LEMMA SnapshotsTyped ==
  ASSUME Typed, NEW r \in Req, Replayed(r) \/ Family(r) \/ Sessions(r)
  PROVE  Typed'
<1>1. CASE Replayed(r)
  <2>1. job[r].op = "revoke" => job[r].grant \in Grant
    BY <1>1, JobTyped DEF Replayed, Fits
  <2> QED BY <1>1, <2>1, SnapshotTyped, ReadTyped DEF Replayed, CodeTokenRows
<1>2. CASE Family(r)
  <2>1. job[r].grant \in Grant
    BY <1>2, JobTyped DEF Family, Fits
  <2> QED BY <1>2, <2>1, SnapshotTyped, ReadTyped DEF Family, FamilyRows
<1>3. CASE Sessions(r)
  <2>1. job[r].grant \in Grant
    BY <1>3, JobTyped DEF Sessions, Fits
  <2> QED BY <1>3, <2>1, SnapshotTyped, ReadTyped DEF Sessions, UserClientRows
<1> QED BY <1>1, <1>2, <1>3

LEMMA SelectTyped ==
  ASSUME Typed, NEW r \in Req, Select(r)
  PROVE  Typed'
<1> DEFINE op == job[r].op
           next == job[r].table + 1
           table == PurgePlan(op)[next]
<1>1. op \in {"cleanup", "uninstall"} /\ job[r].table < Len(PurgePlan(op)) /\ job[r].table \in Nat
  BY JobTyped DEF Select, Fits, Job
<1>2. next \in 1 .. Len(PurgePlan(op))
  <2>1. Len(PurgePlan(op)) \in Nat
    BY DEF PurgePlan
  <2> QED BY <1>1, <2>1
<1>3. table \subseteq Key
  <2>1. next \in 1 .. (IF op = "cleanup" THEN 3 ELSE 4)
    BY <1>2 DEF PurgePlan
  <2> HIDE DEF next
  <2> QED BY <2>1 DEF PurgePlan, Key
<1>4. PICK K \in SUBSET table : Keep(r, [job[r] EXCEPT !.hit = K, !.table = next])
  BY DEF Select, NextTable, ExpiredBatch, StoredRows
<1> DEFINE j == [job[r] EXCEPT !.hit = K, !.table = next]
<1>5. j \in Job /\ j.op = op /\ j.table = next
  <2>1. K \subseteq Key /\ next \in Nat
    BY <1>1, <1>3, <1>4
  <2> HIDE DEF table, next
  <2> QED BY <2>1, JobTyped DEF Job
<1> HIDE DEF table, next, op, j
<1>6. Fits("purge", j) /\ "purge" \in Labels
  BY <1>1, <1>2, <1>5 DEF Fits, Labels
<1>7. Goto(r, "purge") /\ Keep(r, j)
  BY <1>4 DEF Select, j
<1>8. MovesFit
  BY <1>5, <1>6, <1>7, MoveTyped
<1> QED BY <1>8, ReadTyped DEF Select

-----------------------------------------------------------------------------
(* Steps that write. *)

\* A step that writes typed rows and generates nothing but identifiers.
LEMMA StoreTyped ==
  ASSUME Typed, MovesFit, StoreOK', generated' \subseteq Client \cup Code \cup Token, Rest
  PROVE  Typed'
BY DEF Rest, MovesFit, Typed, TypeOK, RequestsOK

LEMMA GeneratedTyped ==
  ASSUME Typed, NEW x \in Client \cup Code \cup Token, Generate(x)
  PROVE  generated' \subseteq Client \cup Code \cup Token
BY DEF Typed, TypeOK, RequestsOK, Generate

LEMMA SameGenerated ==
  ASSUME Typed, UNCHANGED generated
  PROVE  generated' \subseteq Client \cup Code \cup Token
BY DEF Typed, TypeOK, RequestsOK

LEMMA RegisterTyped ==
  ASSUME Typed, NEW r \in Req, Register(r)
  PROVE  Typed'
<1>1. PICK cl \in Client : CreateClient(r, cl, Registration[cl]) /\ Generate(cl)
  BY DEF Register
<1>2. cl \in Key /\ Registration[cl] \in Rows(cl)
  BY Limits, KeyKinds DEF Key
<1>3. StoreOK'
  BY <1>1, <1>2, PutTyped DEF CreateClient, Typed, TypeOK
<1>4. Fits("reply", job[r]) /\ "reply" \in Labels
  BY DEF Fits, Labels
<1>5. MovesFit
  BY <1>4, GotoTyped DEF Register
<1>6. generated' \subseteq Client \cup Code \cup Token
  BY <1>1, GeneratedTyped
<1> QED BY <1>3, <1>5, <1>6, StoreTyped DEF Register

LEMMA ApproveTyped ==
  ASSUME Typed, NEW r \in Req, Approve(r)
  PROVE  Typed'
<1> DEFINE g == job[r].grant
           row == [expires |-> IF ConsentTTL = 0 THEN Never ELSE Now(r) + ConsentTTL]
<1>1. g \in Grant /\ Fits("issue", job[r]) /\ "issue" \in Labels
  BY JobTyped DEF Approve, Fits, Labels
<1>2. row \in ConsentRow
  BY JobTyped, Limits DEF ConsentRow
<1>3. g \in Key /\ row \in Rows(g)
  BY <1>1, <1>2, KeyKinds DEF Key, ConsentKey
<1>4. StoreOK'
  BY <1>3, PutTyped DEF Approve, CreateConsent, Typed, TypeOK
<1>5. MovesFit
  BY <1>1, GotoTyped DEF Approve
<1> QED BY <1>4, <1>5, StoreTyped, SameGenerated DEF Approve

LEMMA NewTokenTyped ==
  ASSUME NEW g \in Grant, NEW c \in Code, NEW old \in Token \cup {None}, NEW now \in Nat
  PROVE  NewToken(g, c, old, now) \in TokenRow
BY Limits DEF NewToken, TokenRow

LEMMA IssueTyped ==
  ASSUME Typed, NEW r \in Req, Issue(r)
  PROVE  Typed'
<1>1. PICK c \in Code : /\ CreateCode(r, c, job[r].grant, Now(r)) /\ Generate(c)
                        /\ Keep(r, [job[r] EXCEPT !.new = c])
                        /\ origin' = [origin EXCEPT ![c] = job[r].grant]
  BY DEF Issue, FreshCodes
<1> DEFINE row == [grant |-> job[r].grant, expires |-> Now(r) + CodeTTL]
           j == [job[r] EXCEPT !.new = c]
<1>2. job[r].grant \in Grant
  BY JobTyped DEF Issue, Fits
<1>3. row \in CodeRow
  BY <1>2, JobTyped, Limits DEF CodeRow
<1>4. c \in Key /\ row \in Rows(c)
  BY <1>3, KeyKinds DEF Key
<1>5. StoreOK'
  BY <1>1, <1>4, PutTyped DEF CreateCode, Typed, TypeOK
<1>6. j \in Job
  BY JobTyped DEF Job
<1> HIDE DEF j
<1>7. Fits("reply", j) /\ "reply" \in Labels
  BY DEF Fits, Labels
<1>8. Goto(r, "reply") /\ Keep(r, j)
  BY <1>1 DEF Issue, j
<1>9. MovesFit
  BY <1>6, <1>7, <1>8, MoveTyped
<1>10. generated' \subseteq Client \cup Code \cup Token
  BY <1>1, GeneratedTyped
<1> QED BY <1>1, <1>2, <1>5, <1>9, <1>10 DEF Issue, MovesFit, Typed, TypeOK, RequestsOK

LEMMA ConsumeTyped ==
  ASSUME Typed, NEW r \in Req, Consume(r)
  PROVE  Typed'
<1>1. job[r].key \in Code /\ job[r].grant \in Grant
  BY JobTyped DEF Consume, Fits
<1>2. Fits("mint", job[r]) /\ Fits("reply", job[r]) /\ {"mint", "reply"} \subseteq Labels
  BY <1>1 DEF Fits, Labels
<1>3. job' = job /\ (Goto(r, "mint") \/ Goto(r, "reply"))
  BY DEF Consume
<1>4. MovesFit
  BY <1>2, <1>3, GotoTyped
<1>5. StoreOK'
  <2>1. CASE NoRow
    BY <2>1 DEF NoRow, Typed, TypeOK, StoreOK
  <2>2. CASE ~NoRow
    <3>1. ConsumeCode(r, job[r].key)
      BY <2>2 DEF Consume
    <3>2. job[r].key \in Key /\ Absent \in Rows(job[r].key)
      BY <1>1, KeyKinds DEF Key
    <3> QED BY <3>1, <3>2, PutTyped DEF ConsumeCode, Typed, TypeOK
  <2> QED BY <2>1, <2>2
<1> QED BY <1>4, <1>5, StoreTyped, SameGenerated DEF Consume

LEMMA MintTyped ==
  ASSUME Typed, NEW r \in Req, Mint(r)
  PROVE  Typed'
<1>1. PICK t \in Token : /\ CreateRefreshToken(r, t, job[r].grant, job[r].key, Now(r))
                         /\ Generate(t) /\ Keep(r, [job[r] EXCEPT !.new = t])
  BY DEF Mint, FreshTokens
<1> DEFINE row == NewToken(job[r].grant, job[r].key, None, Now(r))
           j == [job[r] EXCEPT !.new = t]
<1>2. job[r].grant \in Grant /\ job[r].key \in Code
  BY JobTyped DEF Mint, Fits
<1>3. row \in TokenRow
  BY <1>2, JobTyped, NewTokenTyped
<1>4. t \in Key /\ row \in Rows(t)
  BY <1>3, KeyKinds DEF Key
<1>5. StoreOK'
  BY <1>1, <1>4, PutTyped DEF CreateRefreshToken, Typed, TypeOK
<1>6. j \in Job
  BY JobTyped DEF Job
<1> HIDE DEF j
<1>7. Fits("reply", j) /\ "reply" \in Labels
  BY DEF Fits, Labels
<1>8. Goto(r, "reply") /\ Keep(r, j)
  BY <1>1 DEF Mint, j
<1>9. MovesFit
  BY <1>6, <1>7, <1>8, MoveTyped
<1>10. generated' \subseteq Client \cup Code \cup Token
  BY <1>1, GeneratedTyped
<1> QED BY <1>5, <1>9, <1>10, StoreTyped DEF Mint

LEMMA RetireTyped ==
  ASSUME Typed, NEW r \in Req, Retire(r)
  PROVE  Typed'
<1> DEFINE t == job[r].key
<1>1. t \in Token /\ job[r].grant \in Grant
  BY JobTyped DEF Retire, Fits
<1>2. CASE NoRow /\ Refuse(r) /\ UNCHANGED generated
  <2>1. StoreOK'
    BY <1>2 DEF NoRow, Typed, TypeOK, StoreOK
  <2> QED BY <1>2, <2>1, RefuseTyped, StoreTyped, SameGenerated DEF Retire
<1>3. CASE ~(NoRow /\ Refuse(r) /\ UNCHANGED generated)
  <2>1. Rotatable(r, t, job[r].grant.client, Now(r))
    BY <1>3 DEF Retire
  <2>2. PICK n \in Token : /\ RetireToken(r, t, n) /\ Generate(n)
                           /\ Keep(r, [job[r] EXCEPT !.new = n, !.code = Row(r, t).code])
                           /\ Goto(r, "chain")
    BY <1>3 DEF Retire, FreshTokens
  <2> DEFINE old == Row(r, t)
             row == [old EXCEPT !.revoked = TRUE, !.next = n]
             j == [job[r] EXCEPT !.new = n, !.code = old.code]
  <2>3. old \in TokenRow
    BY <1>1, <2>1, RowTyped, KeyKinds DEF Rotatable, RefreshValid, Unexpired, Key
  <2>4. row \in TokenRow /\ old.code \in Code
    BY <2>3 DEF TokenRow
  <2>5. t \in Key /\ row \in Rows(t)
    BY <1>1, <2>4, KeyKinds DEF Key
  <2>6. StoreOK'
    BY <2>2, <2>5, PutTyped DEF RetireToken, Typed, TypeOK
  <2> HIDE DEF row, old
  <2>7. j \in Job /\ j.grant = job[r].grant /\ j.key = t /\ j.code = old.code /\ j.new = n
    BY <2>4, JobTyped DEF Job
  <2> HIDE DEF j
  <2>8. Fits("chain", j) /\ "chain" \in Labels
    BY <1>1, <2>4, <2>7 DEF Fits, Labels
  <2>9. Goto(r, "chain") /\ Keep(r, j)
    BY <2>2 DEF j, old
  <2>10. MovesFit
    BY <2>7, <2>8, <2>9, MoveTyped
  <2>11. generated' \subseteq Client \cup Code \cup Token
    BY <2>2, GeneratedTyped
  <2> QED BY <2>6, <2>10, <2>11, StoreTyped DEF Retire
<1> QED BY <1>2, <1>3

LEMMA ChainTyped ==
  ASSUME Typed, NEW r \in Req, Chain(r)
  PROVE  Typed'
<1> DEFINE row == NewToken(job[r].grant, job[r].code, job[r].key, Now(r))
<1>1. /\ job[r].grant \in Grant /\ job[r].code \in Code
      /\ job[r].key \in Token /\ job[r].new \in Token
  BY JobTyped DEF Chain, Fits
<1>2. row \in TokenRow
  BY <1>1, JobTyped, NewTokenTyped
<1>3. job[r].new \in Key /\ row \in Rows(job[r].new)
  BY <1>1, <1>2, KeyKinds DEF Key
<1>4. StoreOK'
  BY <1>3, PutTyped DEF Chain, ChainToken, Typed, TypeOK
<1>5. Fits("reply", job[r]) /\ "reply" \in Labels
  BY DEF Fits, Labels
<1>6. MovesFit
  BY <1>5, GotoTyped DEF Chain
<1> QED BY <1>4, <1>6, StoreTyped, SameGenerated DEF Chain

\* What the UPDATE of a revocation writes.
RevokedRows(r, K) == [k \in Key |-> IF k \in K /\ Live(Row(r, k))
                                     THEN [Row(r, k) EXCEPT !.revoked = TRUE]
                                     ELSE Untouched]

LEMMA RevokedRowsTyped ==
  ASSUME Typed, NEW r \in Req, NEW K \in SUBSET Token
  PROVE  /\ RevokedRows(r, K) \in [Key -> Cell \cup {Untouched}]
         /\ \A k \in Key : RevokedRows(r, K)[k] \in Rows(k) \cup {Untouched}
<1>1. ASSUME NEW k \in Key
      PROVE  RevokedRows(r, K)[k] \in Rows(k) \cup {Untouched}
  <2>1. CASE k \in K /\ Live(Row(r, k))
    <3>1. Row(r, k) \in TokenRow
      BY <2>1, RowTyped, KeyKinds DEF Live
    <3>2. PICK row \in TokenRow : row = Row(r, k)
      BY <3>1
    <3>3. [row EXCEPT !.revoked = TRUE] \in TokenRow
      BY DEF TokenRow
    <3>4. RevokedRows(r, K)[k] = [row EXCEPT !.revoked = TRUE]
      BY <2>1, <3>2 DEF RevokedRows
    <3> QED BY <2>1, <3>3, <3>4, KeyKinds
  <2>2. CASE ~(k \in K /\ Live(Row(r, k)))
    BY <2>2 DEF RevokedRows
  <2> QED BY <2>1, <2>2
<1>2. RevokedRows(r, K) = [k \in Key |-> RevokedRows(r, K)[k]]
  BY DEF RevokedRows
<1>3. \A k \in Key : RevokedRows(r, K)[k] \in Cell \cup {Untouched}
  BY <1>1, KeyKinds
<1> QED BY <1>1, <1>2, <1>3

LEMMA RevokingTyped ==
  ASSUME Typed, NEW r \in Req, Revoking(r)
  PROVE  Typed'
<1>1. job[r].hit \subseteq Token /\ (job[r].op = "revoke" => job[r].grant \in Grant)
  BY JobTyped DEF Revoking, Fits
<1>2. StoreOK'
  BY <1>1, RevokedRowsTyped, WriteTyped DEF Revoking, RevokeRows, RevokedRows, Typed, TypeOK
<1>3. CASE job[r].op = "revoke"
  <2>1. Fits("forget", job[r]) /\ "forget" \in Labels
    BY <1>1, <1>3 DEF Fits, Labels
  <2>2. MovesFit
    BY <1>3, <2>1, GotoTyped DEF Revoking, AfterRevoking
  <2> QED BY <1>2, <2>2, StoreTyped, SameGenerated DEF Revoking
<1>4. CASE job[r].op # "revoke"
  <2>1. Fits("reply", job[r]) /\ "reply" \in Labels
    BY DEF Fits, Labels
  <2>2. MovesFit
    BY <1>4, <2>1, GotoTyped DEF Revoking, AfterRevoking
  <2> QED BY <1>2, <2>2, StoreTyped, SameGenerated DEF Revoking
<1> QED BY <1>3, <1>4

LEMMA DeleteConsentTyped ==
  ASSUME Typed, NEW r \in Req, NEW g \in Grant, DeleteConsent(r, g)
  PROVE  StoreOK'
<1>1. CASE NoRow
  BY <1>1 DEF NoRow, Typed, TypeOK, StoreOK
<1>2. CASE Put(r, g, Absent)
  <2>1. g \in Key /\ Absent \in Rows(g)
    BY KeyKinds DEF Key, ConsentKey
  <2> QED BY <1>2, <2>1, PutTyped DEF Typed, TypeOK
<1> QED BY <1>1, <1>2 DEF DeleteConsent

LEMMA ForgetTyped ==
  ASSUME Typed, NEW r \in Req, Forget(r) \/ Withdraw(r)
  PROVE  Typed'
<1>1. job[r].grant \in Grant
  BY JobTyped DEF Forget, Withdraw, Fits
<1>2. Fits("reply", job[r]) /\ Fits("sessions", job[r]) /\ {"reply", "sessions"} \subseteq Labels
  BY <1>1 DEF Fits, Labels
<1>3. StoreOK'
  BY <1>1, DeleteConsentTyped DEF Forget, Withdraw
<1>4. MovesFit
  BY <1>2, GotoTyped DEF Forget, Withdraw
<1> QED BY <1>3, <1>4, StoreTyped, SameGenerated DEF Forget, Withdraw

LEMMA PurgeTyped ==
  ASSUME Typed, NEW r \in Req, Purge(r)
  PROVE  Typed'
<1> DEFINE w == [k \in Key |-> IF k \in StoredRows(r, job[r].hit) THEN Absent ELSE Untouched]
           auto == AutoCommit /\ job[r].op # "cleanup"
           n == Len(PurgePlan(job[r].op))
<1>1. /\ w \in [Key -> Cell \cup {Untouched}]
      /\ \A k \in Key : w[k] \in Rows(k) \cup {Untouched}
  BY KeyKinds DEF Cell
<1>2. Write(r, w, auto)
  BY DEF Purge, DeleteRows
<1>3. StoreOK'
  <2> HIDE DEF w, auto
  <2> QED BY <1>1, <1>2, WriteTyped DEF Typed, TypeOK
<1>4. /\ job[r].table \in 1 .. n
      /\ job[r].op \in {"cleanup", "uninstall"}
  BY JobTyped DEF Purge, Fits
<1>5. n \in Nat
  BY <1>4 DEF PurgePlan
<1> HIDE DEF n
<1>6. job[r].table = n \/ job[r].table < n
  BY <1>4, <1>5
<1>7. CASE job[r].table = n
  <2>1. Goto(r, "reply") /\ Fits("reply", job[r]) /\ "reply" \in Labels
    BY <1>7 DEF Purge, Fits, Labels, n
  <2>2. MovesFit
    BY <2>1, GotoTyped DEF Purge
  <2> QED BY <1>3, <2>2, StoreTyped, SameGenerated DEF Purge
<1>8. CASE job[r].table # n
  <2>1. Goto(r, "select") /\ Fits("select", job[r]) /\ "select" \in Labels
    BY <1>4, <1>6, <1>8 DEF Purge, Fits, Labels, n
  <2>2. MovesFit
    BY <2>1, GotoTyped DEF Purge
  <2> QED BY <1>3, <2>2, StoreTyped, SameGenerated DEF Purge
<1> QED BY <1>7, <1>8

-----------------------------------------------------------------------------
(* The ends of a request, and the environment. *)

LEMMA EndTyped ==
  ASSUME Typed, NEW r \in Req, Goto(r, "idle"), Keep(r, NoJob)
  PROVE  MovesFit
<1>1. NoJob \in Job /\ Fits("idle", NoJob) /\ "idle" \in Labels
  BY DEF NoJob, Job, Fits, Labels
<1> QED BY <1>1, MoveTyped

LEMMA FinishTyped ==
  ASSUME Typed, NEW r \in Req, Finish(r)
  PROVE  Typed'
<1>1. MovesFit
  BY EndTyped DEF Finish
<1>2. StoreOK'
  BY KeyKinds DEF Finish, Commit, Overlay, NoWrites, Typed, TypeOK, StoreOK
<1>3. answers' \subseteq Answer
  <2>1. job[r].new # None => [op |-> job[r].op, from |-> job[r].key, new |-> job[r].new] \in Answer
    BY JobTyped DEF Job, Answer
  <2> QED BY <2>1 DEF Finish, Typed, TypeOK, RequestsOK
<1>4. installed' \in BOOLEAN
  BY DEF Finish
<1> QED BY <1>1, <1>2, <1>3, <1>4 DEF Finish, MovesFit, Typed, TypeOK, RequestsOK

LEMMA FailTyped ==
  ASSUME Typed, NEW r \in Req, Fail(r)
  PROVE  Typed'
<1>1. MovesFit
  BY EndTyped DEF Fail
<1>2. StoreOK'
  BY DEF Fail, Rollback, NoWrites, Typed, TypeOK, StoreOK
<1> QED BY <1>1, <1>2, StoreTyped, SameGenerated DEF Fail

LEMMA EnvironmentTyped ==
  ASSUME Typed, Tick \/ Install \/ UNCHANGED vars
  PROVE  Typed'
<1>1. StoreOK' /\ \A q \in Req : Fits(pc'[q], job'[q])
  BY DEF Tick, Install, vars, Typed, TypeOK, StoreOK
<1>2. clock' \in Nat
  BY DEF Tick, Install, vars, Typed, TypeOK, RequestsOK
<1>3. installed' \in BOOLEAN
  <2>1. installed \in BOOLEAN
    BY DEF Typed, TypeOK, RequestsOK
  <2>2. installed' = installed \/ installed' = TRUE
    BY DEF Tick, Install, vars
  <2> QED BY <2>1, <2>2
<1>4. UNCHANGED <<pc, job, generated, origin, answers>>
  BY DEF Tick, Install, vars
<1> QED BY <1>1, <1>2, <1>3, <1>4 DEF Typed, TypeOK, RequestsOK

LEMMA NextTyped == Typed /\ [Next]_vars => Typed'
<1> SUFFICES ASSUME Typed, [Next]_vars PROVE Typed'
  OBVIOUS
<1>1. ASSUME NEW r \in Req, Step(r) PROVE Typed'
  <2>1. CASE Register(r) \/ Authorize(r) \/ Decide(r) \/ Approve(r) \/ Issue(r)
    BY <2>1, RegisterTyped, AuthorizeTyped, DecideTyped, ApproveTyped, IssueTyped
  <2>2. CASE Exchange(r) \/ Consume(r) \/ Mint(r) \/ Rotate(r) \/ Retire(r) \/ Chain(r)
    BY <2>2, ExchangeTyped, ConsumeTyped, MintTyped, RotateTyped, RetireTyped, ChainTyped
  <2>3. CASE Revoke(r) \/ Replayed(r) \/ Family(r) \/ Sessions(r) \/ Revoking(r)
    BY <2>3, RevokeTyped, SnapshotsTyped, RevokingTyped
  <2>4. CASE Consents(r) \/ Forget(r) \/ Withdraw(r) \/ Select(r) \/ Purge(r) \/ Finish(r)
    BY <2>4, ConsentsTyped, ForgetTyped, SelectTyped, PurgeTyped, FinishTyped
  <2> QED BY <1>1, <2>1, <2>2, <2>3, <2>4 DEF Step
<1>2. ASSUME NEW r \in Req, Fail(r) \/ \E op \in AllOps : Begin(r, op) PROVE Typed'
  BY <1>2, FailTyped, BeginTyped
<1>3. CASE Tick \/ Install \/ UNCHANGED vars
  BY <1>3, EnvironmentTyped
<1> QED BY <1>1, <1>2, <1>3 DEF Next

\* Every variable always holds what the code stores in it, for any number of requests,
\* clients, codes and tokens, in transactions or statement by statement.
THEOREM TypeCorrect == Spec => []TypeOK
<1>1. Spec => []Typed
  BY InitTyped, NextTyped, PTL DEF Spec
<1>2. Typed => TypeOK
  BY DEF Typed
<1> QED BY <1>1, <1>2, PTL
=============================================================================
