---------------------------- MODULE SchemaProofs ----------------------------
(***************************************************************************)
(* The recorded version is the version of the tables and is never taken    *)
(* back, a worker that is ready has a schema and the lock is not leaked:   *)
(* proofs about SchemaBootstrap, for any number of workers and oauth-      *)
(* migrate commands of any versions of the code.                           *)
(***************************************************************************)
EXTENDS SchemaBootstrap, TLAPS

Reading == {"meta", "tables", "version"}

Locals == [meta : BOOLEAN, seen : Nat, next : Nat \ {0}, status : Status,
           then : Labels, tries : 0 .. Retries, dry : BOOLEAN,
           current : Nat \cup {NoRow, NoMeta}]

\* The statement a process with label a and locals l is at, or returns to from
\* get_schema_status.
At(a, l) == IF a \in Reading THEN l.then ELSE a

Installing == {"install", "release"}
Migrating  == {"migrate", "adopt", "mark", "current", "step", "unlock"}

\* How often a process holds the advisory lock at a statement.
Depth(p, at) ==
  IF at \in Installing THEN IF p \in Migrator THEN 2 ELSE 1
  ELSE IF at \in Migrating \/ (p \in Migrator /\ at = "trylock") THEN 1 ELSE 0

Held(p) == Depth(p, At(pc[p], me[p]))

\* The lock is where the labels say it is.
LockIsHeld ==
  /\ \A p \in Proc : Held(p) > 0 => lock = [by |-> p, depth |-> Held(p)]
  /\ lock # Free => lock.by \in Proc /\ Held(lock.by) > 0

\* Only workers start and only commands migrate; the status is read for one of four.
Role(p, a, l) ==
  /\ At(a, l) \in Migrating => p \in Migrator
  /\ At(a, l) \in {"ensure", "waiting", "ready", "warned"} => p \in Worker
  /\ a \in Reading => l.then \in {"ensure", "install", "waiting", "migrate"}

Installed == tables = Table /\ meta >= 0

\* There is no OAuth table, or all of them and a version.
Clean == tables = {} \/ Installed

\* The recorded version and the tables belong together.
DbSound ==
  /\ VersionTruthful
  /\ meta # NoMeta => tables = Table
  /\ meta < 0 => shape \in {0, 1}

\* What a process has learned and no other process can undo.
Learned(p, a, l) ==
  /\ a = "meta" => l.seen = 0 /\ l.next = 1
  /\ a = "tables" /\ l.meta => meta # NoMeta
  /\ a = "version" => meta # NoMeta
  /\ a = "tables" =>
       /\ l.next <= TableCount + 1
       /\ l.seen = 0 => Installed \/ \A i \in Table : i < l.next => i \notin tables
  /\ l.status \in {"versioned", "needs_migration"} => meta >= 0
  /\ l.status = "empty" => Clean
  /\ p \in Worker /\ At(a, l) \in {"trylock", "waiting", "install", "release"} => Clean
  /\ p \in Worker /\ a = "ready" => Installed

\* What a process that holds the lock has read is so.
Exact(p, a, l) ==
  /\ a = "tables" =>
       /\ l.meta <=> meta # NoMeta
       /\ l.seen <= l.next - 1
       /\ l.seen = 0 <=> \A i \in Table : i < l.next => i \notin tables
       /\ l.seen = l.next - 1 => \A i \in Table : i < l.next => i \in tables
  /\ a = "install" => (l.status = "empty" <=> tables = {})
  /\ a = "release" /\ p \in Worker => Installed
  /\ a = "migrate" /\ l.status = "unversioned" => meta = NoMeta /\ tables = Table
  /\ a = "adopt" => meta = NoMeta /\ tables = Table
  /\ a = "mark" => meta = NoRow
  /\ a \in {"adopt", "mark"} => shape = 1 /\ l.current = 1 /\ ~l.dry
  /\ a = "current" => meta >= 0
  /\ a = "step" /\ ~l.dry => meta >= 0 /\ l.current = meta

Sound(p, a, l) ==
  Role(p, a, l) /\ Learned(p, a, l) /\ (Depth(p, At(a, l)) > 0 => Exact(p, a, l))

SchemaInv == SchemaTypeOK /\ DbSound /\ LockIsHeld /\ \A p \in Proc : Sound(p, pc[p], me[p])

-----------------------------------------------------------------------------
LEMMA TypeFacts ==
  ASSUME SchemaInv, NEW p \in Proc
  PROVE  /\ me[p] \in Locals /\ pc[p] \in Labels
         /\ tables \in SUBSET Table /\ shape \in Nat /\ meta \in Nat \cup {NoRow, NoMeta}
         /\ Sound(p, pc[p], me[p])
         /\ CodeVersion[p] \in Nat \ {0}
         /\ TableCount \in Nat \ {0} /\ 1 \in Table
         /\ p \in Worker <=> p \notin Migrator
         /\ p # Nobody
BY SchemaConstants DEF SchemaInv, SchemaTypeOK, Locals, Proc, Table

\* What a step does to the database, seen by the others.
Progress ==
  /\ meta # NoMeta => meta' # NoMeta
  /\ meta >= 0 => meta' >= 0
  /\ Installed => Installed'
  /\ tables = {} => tables' = {} \/ Installed'
  /\ tables # {} => tables' = tables

LEMMA OthersSound ==
  ASSUME SchemaInv, NEW p \in Proc, NEW q \in Proc \ {p},
         Progress, UNCHANGED db \/ Held(p) > 0,
         pc'[q] = pc[q], me'[q] = me[q]
  PROVE  Sound(q, pc[q], me[q])'
<1> DEFINE a == pc[q]
           l == me[q]
<1>1. Role(q, a, l) /\ Learned(q, a, l) /\ (Depth(q, At(a, l)) > 0 => Exact(q, a, l))
  BY TypeFacts DEF Sound
<1>2. Role(q, a, l)'
  BY <1>1 DEF Role, At
<1>3. Learned(q, a, l)'
  <2>1. Clean => Clean'
    BY DEF Clean, Progress
  <2>2. \A n : (Installed \/ \A i \in Table : i < n => i \notin tables)
                 => (Installed' \/ \A i \in Table : i < n => i \notin tables')
    BY DEF Progress
  <2>3. /\ meta # NoMeta => meta' # NoMeta
        /\ meta >= 0 => meta' >= 0
        /\ Installed => Installed'
    BY DEF Progress
  <2> QED BY <1>1, <2>1, <2>2, <2>3 DEF Learned, At
<1>4. Held(q) > 0 => UNCHANGED db
  BY DEF SchemaInv, LockIsHeld
<1>5. (Depth(q, At(a, l)) > 0 => Exact(q, a, l))'
  BY <1>1, <1>4 DEF Exact, At, Held, db, Installed
<1> QED BY <1>2, <1>3, <1>5 DEF Sound

\* A process moves to label a with locals l, and takes or gives back the lock as it must.
Moves(p, a, l) ==
  /\ pc' = [pc EXCEPT ![p] = a] /\ me' = [me EXCEPT ![p] = l]
  /\ lock' = IF Depth(p, At(a, l)) > 0 THEN [by |-> p, depth |-> Depth(p, At(a, l))]
             ELSE IF Held(p) > 0 THEN Free ELSE lock
  /\ Depth(p, At(a, l)) > 0 => Held(p) > 0 \/ lock = Free
  /\ UNCHANGED fresh

LEMMA MoveInv ==
  ASSUME SchemaInv, NEW p \in Proc, NEW a \in Labels, NEW l \in Locals, Moves(p, a, l),
         DbSound', Progress, UNCHANGED db \/ Held(p) > 0,
         tables' \in SUBSET Table, shape' \in Nat, meta' \in Nat \cup {NoRow, NoMeta},
         Role(p, a, l), Learned(p, a, l)', Depth(p, At(a, l)) > 0 => Exact(p, a, l)'
  PROVE  SchemaInv'
<1>1. /\ pc'[p] = a /\ me'[p] = l
      /\ \A q \in Proc \ {p} : pc'[q] = pc[q] /\ me'[q] = me[q]
      /\ pc' \in [Proc -> Labels] /\ me' \in [Proc -> Locals]
  BY DEF Moves, SchemaInv, SchemaTypeOK, Locals
<1>2. /\ Held(p)' = Depth(p, At(a, l))
      /\ \A q \in Proc \ {p} : Held(q)' = Held(q)
  BY <1>1 DEF Held
<1>3. LockIsHeld'
  <2>1. CASE Depth(p, At(a, l)) > 0
    <3>1. \A q \in Proc \ {p} : ~(Held(q) > 0)
      BY <2>1, TypeFacts DEF Moves, SchemaInv, LockIsHeld, Free
    <3> QED BY <1>2, <2>1, <3>1 DEF LockIsHeld, Moves
  <2>2. CASE ~(Depth(p, At(a, l)) > 0) /\ Held(p) > 0
    <3>1. \A q \in Proc \ {p} : ~(Held(q) > 0)
      BY <2>2 DEF SchemaInv, LockIsHeld
    <3> QED BY <1>2, <2>2, <3>1 DEF LockIsHeld, Moves
  <2>3. CASE ~(Depth(p, At(a, l)) > 0) /\ ~(Held(p) > 0)
    <3>1. lock' = lock
      BY <2>3 DEF Moves
    <3>2. lock # Free => lock.by \in Proc \ {p} /\ Held(lock.by) > 0
      BY <2>3 DEF SchemaInv, LockIsHeld
    <3> QED BY <1>2, <2>3, <3>1, <3>2 DEF SchemaInv, LockIsHeld
  <2> QED BY <2>1, <2>2, <2>3
<1>4. SchemaTypeOK'
  <2>1. Depth(p, At(a, l)) \in Nat
    BY DEF Depth
  <2>2. lock' \in [by : Proc \cup {Nobody}, depth : Nat]
    BY <2>1 DEF Moves, Free, SchemaInv, SchemaTypeOK
  <2> QED BY <1>1, <2>2 DEF Moves, SchemaInv, SchemaTypeOK, Locals
<1>5. Sound(p, pc[p], me[p])'
  BY <1>1 DEF Sound, Role, Learned, Exact, At
<1>6. \A q \in Proc \ {p} : Sound(q, pc[q], me[q])'
  BY <1>1, OthersSound
<1> QED BY <1>3, <1>4, <1>5, <1>6 DEF SchemaInv

\* A step that leaves the database alone.
LEMMA LocalInv ==
  ASSUME SchemaInv, NEW p \in Proc, NEW a \in Labels, NEW l \in Locals, Moves(p, a, l),
         UNCHANGED db,
         Role(p, a, l), Learned(p, a, l), Depth(p, At(a, l)) > 0 => Exact(p, a, l)
  PROVE  SchemaInv'
<1>1. DbSound' /\ Progress
  BY DEF SchemaInv, DbSound, VersionTruthful, Progress, Installed, db
<1>2. tables' \in SUBSET Table /\ shape' \in Nat /\ meta' \in Nat \cup {NoRow, NoMeta}
  BY TypeFacts DEF db
<1>3. Learned(p, a, l)' /\ (Depth(p, At(a, l)) > 0 => Exact(p, a, l)')
  BY DEF Learned, Exact, Installed, Clean, db
<1> QED BY <1>1, <1>2, <1>3, MoveInv
\* A step that leaves the lock alone too.
LEMMA HoldsOn ==
  ASSUME SchemaInv, NEW p \in Proc, NEW a \in Labels, NEW l \in Locals,
         pc' = [pc EXCEPT ![p] = a], me' = [me EXCEPT ![p] = l], UNCHANGED <<lock, fresh>>,
         Depth(p, At(a, l)) = Held(p)
  PROVE  Moves(p, a, l)
BY DEF Moves, SchemaInv, LockIsHeld

LEMMA SameLocals ==
  ASSUME SchemaInv, NEW p \in Proc
  PROVE  /\ UNCHANGED me => me' = [me EXCEPT ![p] = me[p]]
         /\ UNCHANGED pc => pc' = [pc EXCEPT ![p] = pc[p]]
BY DEF SchemaInv, SchemaTypeOK

-----------------------------------------------------------------------------
(* get_schema_status *)

LEMMA ReadMetaInv ==
  ASSUME SchemaInv, NEW p \in Proc, ReadMeta(p)
  PROVE  SchemaInv'
<1> DEFINE l == [me[p] EXCEPT !.meta = (meta # NoMeta)]
<1>1. /\ pc[p] = "meta" /\ UNCHANGED db /\ UNCHANGED <<lock, fresh>>
      /\ pc' = [pc EXCEPT ![p] = "tables"] /\ me' = [me EXCEPT ![p] = l]
  BY DEF ReadMeta, Goto, Set, Keep
<1>2. Sound(p, "meta", me[p]) /\ me[p] \in Locals
  BY <1>1, TypeFacts
<1>3. /\ l \in Locals /\ l.then = me[p].then /\ l.meta = (meta # NoMeta)
      /\ l.status = me[p].status /\ l.seen = 0 /\ l.next = 1
  BY <1>2 DEF Locals, Sound, Learned
<1> HIDE DEF l
<1>4. At("tables", l) = me[p].then /\ At("meta", me[p]) = me[p].then
  BY <1>3 DEF At, Reading
<1>5. Moves(p, "tables", l)
  BY <1>1, <1>3, <1>4, HoldsOn DEF Held, Labels
<1>6. Role(p, "tables", l)
  BY <1>2, <1>3, <1>4 DEF Sound, Role, Reading
<1>7. (\A i \in Table : ~(i < 1)) /\ 1 <= TableCount + 1 /\ 0 <= 1 - 1 /\ 0 = 1 - 1
  BY TypeFacts DEF Table
<1>8. (l.meta <=> meta # NoMeta) /\ l.seen = 0 /\ l.next = 1
  BY <1>3
<1>9. Learned(p, "tables", l)
  BY <1>2, <1>3, <1>4, <1>7, <1>8 DEF Sound, Learned
<1>10. Exact(p, "tables", l)
  BY <1>7, <1>8 DEF Exact
<1> QED BY <1>1, <1>3, <1>5, <1>6, <1>9, <1>10, LocalInv DEF Labels

LEMMA ReadTableInv ==
  ASSUME SchemaInv, NEW p \in Proc, ReadTable(p)
  PROVE  SchemaInv'
<1> DEFINE n == me[p].next
           l == [me[p] EXCEPT !.next = @ + 1, !.seen = @ + (IF n \in tables THEN 1 ELSE 0)]
<1>1. /\ pc[p] = "tables" /\ n <= TableCount /\ UNCHANGED db /\ UNCHANGED <<lock, fresh>>
      /\ pc' = [pc EXCEPT ![p] = "tables"] /\ me' = [me EXCEPT ![p] = l]
  BY SameLocals DEF ReadTable, Set, Keep
<1>2. Sound(p, "tables", me[p]) /\ me[p] \in Locals /\ n \in Table
  BY <1>1, TypeFacts DEF Locals, Table
<1>3. /\ l \in Locals /\ l.then = me[p].then /\ l.meta = me[p].meta
      /\ l.status = me[p].status /\ l.next = n + 1
      /\ l.seen = me[p].seen + (IF n \in tables THEN 1 ELSE 0)
  <2>1. n \in Nat \ {0} /\ me[p].seen \in Nat
    BY <1>2 DEF Locals
  <2>2. n + 1 \in Nat \ {0} /\ me[p].seen + (IF n \in tables THEN 1 ELSE 0) \in Nat
    BY <2>1
  <2> HIDE DEF n
  <2>3. l = [me[p] EXCEPT !.next = n + 1, !.seen = me[p].seen + (IF n \in tables THEN 1 ELSE 0)]
    BY DEF n
  <2> QED BY <1>2, <2>2, <2>3 DEF Locals
<1>4. /\ n \in Nat \ {0} /\ me[p].seen \in Nat /\ TableCount \in Nat
      /\ \A i \in Table : i \in Nat /\ (i < n + 1 <=> i < n \/ i = n)
  BY <1>2, TypeFacts DEF Locals, Table
<1> HIDE DEF l, n
<1>5. At("tables", l) = me[p].then /\ At("tables", me[p]) = me[p].then
  BY <1>3 DEF At, Reading
<1>6. Moves(p, "tables", l)
  BY <1>1, <1>3, <1>5, HoldsOn DEF Held, Labels
<1>7. Role(p, "tables", l)
  BY <1>2, <1>3, <1>5 DEF Sound, Role, Reading
<1>8. Learned(p, "tables", l)
  <2>1. l.next <= TableCount + 1
    BY <1>1, <1>3, <1>4
  <2>2. l.seen = 0 => Installed \/ \A i \in Table : i < l.next => i \notin tables
    BY <1>2, <1>3, <1>4 DEF Sound, Learned, n
  <2> QED BY <1>2, <1>3, <1>5, <2>1, <2>2 DEF Sound, Learned
<1>9. ASSUME Exact(p, "tables", me[p]) PROVE Exact(p, "tables", l)
  <2>1. me[p].seen <= n - 1
    BY <1>9 DEF Exact, n
  <2>2. /\ l.seen <= l.next - 1
        /\ l.seen = 0 <=> me[p].seen = 0 /\ n \notin tables
        /\ l.seen = l.next - 1 => me[p].seen = n - 1 /\ n \in tables
    BY <1>3, <1>4, <2>1
  <2>3. l.seen = 0 <=> \A i \in Table : i < l.next => i \notin tables
    BY <1>2, <1>3, <1>4, <1>9, <2>2 DEF Exact, n
  <2>4. l.seen = l.next - 1 => \A i \in Table : i < l.next => i \in tables
    BY <1>3, <1>4, <1>9, <2>2 DEF Exact, n
  <2> QED BY <1>3, <1>9, <2>2, <2>3, <2>4 DEF Exact
<1>10. Depth(p, At("tables", l)) > 0 => Exact(p, "tables", l)
  BY <1>2, <1>5, <1>9 DEF Sound
<1> QED BY <1>1, <1>3, <1>6, <1>7, <1>8, <1>10, LocalInv DEF Labels

\* The status is handed to the statement that asked for it.
LEMMA ReturnInv ==
  ASSUME SchemaInv, NEW p \in Proc, NEW s \in Status, Return(p, s), Keep,
         pc[p] \in Reading,
         s = "empty" => Clean,
         s \in {"versioned", "needs_migration"} => meta >= 0,
         Held(p) > 0 => /\ s = "empty" <=> tables = {}
                        /\ s = "unversioned" => meta = NoMeta /\ tables = Table
  PROVE  SchemaInv'
<1> DEFINE l == [me[p] EXCEPT !.status = s]
           a == me[p].then
<1>1. /\ UNCHANGED db /\ UNCHANGED <<lock, fresh>>
      /\ pc' = [pc EXCEPT ![p] = a] /\ me' = [me EXCEPT ![p] = l]
  BY DEF Return, Goto, Set, Keep
<1>2. Sound(p, pc[p], me[p]) /\ me[p] \in Locals
  BY TypeFacts
<1>3. l \in Locals /\ l.status = s /\ l.then = me[p].then
  BY <1>2 DEF Locals
<1>4. a \in {"ensure", "install", "waiting", "migrate"}
  BY <1>2 DEF Sound, Role
<1> HIDE DEF l
<1>5. At(a, l) = a /\ At(pc[p], me[p]) = a
  BY <1>4 DEF At, Reading
<1>6. Moves(p, a, l)
  BY <1>1, <1>3, <1>4, <1>5, HoldsOn DEF Held, Labels
<1>7. Role(p, a, l)
  BY <1>2, <1>4, <1>5 DEF Sound, Role, Reading
<1>8. Learned(p, a, l)
  BY <1>2, <1>3, <1>4, <1>5 DEF Sound, Learned
<1>9. Depth(p, At(a, l)) > 0 => Exact(p, a, l)
  BY <1>3, <1>4, <1>5 DEF Exact, Held
<1> QED BY <1>1, <1>3, <1>4, <1>6, <1>7, <1>8, <1>9, LocalInv DEF Labels

LEMMA CountTablesInv ==
  ASSUME SchemaInv, NEW p \in Proc, CountTables(p)
  PROVE  SchemaInv'
<1> DEFINE l   == me[p]
           all == l.seen = TableCount
           s   == IF ~l.meta /\ l.seen = 0 THEN "empty"
                  ELSE IF ~l.meta /\ all THEN "unversioned" ELSE "partial"
<1>1. /\ pc[p] = "tables" /\ l.next > TableCount /\ Keep
      /\ IF l.meta /\ all THEN Goto(p, "version") /\ UNCHANGED me ELSE Return(p, s)
  BY DEF CountTables
<1>2. Sound(p, "tables", l) /\ l \in Locals
  BY <1>1, TypeFacts
<1>3. l.next = TableCount + 1 /\ \A i \in Table : i < l.next
  BY <1>1, <1>2, TypeFacts DEF Sound, Learned, Locals, Table
<1>4. l.seen = 0 => Clean
  BY <1>2, <1>3, TypeFacts DEF Sound, Learned, Clean
<1>5. Held(p) > 0 =>
        /\ l.meta <=> meta # NoMeta
        /\ l.seen = 0 <=> tables = {}
        /\ all => tables = Table
  <2>1. Held(p) > 0 => Exact(p, "tables", l)
    BY <1>1, <1>2 DEF Sound, Held
  <2> QED BY <1>3, <2>1, TypeFacts DEF Exact
<1>6. CASE l.meta /\ all
  <2>1. /\ UNCHANGED db /\ UNCHANGED <<lock, fresh>>
        /\ pc' = [pc EXCEPT ![p] = "version"] /\ me' = [me EXCEPT ![p] = l]
    BY <1>1, <1>6, SameLocals DEF Goto, Keep
  <2>2. At("version", l) = l.then /\ At("tables", l) = l.then
    BY DEF At, Reading
  <2>3. Moves(p, "version", l)
    BY <1>1, <1>2, <2>1, <2>2, HoldsOn DEF Held, Labels
  <2>4. Role(p, "version", l)
    BY <1>2, <2>2 DEF Sound, Role, Reading
  <2>5. Learned(p, "version", l)
    BY <1>2, <1>6, <2>2 DEF Sound, Learned
  <2>6. Exact(p, "version", l)
    BY DEF Exact
  <2> QED BY <1>2, <2>1, <2>3, <2>4, <2>5, <2>6, LocalInv DEF Labels
<1>7. CASE ~(l.meta /\ all)
  <2>1. s \in Status /\ Return(p, s)
    BY <1>1, <1>7 DEF Status
  <2>2. s = "empty" => Clean
    BY <1>4
  <2>3. Held(p) > 0 => /\ s = "empty" <=> tables = {}
                       /\ s = "unversioned" => meta = NoMeta /\ tables = Table
    BY <1>5, TypeFacts DEF SchemaInv, DbSound
  <2> HIDE DEF s
  <2>4. s \notin {"versioned", "needs_migration"}
    BY DEF s
  <2> QED BY <1>1, <2>1, <2>2, <2>3, <2>4, ReturnInv DEF Reading
<1> QED BY <1>6, <1>7

LEMMA ReadVersionInv ==
  ASSUME SchemaInv, NEW p \in Proc, ReadVersion(p)
  PROVE  SchemaInv'
<1> DEFINE s == IF meta = NoRow THEN "partial"
                ELSE IF meta = CodeVersion[p] THEN "versioned"
                ELSE IF meta < CodeVersion[p] THEN "needs_migration" ELSE "code_too_old"
<1>1. pc[p] = "version" /\ Return(p, s) /\ Keep
  BY DEF ReadVersion
<1>2. meta # NoMeta /\ tables = Table /\ tables # {}
  BY <1>1, TypeFacts DEF Sound, Learned, SchemaInv, DbSound
<1>3. s \in {"versioned", "needs_migration"} => meta >= 0
  BY <1>2, TypeFacts DEF NoRow, NoMeta
<1>4. s \in Status /\ s # "empty" /\ s # "unversioned"
  BY DEF Status
<1> HIDE DEF s
<1> QED BY <1>1, <1>2, <1>3, <1>4, ReturnInv DEF Reading
-----------------------------------------------------------------------------
(* ensure_oauth_schema *)

Asking(l, then) == [l EXCEPT !.seen = 0, !.next = 1, !.then = then]

\* The start of a reading of the status.
LEMMA AskFacts ==
  ASSUME SchemaInv, NEW p \in Proc, NEW l \in Locals,
         NEW then \in {"ensure", "install", "waiting", "migrate"},
         then = "migrate" => p \in Migrator,
         then \in {"ensure", "waiting"} => p \in Worker,
         l.status \in {"versioned", "needs_migration"} => meta >= 0,
         l.status = "empty" => Clean,
         p \in Worker /\ then \in {"waiting", "install"} => Clean
  PROVE  /\ Asking(l, then) \in Locals
         /\ At("meta", Asking(l, then)) = then
         /\ Role(p, "meta", Asking(l, then))
         /\ Learned(p, "meta", Asking(l, then))
         /\ Exact(p, "meta", Asking(l, then))
<1> DEFINE k1 == [l EXCEPT !.seen = 0]
           k2 == [k1 EXCEPT !.next = 1]
           k  == [k2 EXCEPT !.then = then]
<1>1. k1 \in Locals /\ k1.seen = 0 /\ k1.status = l.status
  BY DEF Locals
<1> HIDE DEF k1
<1>2. k2 \in Locals /\ k2.seen = 0 /\ k2.next = 1 /\ k2.status = l.status
  BY <1>1 DEF Locals
<1> HIDE DEF k2
<1>3. then \in Labels
  BY DEF Labels
<1>4. /\ k \in Locals /\ k.seen = 0 /\ k.next = 1 /\ k.then = then
      /\ k.status = l.status
  BY <1>2, <1>3 DEF Locals
<1>5. Asking(l, then) = k
  BY Zenon DEF Asking, k1, k2
<1> HIDE DEF k
<1>6. At("meta", k) = then
  BY <1>4 DEF At, Reading
<1>7. Role(p, "meta", k)
  BY <1>4, <1>6 DEF Role, Migrating
<1>8. Learned(p, "meta", k)
  BY <1>4, <1>6 DEF Learned
<1> QED BY <1>4, <1>5, <1>6, <1>7, <1>8 DEF Exact

LEMMA LocalTyped == Local \in Locals /\ Local.status = "unknown"
BY SchemaConstants DEF Local, Locals, Status, Labels

LEMMA StartWorkerInv ==
  ASSUME SchemaInv, NEW p \in Proc, StartWorker(p)
  PROVE  SchemaInv'
<1> DEFINE l == Asking(Local, "ensure")
<1>1. /\ pc[p] = "idle" /\ p \in Worker /\ UNCHANGED db /\ UNCHANGED <<lock, fresh>>
      /\ pc' = [pc EXCEPT ![p] = "meta"] /\ me' = [me EXCEPT ![p] = l]
  BY DEF StartWorker, ReadStatus, Goto, Set, Keep, Asking
<1>2. /\ l \in Locals /\ At("meta", l) = "ensure"
      /\ Role(p, "meta", l) /\ Learned(p, "meta", l) /\ Exact(p, "meta", l)
  BY <1>1, TypeFacts, AskFacts, LocalTyped
<1> HIDE DEF l
<1>3. At("idle", me[p]) = "idle" /\ Depth(p, "idle") = 0 /\ Depth(p, "ensure") = 0
  BY DEF At, Reading, Depth, Installing, Migrating
<1>4. Moves(p, "meta", l)
  BY <1>1, <1>2, <1>3, HoldsOn DEF Held, Labels
<1> QED BY <1>1, <1>2, <1>4, LocalInv DEF Labels

LEMMA EnsureInv ==
  ASSUME SchemaInv, NEW p \in Proc, Ensure(p)
  PROVE  SchemaInv'
<1> DEFINE l == me[p]
           a == IF l.status = "empty" THEN "trylock"
                ELSE IF l.status = "versioned" THEN "ready"
                ELSE IF l.status = "code_too_old" \/ Strict THEN "refused" ELSE "warned"
<1>1. /\ pc[p] = "ensure" /\ UNCHANGED db /\ UNCHANGED <<lock, fresh>>
      /\ pc' = [pc EXCEPT ![p] = a] /\ me' = [me EXCEPT ![p] = l]
  BY SameLocals DEF Ensure, Goto, Keep
<1>2. Sound(p, "ensure", l) /\ l \in Locals
  BY <1>1, TypeFacts
<1>3. p \in Worker /\ p \notin Migrator
  BY <1>2, TypeFacts DEF Sound, Role, At, Reading
<1>4. a \in {"trylock", "ready", "refused", "warned"} /\ a \in Labels
  BY DEF Labels, Ended
<1>5. /\ a = "trylock" => l.status = "empty"
      /\ a = "ready" => l.status = "versioned"
  OBVIOUS
<1> HIDE DEF a
<1>6. At(a, l) = a /\ Depth(p, a) = 0 /\ Held(p) = 0
  BY <1>1, <1>3, <1>4 DEF At, Reading, Depth, Installing, Migrating, Held
<1>7. Moves(p, a, l)
  BY <1>1, <1>2, <1>4, <1>6, HoldsOn
<1>8. Role(p, a, l)
  BY <1>3, <1>4, <1>6 DEF Role, Migrating, Reading
<1>9. Learned(p, a, l)
  <2>1. a = "ready" => Installed
    BY <1>2, <1>5 DEF Sound, Learned, SchemaInv, DbSound, VersionTruthful, Installed
  <2> QED BY <1>2, <1>4, <1>5, <1>6, <2>1 DEF Sound, Learned
<1> QED BY <1>1, <1>2, <1>4, <1>6, <1>7, <1>8, <1>9, LocalInv

LEMMA WaitingInv ==
  ASSUME SchemaInv, NEW p \in Proc, Waiting(p)
  PROVE  SchemaInv'
<1> DEFINE l == me[p]
           a == IF l.status \in {"versioned", "needs_migration"} THEN AfterInstall(p)
                ELSE "trylock"
<1>1. /\ pc[p] = "waiting" /\ UNCHANGED db /\ UNCHANGED <<lock, fresh>>
      /\ pc' = [pc EXCEPT ![p] = a] /\ me' = [me EXCEPT ![p] = l]
  BY SameLocals DEF Waiting, Goto, Keep
<1>2. Sound(p, "waiting", l) /\ l \in Locals
  BY <1>1, TypeFacts
<1>3. p \in Worker /\ p \notin Migrator
  BY <1>2, TypeFacts DEF Sound, Role, At, Reading
<1>4. /\ a \in {"trylock", "ready"} /\ a \in Labels
      /\ a = "ready" => l.status \in {"versioned", "needs_migration"}
  BY <1>3 DEF Labels, Ended, AfterInstall
<1> HIDE DEF a
<1>5. At(a, l) = a /\ Depth(p, a) = 0 /\ Held(p) = 0 /\ At("waiting", l) = "waiting"
  BY <1>1, <1>3, <1>4 DEF At, Reading, Depth, Installing, Migrating, Held
<1>6. Moves(p, a, l)
  BY <1>1, <1>2, <1>4, <1>5, HoldsOn
<1>7. Role(p, a, l)
  BY <1>3, <1>4, <1>5 DEF Role, Migrating, Reading
<1>8. Learned(p, a, l)
  <2>1. a = "ready" => Installed
    BY <1>2, <1>4 DEF Sound, Learned, SchemaInv, DbSound, VersionTruthful, Installed
  <2> QED BY <1>2, <1>3, <1>4, <1>5, <2>1 DEF Sound, Learned
<1> QED BY <1>1, <1>2, <1>4, <1>5, <1>6, <1>7, <1>8, LocalInv

\* A process that ends without the lock.
LEMMA EndsInv ==
  ASSUME SchemaInv, NEW p \in Proc, NEW a \in {"refused", "done"},
         pc' = [pc EXCEPT ![p] = a], UNCHANGED <<db, me, fresh>>,
         lock' = IF Held(p) > 0 THEN Free ELSE lock
  PROVE  SchemaInv'
<1> DEFINE l == me[p]
<1>1. Sound(p, pc[p], l) /\ l \in Locals /\ me' = [me EXCEPT ![p] = l] /\ a \in Labels
  BY TypeFacts, SameLocals DEF Labels, Ended
<1>2. At(a, l) = a /\ Depth(p, a) = 0
  BY DEF At, Reading, Depth, Installing, Migrating
<1>3. Moves(p, a, l)
  <2>1. ~(Depth(p, At(a, l)) > 0)
    BY <1>2
  <2> QED BY <1>1, <2>1 DEF Moves
<1>4. Role(p, a, l)
  BY <1>2 DEF Role, Migrating, Reading
<1>5. Learned(p, a, l)
  BY <1>1, <1>2 DEF Sound, Learned
<1> QED BY <1>1, <1>2, <1>3, <1>4, <1>5, LocalInv

-----------------------------------------------------------------------------
(* install_oauth_baseline *)

LEMMA LockFacts ==
  ASSUME SchemaInv, NEW p \in Proc
  PROVE  /\ Held(p) \in 0 .. 2
         /\ Held(p) > 0 => lock.by = p /\ lock.depth = Held(p)
         /\ Held(p) = 0 /\ FreeFor(p) => lock = Free
         /\ Held(p) > 0 => FreeFor(p)
         /\ lock.by = p <=> Held(p) > 0
<1>1. Held(p) \in 0 .. 2
  BY DEF Held, Depth
<1>2. Held(p) > 0 => lock = [by |-> p, depth |-> Held(p)]
  BY DEF SchemaInv, LockIsHeld
<1>3. lock # Free => lock.by \in Proc /\ Held(lock.by) > 0
  BY DEF SchemaInv, LockIsHeld
<1>4. Held(p) = 0 /\ FreeFor(p) => lock = Free
  BY <1>3, TypeFacts, SchemaConstants DEF FreeFor
<1>5. lock.by = p => Held(p) > 0
  BY <1>3, TypeFacts DEF Free
<1> QED BY <1>1, <1>2, <1>4, <1>5 DEF FreeFor

LEMMA TryLockInv ==
  ASSUME SchemaInv, NEW p \in Proc, TryLock(p)
  PROVE  SchemaInv'
<1> DEFINE l == me[p]
<1>1. pc[p] = "trylock" /\ UNCHANGED db /\ UNCHANGED fresh
  BY DEF TryLock
<1>2. Sound(p, "trylock", l) /\ l \in Locals
  BY <1>1, TypeFacts
<1>3. At("trylock", l) = "trylock" /\ Held(p) = Depth(p, "trylock")
  BY <1>1 DEF At, Reading, Held
<1>4. Depth(p, "trylock") = IF p \in Migrator THEN 1 ELSE 0
  BY DEF Depth, Installing, Migrating
<1>5. /\ l.status \in {"versioned", "needs_migration"} => meta >= 0
      /\ l.status = "empty" => Clean
      /\ p \in Worker => Clean
  BY <1>2, <1>3 DEF Sound, Learned
<1>6. CASE FreeFor(p)
  <2> DEFINE k == Asking(l, "install")
  <2>1. /\ lock' = [by |-> p, depth |-> lock.depth + 1]
        /\ pc' = [pc EXCEPT ![p] = "meta"] /\ me' = [me EXCEPT ![p] = k]
    BY <1>6 DEF TryLock, Acquire, ReadStatus, Goto, Set, Asking
  <2>2. /\ k \in Locals /\ At("meta", k) = "install"
        /\ Role(p, "meta", k) /\ Learned(p, "meta", k) /\ Exact(p, "meta", k)
    BY <1>2, <1>5, TypeFacts, AskFacts
  <2> HIDE DEF k
  <2>3. Depth(p, "install") = Held(p) + 1
    BY <1>3, <1>4 DEF Depth, Installing
  <2>4. /\ lock.depth = Held(p)
        /\ Held(p) > 0 \/ lock = Free
    BY <1>6, LockFacts DEF Free
  <2>5. Moves(p, "meta", k)
    BY <1>1, <2>1, <2>2, <2>3, <2>4, LockFacts DEF Moves
  <2> QED BY <1>1, <2>2, <2>5, LocalInv DEF Labels
<1>7. CASE ~FreeFor(p)
  <2>1. Held(p) = 0 /\ p \in Worker /\ p \notin Migrator /\ UNCHANGED lock
    BY <1>3, <1>4, <1>7, LockFacts, TypeFacts DEF TryLock
  <2>2. CASE OutOfTries(l.tries)
    <3>1. pc' = [pc EXCEPT ![p] = "refused"] /\ UNCHANGED me
      BY <1>7, <2>2 DEF TryLock, Goto, AfterTimeout
    <3>2. UNCHANGED <<db, me, fresh>> /\ lock' = IF Held(p) > 0 THEN Free ELSE lock
      BY <1>1, <2>1, <3>1
    <3> QED BY <3>1, <3>2, EndsInv
  <2>3. CASE ~OutOfTries(l.tries)
    <3> DEFINE m == [l EXCEPT !.tries = @ + 1]
               k == Asking(m, "waiting")
    <3>1. pc' = [pc EXCEPT ![p] = "meta"] /\ me' = [me EXCEPT ![p] = k]
      BY <1>7, <2>3 DEF TryLock, ReadStatus, Goto, Set, Asking
    <3>2. m \in Locals /\ m.status = l.status
      BY <1>2, <2>3, SchemaConstants DEF OutOfTries, Locals
    <3> HIDE DEF m
    <3>3. /\ k \in Locals /\ At("meta", k) = "waiting"
          /\ Role(p, "meta", k) /\ Learned(p, "meta", k) /\ Exact(p, "meta", k)
      BY <1>5, <2>1, <3>2, AskFacts
    <3> HIDE DEF k
    <3>4. Depth(p, "waiting") = 0
      BY DEF Depth, Installing, Migrating
    <3>5. Moves(p, "meta", k)
      BY <1>1, <2>1, <3>1, <3>3, <3>4, HoldsOn DEF Labels
    <3> QED BY <1>1, <3>3, <3>5, LocalInv DEF Labels
  <2> QED BY <2>2, <2>3
<1> QED BY <1>6, <1>7
LEMMA InstallInv ==
  ASSUME SchemaInv, NEW p \in Proc, Install(p)
  PROVE  SchemaInv'
<1>0. PICK l \in Locals : l = me[p]
  BY TypeFacts
<1>1. /\ pc[p] = "install" /\ UNCHANGED <<lock, fresh>>
      /\ pc' = [pc EXCEPT ![p] = "release"] /\ me' = [me EXCEPT ![p] = l]
      /\ IF l.status = "empty" THEN CreateBaseline(p) ELSE UNCHANGED db
  BY <1>0, SameLocals DEF Install, Goto
<1>2. Sound(p, "install", l)
  BY <1>0, <1>1, TypeFacts
<1>3. /\ At("install", l) = "install" /\ At("release", l) = "release"
      /\ Held(p) = Depth(p, "release") /\ Held(p) > 0
  BY <1>0, <1>1 DEF At, Reading, Held, Depth, Installing
<1>4. Exact(p, "install", l) /\ Learned(p, "install", l)
  BY <1>0, <1>1, <1>2, <1>3 DEF Sound, Held
<1>5. l.status = "empty" <=> tables = {}
  BY <1>4 DEF Exact
<1>6. Moves(p, "release", l)
  BY <1>1, <1>3, HoldsOn DEF Labels
<1>7. Role(p, "release", l)
  BY <1>3 DEF Role, Migrating, Reading
<1>8. CASE l.status = "empty"
  <2>1. tables = {} /\ tables' = Table /\ meta' = CodeVersion[p] /\ shape' = CodeVersion[p]
    BY <1>1, <1>5, <1>8 DEF CreateBaseline
  <2>2. Installed' /\ meta' # NoMeta /\ meta' \in Nat /\ shape' = meta'
    BY <2>1, TypeFacts DEF Installed, NoMeta
  <2>3. meta = NoMeta
    BY <2>1, TypeFacts DEF SchemaInv, DbSound
  <2>4. DbSound' /\ Progress
    BY <2>1, <2>2, <2>3, TypeFacts DEF DbSound, VersionTruthful, Progress, Installed, NoMeta
  <2>5. Learned(p, "release", l)'
    BY <1>3, <1>4, <2>2 DEF Learned, Clean, Installed
  <2>6. Exact(p, "release", l)'
    BY <2>2 DEF Exact
  <2>7. /\ "release" \in Labels
        /\ tables' \in SUBSET Table /\ shape' \in Nat /\ meta' \in Nat \cup {NoRow, NoMeta}
    BY <2>1, <2>2 DEF Labels
  <2> QED BY <1>3, <1>6, <1>7, <2>4, <2>5, <2>6, <2>7, MoveInv
<1>9. CASE l.status # "empty"
  <2>1. UNCHANGED db /\ tables # {}
    BY <1>1, <1>5, <1>9
  <2>2. Learned(p, "release", l)
    BY <1>3, <1>4 DEF Learned
  <2>3. Exact(p, "release", l)
    BY <1>3, <1>4, <2>1 DEF Exact, Learned, Clean
  <2> QED BY <1>6, <1>7, <2>1, <2>2, <2>3, LocalInv DEF Labels
<1> QED BY <1>8, <1>9

\* The lock is given back once and the process goes on to a label where it is held once
\* less.
LEMMA ReleaseMoves ==
  ASSUME SchemaInv, NEW p \in Proc, NEW a \in Labels, Release(p),
         pc' = [pc EXCEPT ![p] = a], UNCHANGED <<me, fresh>>,
         Held(p) = Depth(p, At(a, me[p])) + 1
  PROVE  Moves(p, a, me[p])
<1>1. Depth(p, At(a, me[p])) \in 0 .. 2
  BY DEF Depth
<1>2. Held(p) > 0 /\ lock = [by |-> p, depth |-> Held(p)]
  BY <1>1 DEF SchemaInv, LockIsHeld
<1>3. lock' = IF Depth(p, At(a, me[p])) > 0
                THEN [by |-> p, depth |-> Depth(p, At(a, me[p]))] ELSE Free
  BY <1>1, <1>2 DEF Release
<1> QED BY <1>2, <1>3, SameLocals DEF Moves

LEMMA InstallFailsInv ==
  ASSUME SchemaInv, NEW p \in Proc, InstallFails(p)
  PROVE  SchemaInv'
<1> DEFINE l == me[p]
           a == IF p \in Worker THEN "refused" ELSE "unlock"
<1>1. /\ pc[p] = "install" /\ Release(p) /\ UNCHANGED db /\ UNCHANGED <<me, fresh>>
      /\ pc' = [pc EXCEPT ![p] = a]
  BY DEF InstallFails, Goto
<1>2. Sound(p, "install", l) /\ l \in Locals
  BY <1>1, TypeFacts
<1>3. /\ a \in {"refused", "unlock"} /\ a \in Labels
      /\ a = "refused" <=> p \in Worker
      /\ p \in Worker <=> p \notin Migrator
  BY TypeFacts DEF Labels, Ended
<1> HIDE DEF a
<1>4. At(a, l) = a /\ At("install", l) = "install"
  BY <1>3 DEF At, Reading
<1>5. Held(p) = Depth(p, At(a, l)) + 1
  BY <1>1, <1>3, <1>4 DEF Held, Depth, Installing, Migrating
<1>6. Moves(p, a, l)
  BY <1>1, <1>3, <1>5, ReleaseMoves
<1>7. Role(p, a, l)
  BY <1>3, <1>4 DEF Role, Migrating, Reading
<1>8. Learned(p, a, l) /\ Exact(p, a, l)
  BY <1>2, <1>3, <1>4 DEF Sound, Learned, Exact
<1> QED BY <1>1, <1>2, <1>3, <1>6, <1>7, <1>8, LocalInv

LEMMA LeaveInstallInv ==
  ASSUME SchemaInv, NEW p \in Proc, LeaveInstall(p)
  PROVE  SchemaInv'
<1> DEFINE l == me[p]
           a == AfterInstall(p)
<1>1. /\ pc[p] = "release" /\ Release(p) /\ UNCHANGED db /\ UNCHANGED <<me, fresh>>
      /\ pc' = [pc EXCEPT ![p] = a]
  BY DEF LeaveInstall, Goto
<1>2. Sound(p, "release", l) /\ l \in Locals
  BY <1>1, TypeFacts
<1>3. /\ a \in {"ready", "unlock"} /\ a \in Labels
      /\ a = "ready" <=> p \in Worker
      /\ p \in Worker <=> p \notin Migrator
  BY TypeFacts DEF Labels, Ended, AfterInstall
<1> HIDE DEF a
<1>4. At(a, l) = a /\ At("release", l) = "release"
  BY <1>3 DEF At, Reading
<1>5. Held(p) = Depth(p, At(a, l)) + 1 /\ Depth(p, "release") > 0
  BY <1>1, <1>3, <1>4 DEF Held, Depth, Installing, Migrating
<1>6. Moves(p, a, l)
  BY <1>1, <1>3, <1>5, ReleaseMoves
<1>7. Role(p, a, l)
  BY <1>3, <1>4 DEF Role, Migrating, Reading
<1>8. Learned(p, a, l) /\ Exact(p, a, l)
  <2>1. p \in Worker => Installed
    BY <1>2, <1>4, <1>5 DEF Sound, Exact
  <2> QED BY <1>2, <1>3, <1>4, <2>1 DEF Sound, Learned, Exact
<1> QED BY <1>1, <1>2, <1>3, <1>6, <1>7, <1>8, LocalInv

-----------------------------------------------------------------------------
(* OAuthMigrateCommand._migrate *)

LEMMA StartMigratorInv ==
  ASSUME SchemaInv, NEW p \in Proc, StartMigrator(p)
  PROVE  SchemaInv'
<1>1. pc[p] = "idle" /\ p \in Migrator /\ UNCHANGED db /\ UNCHANGED fresh
  BY DEF StartMigrator
<1>2. p \notin Worker /\ Held(p) = 0
  BY <1>1, TypeFacts DEF Held, At, Reading, Depth, Installing, Migrating
<1>3. CASE FreeFor(p)
  <2>1. PICK dry \in BOOLEAN : Acquire(p) /\ ReadStatus(p, [Local EXCEPT !.dry = dry], "migrate")
    BY <1>3 DEF StartMigrator
  <2> DEFINE m == [Local EXCEPT !.dry = dry]
             k == Asking(m, "migrate")
  <2>2. /\ lock = Free /\ lock' = [by |-> p, depth |-> lock.depth + 1]
        /\ pc' = [pc EXCEPT ![p] = "meta"] /\ me' = [me EXCEPT ![p] = k]
    BY <1>2, <1>3, <2>1, LockFacts DEF Acquire, ReadStatus, Goto, Set, Asking
  <2>3. m \in Locals /\ m.status = "unknown"
    BY LocalTyped DEF Locals
  <2> HIDE DEF m
  <2>4. /\ k \in Locals /\ At("meta", k) = "migrate"
        /\ Role(p, "meta", k) /\ Learned(p, "meta", k) /\ Exact(p, "meta", k)
    BY <1>1, <1>2, <2>3, AskFacts
  <2> HIDE DEF k
  <2>5. Depth(p, "migrate") = 1
    BY DEF Depth, Installing, Migrating
  <2>6. Moves(p, "meta", k)
    BY <1>1, <2>2, <2>4, <2>5 DEF Moves, Free
  <2> QED BY <1>1, <2>4, <2>6, LocalInv DEF Labels
<1>4. CASE ~FreeFor(p)
  <2>1. pc' = [pc EXCEPT ![p] = "done"] /\ UNCHANGED <<me, lock>>
    BY <1>4 DEF StartMigrator, Goto
  <2>2. UNCHANGED <<db, me, fresh>> /\ lock' = IF Held(p) > 0 THEN Free ELSE lock
    BY <1>1, <1>2, <2>1
  <2> QED BY <2>1, <2>2, EndsInv
<1> QED BY <1>3, <1>4

\* A process that holds the lock once, and goes on holding it once.
LEMMA OnceMoves ==
  ASSUME SchemaInv, NEW p \in Proc, NEW l \in Locals, pc[p] \in Migrating,
         NEW a \in Migrating \cup {"trylock"},
         pc' = [pc EXCEPT ![p] = a], me' = [me EXCEPT ![p] = l], UNCHANGED <<lock, fresh>>
  PROVE  /\ p \in Migrator /\ p \notin Worker /\ Held(p) = 1 /\ At(a, l) = a
         /\ a \in Labels /\ Moves(p, a, l) /\ Role(p, a, l)
         /\ Sound(p, pc[p], me[p]) /\ Exact(p, pc[p], me[p])
<1>1. Sound(p, pc[p], me[p]) /\ At(pc[p], me[p]) = pc[p] /\ At(a, l) = a
  BY TypeFacts DEF At, Reading, Migrating
<1>2. p \in Migrator /\ p \notin Worker
  BY <1>1, TypeFacts DEF Sound, Role
<1>3. Held(p) = 1 /\ Depth(p, a) = 1 /\ a \in Labels
  BY <1>1, <1>2 DEF Held, Depth, Installing, Migrating, Labels
<1>4. Exact(p, pc[p], me[p])
  BY <1>1, <1>3 DEF Sound, Held
<1>5. Moves(p, a, l)
  BY <1>1, <1>3, HoldsOn
<1>6. Role(p, a, l)
  BY <1>1, <1>2, <1>3 DEF Role, Migrating, Reading
<1> QED BY <1>1, <1>2, <1>3, <1>4, <1>5, <1>6

LEMMA MigrateInv ==
  ASSUME SchemaInv, NEW p \in Proc, Migrate(p)
  PROVE  SchemaInv'
<1> DEFINE adopt == me[p].status = "unversioned" /\ Compatible
           l == [me[p] EXCEPT !.current = IF adopt THEN 1 ELSE 0]
           a == IF me[p].status = "empty" /\ ~me[p].dry THEN "trylock"
                ELSE IF adopt THEN IF me[p].dry THEN "step" ELSE "adopt"
                ELSE IF me[p].status = "needs_migration" THEN "current" ELSE "unlock"
<1>1. /\ pc[p] = "migrate" /\ UNCHANGED db /\ UNCHANGED <<lock, fresh>>
      /\ pc' = [pc EXCEPT ![p] = a] /\ me' = [me EXCEPT ![p] = l]
  BY DEF Migrate, Goto, Set, Keep
<1>2. /\ l \in Locals /\ l.status = me[p].status /\ l.dry = me[p].dry
      /\ adopt => l.current = 1
  BY TypeFacts DEF Locals
<1>3. /\ a \in {"trylock", "step", "adopt", "current", "unlock"}
      /\ a = "adopt" => adopt /\ ~l.dry
      /\ a = "step" => l.dry
      /\ a = "current" => l.status = "needs_migration"
  BY <1>2
<1> HIDE DEF l, a
<1>4. /\ p \notin Worker /\ At(a, l) = a /\ a \in Labels /\ Moves(p, a, l) /\ Role(p, a, l)
      /\ Sound(p, "migrate", me[p]) /\ Exact(p, "migrate", me[p])
  BY <1>1, <1>2, <1>3, OnceMoves DEF Migrating
<1>5. Learned(p, a, l)
  BY <1>2, <1>3, <1>4 DEF Sound, Learned
<1>6. adopt => meta = NoMeta /\ tables = Table /\ shape = 1
  BY <1>4, TypeFacts DEF Exact, Compatible, SchemaInv, DbSound, NoMeta
<1>7. a = "current" => meta >= 0
  BY <1>3, <1>5 DEF Learned
<1>8. Exact(p, a, l)
  BY <1>2, <1>3, <1>6, <1>7 DEF Exact
<1> QED BY <1>1, <1>2, <1>4, <1>5, <1>8, LocalInv

LEMMA AdoptInv ==
  ASSUME SchemaInv, NEW p \in Proc, Adopt(p)
  PROVE  SchemaInv'
<1> DEFINE l == me[p]
<1>1. /\ pc[p] = "adopt" /\ UNCHANGED <<tables, shape, lock, fresh>>
      /\ pc' = [pc EXCEPT ![p] = "mark"] /\ me' = [me EXCEPT ![p] = l]
      /\ l \in Locals
  BY SameLocals, TypeFacts DEF Adopt, Goto
<1>2. /\ p \notin Worker /\ Held(p) = 1 /\ Moves(p, "mark", l) /\ Role(p, "mark", l)
      /\ At("mark", l) = "mark" /\ Sound(p, "adopt", l) /\ Exact(p, "adopt", l)
  <2>1. pc[p] \in Migrating /\ "mark" \in Migrating \cup {"trylock"}
    BY <1>1 DEF Migrating
  <2> HIDE DEF l
  <2>2. me[p] = l
    BY DEF l
  <2> QED BY <1>1, <2>1, <2>2, OnceMoves
<1>3. meta = NoMeta /\ tables = Table /\ meta' = NoRow /\ shape = 1
  BY <1>1, <1>2 DEF Adopt, Exact
<1>4. DbSound' /\ Progress
  BY <1>1, <1>3 DEF DbSound, VersionTruthful, Progress, Installed, NoMeta, NoRow
<1>5. Learned(p, "mark", l)'
  <2>1. /\ l.status \notin {"versioned", "needs_migration"}
        /\ l.status = "empty" => tables = {}
    BY <1>2, <1>3 DEF Sound, Learned, NoMeta, Clean, Installed
  <2> QED BY <1>1, <1>2, <2>1 DEF Learned, Clean
<1>6. Exact(p, "mark", l)'
  BY <1>1, <1>2, <1>3 DEF Exact
<1> QED BY <1>1, <1>2, <1>3, <1>4, <1>5, <1>6, TypeFacts, MoveInv DEF Labels

\* A holder of the lock gives the database a version that is at least the recorded one.
LEMMA VersionInv ==
  ASSUME SchemaInv, NEW p \in Proc, NEW l \in Locals, NEW v \in Nat,
         pc[p] \in {"mark", "step"}, tables = Table, v >= meta,
         pc' = [pc EXCEPT ![p] = "step"], me' = [me EXCEPT ![p] = l],
         UNCHANGED <<tables, lock, fresh>>,
         meta' = v, shape' = v,
         l.status = me[p].status, l.dry \/ l.current = v
  PROVE  SchemaInv'
<1>1. /\ p \notin Worker /\ Held(p) = 1 /\ Moves(p, "step", l) /\ Role(p, "step", l)
      /\ At("step", l) = "step" /\ Sound(p, pc[p], me[p])
  BY OnceMoves DEF Migrating
<1>2. Installed' /\ DbSound' /\ Progress
  BY TypeFacts DEF DbSound, VersionTruthful, Progress, Installed, NoMeta
<1>3. Learned(p, "step", l)'
  BY <1>1, <1>2 DEF Learned, Clean, Installed
<1>4. Exact(p, "step", l)'
  BY DEF Exact
<1>5. /\ Held(p) > 0 /\ "step" \in Labels
      /\ tables' \in SUBSET Table /\ shape' \in Nat /\ meta' \in Nat \cup {NoRow, NoMeta}
  BY <1>1 DEF Labels
<1> QED BY <1>1, <1>2, <1>3, <1>4, <1>5, MoveInv

LEMMA MarkInv ==
  ASSUME SchemaInv, NEW p \in Proc, Mark(p)
  PROVE  SchemaInv'
<1> DEFINE l == me[p]
<1>1. /\ pc[p] = "mark" /\ UNCHANGED <<tables, shape, lock, fresh>> /\ meta' = 1
      /\ pc' = [pc EXCEPT ![p] = "step"] /\ me' = [me EXCEPT ![p] = l]
      /\ l \in Locals
  BY SameLocals, TypeFacts DEF Mark, Goto
<1>2. Exact(p, "mark", l)
  BY <1>1, OnceMoves DEF Migrating
<1>3. meta = NoRow /\ shape = 1 /\ l.current = 1 /\ tables = Table
  BY <1>2 DEF Exact, SchemaInv, DbSound, NoRow, NoMeta
<1>4. 1 >= meta /\ 1 \in Nat
  BY <1>3 DEF NoRow
<1> HIDE DEF l
<1>5. l.status = me[p].status
  BY DEF l
<1> QED BY <1>1, <1>3, <1>4, <1>5, VersionInv

LEMMA ReadCurrentInv ==
  ASSUME SchemaInv, NEW p \in Proc, ReadCurrent(p)
  PROVE  SchemaInv'
<1> DEFINE l == [me[p] EXCEPT !.current = meta]
<1>1. /\ pc[p] = "current" /\ UNCHANGED db /\ UNCHANGED <<lock, fresh>>
      /\ pc' = [pc EXCEPT ![p] = "step"] /\ me' = [me EXCEPT ![p] = l]
  BY DEF ReadCurrent, Goto, Set, Keep
<1>2. l \in Locals /\ l.status = me[p].status /\ l.current = meta
  BY TypeFacts DEF Locals
<1> HIDE DEF l
<1>3. /\ p \notin Worker /\ At("step", l) = "step" /\ Moves(p, "step", l) /\ Role(p, "step", l)
      /\ Sound(p, "current", me[p]) /\ Exact(p, "current", me[p])
  BY <1>1, <1>2, OnceMoves DEF Migrating
<1>4. Learned(p, "step", l)
  BY <1>2, <1>3 DEF Sound, Learned
<1>5. Exact(p, "step", l)
  BY <1>2, <1>3 DEF Exact
<1> QED BY <1>1, <1>2, <1>3, <1>4, <1>5, LocalInv DEF Labels

LEMMA MigrateStepInv ==
  ASSUME SchemaInv, NEW p \in Proc, MigrateStep(p)
  PROVE  SchemaInv'
<1> DEFINE v == me[p].current + 1
           l == [me[p] EXCEPT !.current = v]
<1>1. /\ pc[p] = "step" /\ UNCHANGED <<lock, fresh>>
      /\ pc' = [pc EXCEPT ![p] = "step"] /\ me' = [me EXCEPT ![p] = l]
      /\ IF me[p].dry THEN UNCHANGED db ELSE shape' = v /\ meta' = v /\ UNCHANGED tables
  BY SameLocals DEF MigrateStep, Set
<1>2. me[p] \in Locals /\ v \in Nat \cup {NoRow, NoMeta}
  BY TypeFacts DEF Locals, NoRow, NoMeta
<1> HIDE DEF v
<1>3. l \in Locals /\ l.status = me[p].status /\ l.dry = me[p].dry /\ l.current = v
  BY <1>2 DEF Locals
<1> HIDE DEF l
<1>4. /\ p \notin Worker /\ At("step", l) = "step" /\ Moves(p, "step", l) /\ Role(p, "step", l)
      /\ Sound(p, "step", me[p]) /\ Exact(p, "step", me[p])
  BY <1>1, <1>3, OnceMoves DEF Migrating
<1>5. CASE me[p].dry
  <2>1. Learned(p, "step", l) /\ Exact(p, "step", l)
    BY <1>3, <1>4, <1>5 DEF Sound, Learned, Exact
  <2> QED BY <1>1, <1>3, <1>4, <1>5, <2>1, LocalInv DEF Labels
<1>6. CASE ~me[p].dry
  <2>1. meta >= 0 /\ me[p].current = meta /\ tables = Table
    BY <1>4, <1>6 DEF Exact, SchemaInv, DbSound, VersionTruthful
  <2>2. v \in Nat /\ v >= meta
    BY <2>1, TypeFacts DEF v, NoRow, NoMeta
  <2> QED BY <1>1, <1>3, <1>6, <2>1, <2>2, VersionInv
<1> QED BY <1>5, <1>6

LEMMA MigrateEndsInv ==
  ASSUME SchemaInv, NEW p \in Proc, MigrateEnds(p)
  PROVE  SchemaInv'
<1> DEFINE l == me[p]
<1>1. /\ pc[p] = "step" /\ UNCHANGED db /\ UNCHANGED <<lock, fresh>>
      /\ pc' = [pc EXCEPT ![p] = "unlock"] /\ me' = [me EXCEPT ![p] = l] /\ l \in Locals
  BY SameLocals, TypeFacts DEF MigrateEnds, Goto, Keep
<1>2. /\ p \notin Worker /\ At("unlock", l) = "unlock" /\ Moves(p, "unlock", l)
      /\ Role(p, "unlock", l) /\ Sound(p, "step", l)
  <2>1. pc[p] \in Migrating /\ "unlock" \in Migrating \cup {"trylock"}
    BY <1>1 DEF Migrating
  <2> HIDE DEF l
  <2>2. me[p] = l
    BY DEF l
  <2> QED BY <1>1, <2>1, <2>2, OnceMoves
<1>3. Learned(p, "unlock", l) /\ Exact(p, "unlock", l)
  BY <1>2 DEF Sound, Learned, Exact
<1> QED BY <1>1, <1>2, <1>3, LocalInv DEF Labels

LEMMA UnlockInv ==
  ASSUME SchemaInv, NEW p \in Proc, Unlock(p)
  PROVE  SchemaInv'
<1>1. /\ pc[p] = "unlock" /\ Release(p) /\ UNCHANGED <<db, me, fresh>>
      /\ pc' = [pc EXCEPT ![p] = "done"]
  BY DEF Unlock, Goto
<1>2. Held(p) = 1
  BY <1>1 DEF Held, At, Reading, Depth, Installing, Migrating
<1>3. lock' = Free
  BY <1>1, <1>2, LockFacts DEF Release
<1>4. lock' = IF Held(p) > 0 THEN Free ELSE lock
  BY <1>2, <1>3
<1> QED BY <1>1, <1>4, EndsInv

-----------------------------------------------------------------------------
(* A crash, a restart, every step *)

LEMMA CrashInv ==
  ASSUME SchemaInv, NEW p \in Proc, Crash(p)
  PROVE  SchemaInv'
<1>1. /\ lock' = IF lock.by = p THEN Free ELSE lock
      /\ pc' = [pc EXCEPT ![p] = "done"] /\ UNCHANGED <<db, me, fresh>>
  BY DEF Crash, Goto
<1> QED BY <1>1, LockFacts, EndsInv

LEMMA RestartInv ==
  ASSUME SchemaInv, NEW p \in Proc, Restart(p)
  PROVE  SchemaInv'
<1>1. /\ pc[p] \in Ended /\ UNCHANGED db /\ UNCHANGED <<lock, fresh>>
      /\ pc' = [pc EXCEPT ![p] = "idle"] /\ me' = [me EXCEPT ![p] = Local]
  BY DEF Restart, Goto, Set, Keep
<1>2. At("idle", Local) = "idle" /\ Depth(p, "idle") = 0 /\ Held(p) = 0
  BY <1>1 DEF At, Reading, Depth, Installing, Migrating, Held, Ended
<1>3. Local \in Locals /\ Local.status = "unknown"
  BY LocalTyped
<1>4. Moves(p, "idle", Local)
  BY <1>1, <1>2, <1>3, HoldsOn DEF Labels
<1>5. Role(p, "idle", Local) /\ Learned(p, "idle", Local)
  BY <1>2, <1>3 DEF Role, Learned, Migrating, Reading
<1> QED BY <1>1, <1>2, <1>3, <1>4, <1>5, LocalInv DEF Labels
LEMMA SchemaInit == Init => SchemaInv
<1> SUFFICES ASSUME Init PROVE SchemaInv
  OBVIOUS
<1>1. PICK t \in SUBSET Table, s \in Nat \cap ({0, 1} \cup {CodeVersion[p] : p \in Proc}),
           v \in {NoMeta} \cup {CodeVersion[p] : p \in Proc} :
        /\ tables = t /\ shape = s /\ meta = v
        /\ IF v # NoMeta THEN t = Table /\ s = v
           ELSE IF t = Table THEN s \in {0, 1} ELSE s = 0
  BY DEF Init
<1>2. /\ lock = Free /\ pc = [p \in Proc |-> "idle"] /\ me = [p \in Proc |-> Local]
      /\ fresh \in BOOLEAN
  BY DEF Init
<1>3. meta # NoMeta => meta \in Nat
  BY <1>1, SchemaConstants
<1>4. SchemaTypeOK
  <2>1. lock \in [by : Proc \cup {Nobody}, depth : Nat]
    BY <1>2 DEF Free
  <2>2. pc \in [Proc -> Labels] /\ me \in [Proc -> Locals]
    BY <1>2, LocalTyped DEF Labels
  <2>3. tables \subseteq Table /\ shape \in Nat /\ meta \in Nat \cup {NoRow, NoMeta}
    BY <1>1, <1>3
  <2> QED BY <1>2, <2>1, <2>2, <2>3 DEF SchemaTypeOK, Locals
<1>5. DbSound
  BY <1>1, <1>3 DEF DbSound, VersionTruthful, NoMeta
<1>6. \A p \in Proc : At("idle", Local) = "idle" /\ Depth(p, "idle") = 0
  BY DEF At, Reading, Depth, Installing, Migrating
<1>7. LockIsHeld
  BY <1>2, <1>6 DEF LockIsHeld, Held
<1>8. \A p \in Proc : Sound(p, pc[p], me[p])
  BY <1>2, <1>6, LocalTyped DEF Sound, Role, Learned, Migrating, Reading
<1> QED BY <1>4, <1>5, <1>7, <1>8 DEF SchemaInv

LEMMA SchemaStep ==
  ASSUME SchemaInv, [Next]_vars
  PROVE  SchemaInv'
<1>1. CASE UNCHANGED vars
  BY <1>1 DEF vars, db, SchemaInv, SchemaTypeOK, DbSound, VersionTruthful, LockIsHeld, Held,
              Sound, Role, Learned, Exact, Installed, Clean
<1>2. ASSUME NEW p \in Proc, Step(p) PROVE SchemaInv'
  BY <1>2, ReadMetaInv, ReadTableInv, CountTablesInv, ReadVersionInv, StartWorkerInv, EnsureInv,
     TryLockInv, WaitingInv, InstallInv, InstallFailsInv, LeaveInstallInv, StartMigratorInv,
     MigrateInv, AdoptInv, MarkInv, ReadCurrentInv, MigrateStepInv, MigrateEndsInv, UnlockInv
     DEF Step
<1>3. ASSUME NEW p \in Proc, Crash(p) \/ Restart(p) PROVE SchemaInv'
  BY <1>3, CrashInv, RestartInv
<1> QED BY <1>1, <1>2, <1>3 DEF Next

LEMMA SchemaInductive == Spec => []SchemaInv
BY SchemaInit, SchemaStep, PTL DEF Spec

\* A step that changes the recorded version has the database to itself.
LEMMA VersionStep ==
  ASSUME SchemaInv, [Next]_vars, meta >= 0
  PROVE  meta' >= meta
<1>1. ASSUME NEW p \in Proc, Step(p), meta' # meta
      PROVE  \/ pc[p] = "install" /\ me[p].status = "empty"
             \/ pc[p] \in {"adopt", "mark"}
             \/ pc[p] = "step" /\ ~me[p].dry /\ meta' = me[p].current + 1
  BY <1>1, Zenon
     DEF Step, ReadMeta, ReadTable, CountTables, ReadVersion, StartWorker, Ensure, TryLock, Waiting,
         Install, InstallFails, LeaveInstall, StartMigrator, Migrate, Adopt, Mark, ReadCurrent,
         MigrateStep, MigrateEnds, Unlock, Keep, db
<1>2. ASSUME NEW p \in Proc, Step(p), meta' # meta
      PROVE  meta' >= meta
  <2>1. At(pc[p], me[p]) = pc[p] /\ Held(p) > 0
    BY <1>1, <1>2, TypeFacts
       DEF Held, At, Reading, Depth, Installing, Migrating
  <2>2. Exact(p, pc[p], me[p])
    BY <2>1, TypeFacts DEF Sound, Held
  <2>3. tables # {}
    BY TypeFacts DEF SchemaInv, DbSound, VersionTruthful
  <2>4. pc[p] = "step" /\ ~me[p].dry /\ meta' = me[p].current + 1
    BY <1>1, <1>2, <2>2, <2>3 DEF Exact, NoRow, NoMeta
  <2> QED BY <2>2, <2>4, TypeFacts DEF Exact, NoRow, NoMeta
<1>3. (\E p \in Proc : Crash(p) \/ Restart(p)) \/ UNCHANGED vars => UNCHANGED meta
  BY DEF Crash, Restart, Keep, db, vars
<1> QED BY <1>2, <1>3, TypeFacts DEF Next, SchemaInv, SchemaTypeOK, NoRow, NoMeta

-----------------------------------------------------------------------------
\* Every variable holds what the code stores in it.
THEOREM SchemaTypeCorrect == Spec => []SchemaTypeOK
BY SchemaInductive, PTL DEF SchemaInv

\* The recorded version is the version of the tables, whoever installed, adopted and
\* migrated them.
THEOREM VersionIsTruthful == Spec => []VersionTruthful
BY SchemaInductive, PTL DEF SchemaInv, DbSound

\* No step takes a recorded version back.
THEOREM VersionKept == Spec => NeverDowngraded
<1>1. SchemaInv /\ [Next]_vars => [meta >= 0 => meta' >= meta]_vars
  BY VersionStep
<1> QED BY <1>1, SchemaInductive, PTL DEF Spec, NeverDowngraded

\* A worker that is ready has a complete schema with a version.
THEOREM ReadyIsInstalled == Spec => []ReadyMeansInstalled
<1>1. SchemaInv => ReadyMeansInstalled
  BY TypeFacts DEF ReadyMeansInstalled, Proc, Sound, Learned, Installed
<1> QED BY <1>1, SchemaInductive, PTL

\* A process that has ended does not keep the lock.
THEOREM LockIsReturned == Spec => []LockNotLeaked
<1>1. SchemaInv => LockNotLeaked
  BY LockFacts DEF LockNotLeaked, Held, At, Reading, Depth, Installing, Migrating, Ended
<1> QED BY <1>1, SchemaInductive, PTL
=============================================================================
