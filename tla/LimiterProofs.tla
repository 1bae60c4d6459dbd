---------------------------- MODULE LimiterProofs ----------------------------
(***************************************************************************)
(* No store lets more than the limit pass within a window, no caller is    *)
(* refused who did not use the limit up, no more passwords are guessed,    *)
(* and the memory of a worker is bounded: proofs about RateLimiter, for    *)
(* any workers, keys, limits and windows and any number of requests.       *)
(***************************************************************************)
EXTENDS RateLimiter, TLAPS, FiniteSetTheorems

Jobs == [n : 0 .. MaxCalls, worker : Store, key : Key \cup {Redis}, phase : {"check", "hit"},
         now : 0 .. MaxClock, seen : SUBSET Hit]

\* A handler keeps its copy of a window, also when it is gone and its SET is not.
Lingers(c) == call'[c] = call[c] /\ (pc'[c] = pc[c] \/ (pc[c] = "set" /\ pc'[c] = "sent"))

\* Where a request's hit may still be counted, or its login is to be verified.
Busy == {"connect", "get", "set", "sent", "verify"}

\* What a request that is still handled was called with.
Called(j) ==
  /\ j.n \in 1 .. MaxCalls /\ j.worker \in Worker /\ j.key \in Key
  /\ j.phase = "check" => j.key \in Login

Handled ==
  \A c \in Call :
    /\ pc[c] \in Busy => Called(call[c]) /\ call[c].n <= arrived
    /\ pc[c] = "verify" => call[c].key \in Login
    /\ pc[c] = "refused" => call[c].key \in Key
    /\ pc[c] \in {"connect", "get", "set", "sent"} => shared

\* No call is in the future.
NowOK == \A c \in Call : call[c].now <= clock

\* A window never holds more hits than the limit.
Small(H, k) == IsFiniteSet(H) /\ Cardinality(H) <= Limit[k]

\* A worker's window has every recent hit it let pass, if it was not evicted or restarted.
WorkerWindows ==
  \A w \in Worker, k \in Key :
    /\ Small(memory[w][k], k)
    /\ <<w, k>> \notin loose => Recent(granted[w][k], k, clock) \subseteq memory[w][k]

\* Hits that SET wrote expire before the window is forgotten.
Kept(H, k, until) == \A h \in H : h.at + Window[k] < until

\* So has the window in Redis, and the copy a handler works on, if its calls never overlap.
RedisWindow(k) ==
  /\ Small(redis[k].hits, k) /\ Kept(redis[k].hits, k, redis[k].until)
  /\ \A h \in redis[k].hits : h.at <= clock
  /\ <<Redis, k>> \notin loose =>
       /\ Recent(granted[Redis][k], k, clock) \subseteq redis[k].hits
       /\ \A c, d \in OnKey(k) : c = d

Copy(c) == LET k == call[c].key IN
  pc[c] \in {"set", "sent"} =>
    /\ Small(call[c].seen, k) /\ \A h \in call[c].seen : h.at <= clock
    /\ <<Redis, k>> \notin loose => Recent(granted[Redis][k], k, clock) \subseteq call[c].seen

RedisWindows == (\A k \in Key : RedisWindow(k)) /\ \A c \in Call : Copy(c)

\* Every hit of a window was let pass, here or by the worker that took over from Redis.
Earned(h, k) == \E s \in Store : \E g \in granted[s][k] : g.n = h.n /\ g.at >= h.at

\* Hits of one window are of different requests, none of which is still handled.
Distinct(H) == \A h, i \in H : h.n = i.n => h = i
Fresh(H)    == \A h \in H : h.n <= arrived /\ \A c \in Call : pc[c] \in Busy => h.n # call[c].n

Numbered == \A c, d \in Call : pc[c] \in Busy /\ pc[d] \in Busy /\ c # d => call[c].n # call[d].n

AccountOf(H) == H \subseteq Hit /\ Distinct(H) /\ Fresh(H)

InMemoryEarned ==
  \A w \in Worker, k \in Key : AccountOf(memory[w][k]) /\ memory[w][k] \subseteq granted[w][k]

StoredEarned(k) ==
  AccountOf(redis[k].hits) /\ (k \notin torn => \A h \in redis[k].hits : Earned(h, k))

CopyEarned(c) == LET k == call[c].key IN
  pc[c] \in {"set", "sent"} =>
    /\ AccountOf(call[c].seen) /\ \A h \in call[c].seen : call[c].now < h.at + Window[k]
    /\ k \notin torn => \A h \in call[c].seen : Earned(h, k)

\* Whoever was refused has a full window of hits before him.
Shown(H, k, now) ==
  /\ IsFiniteSet(H) /\ Cardinality(H) >= Limit[k] /\ Distinct(H)
  /\ \A h \in H : now < h.at + Window[k] /\ Earned(h, k)

Refused(c) == LET k == call[c].key IN
  pc[c] = "refused" /\ k \notin torn => \E H \in SUBSET Hit : Shown(H, k, call[c].now)

Accounted ==
  /\ Numbered /\ InMemoryEarned
  /\ \A k \in Key : StoredEarned(k)
  /\ \A c \in Call : CopyEarned(c) /\ Refused(c)

\* Without Redis, the failed logins of a key at a worker: none is of a later round than the
\* current one, no handler guessed twice in one round or can do so while the window is full,
\* and as many hits are in the window since a failure as there were rounds.
Guessed(w, k) ==
  /\ \A f \in failed[w][k] : f.round <= round[w][k] /\ f.at <= clock
  /\ \A f, g \in failed[w][k] : f.round = g.round /\ f.slot = g.slot => f = g
  /\ \A c \in Call, f \in failed[w][k] :
       /\ pc[c] = "verify" /\ call[c].worker = w /\ call[c].key = k /\ f.slot = c
       /\ Full(Recent(memory[w][k], k, clock), k)
       => f.round # round[w][k]
  /\ \A g \in Within(failed[w][k], k, clock) :
       round[w][k] - g.round <= Cardinality({h \in memory[w][k] : h.at >= g.at})

Guesses == ~shared => \A w \in Worker, k \in Login : <<w, k>> \in loose \/ Guessed(w, k)

-----------------------------------------------------------------------------
(* Types *)

LTypeInv == ThrottleTypeOK /\ Handled

\* Where the answer of its limiter, full or not, takes the call j of handler c.
Concluded(c, j, full) ==
  /\ pc' \in [Call -> {"idle", "refused", "connect", "get", "set", "sent", "verify"}]
  /\ call' \in [Call -> Jobs]
  /\ granted' \in [Store -> [Key -> SUBSET Hit]]
  /\ pc'[c] \in {"idle", "refused", "verify"}
  /\ pc'[c] = "verify" =>
       /\ ~full /\ j.phase = "check" /\ call'[c] = [j EXCEPT !.now = 0, !.seen = {}]
       /\ Called(call'[c])
  /\ pc'[c] = "refused" => full /\ call'[c] = [Quiet EXCEPT !.key = j.key, !.now = j.now]
  /\ pc'[c] = "idle" => call'[c] = Quiet
  /\ pc'[c] \in Busy => Called(call'[c]) /\ call'[c].n = j.n
  /\ pc'[c] = "verify" => call'[c].key \in Login
  /\ pc'[c] = "refused" => call'[c].key \in Key
  /\ call'[c].now \in {0, j.now}
  /\ \A d \in Call \ {c} : pc'[d] = pc[d] /\ call'[d] = call[d]

\* What a handler concludes from the limiter's answer is of the right types.
LEMMA ConcludeType ==
  ASSUME LTypeInv, NEW c \in Call, NEW j \in Jobs, Called(j),
         NEW H, NEW k, NEW s \in Store, Conclude(c, j, Full(H, k), s)
  PROVE  Concluded(c, j, Full(H, k))
<1> DEFINE full == Full(H, k)
           to == IF Passes(j, full) THEN "verify"
                 ELSE IF full /\ (j.phase = "check" \/ j.key \notin Login) THEN "refused" ELSE "idle"
           next == CASE to = "verify"  -> [j EXCEPT !.now = 0, !.seen = {}]
                     [] to = "refused" -> [Quiet EXCEPT !.key = j.key, !.now = j.now]
                     [] to = "idle"    -> Quiet
<1>1. MaxClock \in Nat /\ MaxCalls \in Nat /\ 0 \in 0 .. MaxClock /\ 0 \in 0 .. MaxCalls
  BY LimiterConstants
<1>2. pc' = [pc EXCEPT ![c] = to] /\ call' = [call EXCEPT ![c] = next]
  BY DEF Conclude
<1>3. to \in {"verify", "refused", "idle"} /\ (to = "verify" => Passes(j, full))
  OBVIOUS
<1>4. Quiet \in Jobs
  BY <1>1 DEF Quiet, Jobs, Store
<1>5. /\ next \in Jobs
      /\ to = "verify" =>
           ~full /\ j.phase = "check" /\ next = [j EXCEPT !.now = 0, !.seen = {}] /\ Called(next)
      /\ to = "refused" => full /\ next = [Quiet EXCEPT !.key = j.key, !.now = j.now]
      /\ to = "idle" => next = Quiet
      /\ to = "verify" => next.key \in Login /\ next.n = j.n
      /\ to = "refused" => next.key \in Key
      /\ next.now \in {0, j.now}
  <2>1. CASE to = "verify"
    <3>1. next = [j EXCEPT !.now = 0, !.seen = {}] /\ j.phase = "check" /\ ~full
      BY <2>1, <1>3 DEF Passes
    <3>2. QED BY <3>1, <2>1, <1>1 DEF Jobs, Called
  <2>2. CASE to = "refused"
    <3>1. next = [Quiet EXCEPT !.key = j.key, !.now = j.now] /\ full
      BY <2>2
    <3>2. next \in Jobs
      BY <3>1, <1>4 DEF Jobs, Called
    <3>3. next.key \in Key /\ next.now = j.now
      BY <3>1 DEF Quiet, Called
    <3>4. QED BY <3>1, <3>2, <3>3, <2>2
  <2>3. CASE to = "idle"
    BY <2>3, <1>4 DEF Quiet
  <2>4. QED BY <1>3, <2>1, <2>2, <2>3
<1>6. [n |-> j.n, at |-> j.now] \in Hit
  BY DEF Hit, Jobs, Called
<1>7. granted' \in [Store -> [Key -> SUBSET Hit]]
  <2>1. CASE j.phase = "hit" /\ ~full
    <3>1. granted' = [granted EXCEPT ![s][j.key] = @ \cup {[n |-> j.n, at |-> j.now]}]
      BY <2>1 DEF Conclude
    <3>2. granted[s][j.key] \cup {[n |-> j.n, at |-> j.now]} \in SUBSET Hit
      BY <1>6 DEF LTypeInv, ThrottleTypeOK, Called
    <3>3. QED BY <3>1, <3>2 DEF LTypeInv, ThrottleTypeOK, Called
  <2>2. CASE ~(j.phase = "hit" /\ ~full)
    BY <2>2 DEF Conclude, LTypeInv, ThrottleTypeOK
  <2>3. QED BY <2>1, <2>2
<1>8. call \in [Call -> Jobs] /\ pc \in [Call -> {"idle", "refused", "connect", "get", "set", "sent", "verify"}]
  BY DEF LTypeInv, ThrottleTypeOK, Jobs
<1> HIDE DEF to, next
<1>9. pc'[c] = to /\ call'[c] = next
  BY <1>2, <1>8
<1>10. pc' \in [Call -> {"idle", "refused", "connect", "get", "set", "sent", "verify"}] /\ call' \in [Call -> Jobs]
  BY <1>2, <1>3, <1>5, <1>8
<1>11. \A d \in Call \ {c} : pc'[d] = pc[d] /\ call'[d] = call[d]
  BY <1>2, <1>8
<1>12. to \in Busy => to = "verify"
  BY <1>3 DEF Busy
<1>13. QED BY <1>3, <1>5, <1>7, <1>9, <1>10, <1>11, <1>12 DEF Concluded

-----------------------------------------------------------------------------
(* The keys a worker tracks *)

NoRepeat(t) == \A i, j \in DOMAIN t : t[i] = t[j] => i = j

\* Dropping the older half makes room for the key that was added last.
LEMMA PrunedKeys ==
  ASSUME NEW t \in Seq(Key), Len(t) <= MaxTracked + 1, NoRepeat(t)
  PROVE  /\ Pruned(t) \in Seq(Key) /\ Len(Pruned(t)) <= MaxTracked /\ NoRepeat(Pruned(t))
         /\ Listed(Pruned(t)) \subseteq Listed(t)
         /\ Len(t) > 0 => t[Len(t)] \in Listed(Pruned(t))
<1>1. MaxTracked \in Nat /\ MaxTracked >= 1 /\ Len(t) \in Nat /\ DOMAIN t = 1 .. Len(t)
  BY LimiterConstants
<1>2. CASE Len(t) <= MaxTracked
  BY <1>1, <1>2 DEF Pruned, Listed
<1>3. CASE Len(t) > MaxTracked
  <2> DEFINE m == Len(t) \div 2
             s == SubSeq(t, m + 1, Len(t))
  <2>1. m \in Nat /\ m >= 1 /\ m + 1 <= Len(t)
    BY <1>1, <1>3
  <2> HIDE DEF m
  <2>2. /\ s \in Seq(Key) /\ Len(s) = Len(t) - m
        /\ \A i \in 1 .. Len(t) - m : s[i] = t[m + i]
    BY <1>1, <2>1
  <2>3. DOMAIN s = 1 .. Len(t) - m
    BY <2>2, <2>1, <1>1
  <2> HIDE DEF s
  <2>4. Pruned(t) = s
    BY <1>1, <1>3 DEF Pruned, s, m
  <2>5. Len(s) <= MaxTracked
    BY <1>1, <2>1, <2>2
  <2>6. NoRepeat(s)
    <3> SUFFICES ASSUME NEW i \in DOMAIN s, NEW j \in DOMAIN s, s[i] = s[j]
                 PROVE  i = j
      BY DEF NoRepeat
    <3>1. t[m + i] = t[m + j] /\ m + i \in DOMAIN t /\ m + j \in DOMAIN t
      BY <1>1, <2>1, <2>2, <2>3
    <3>2. m + i = m + j
      BY <3>1 DEF NoRepeat
    <3>3. QED BY <3>2, <2>3, <2>1, <1>1
  <2>7. Listed(s) \subseteq Listed(t)
    <3> SUFFICES ASSUME NEW i \in DOMAIN s
                 PROVE  s[i] \in Listed(t)
      BY DEF Listed
    <3>1. s[i] = t[m + i] /\ m + i \in DOMAIN t
      BY <1>1, <2>1, <2>2, <2>3
    <3>2. QED BY <3>1 DEF Listed
  <2>8. t[Len(t)] \in Listed(s)
    <3>1. Len(t) - m \in DOMAIN s /\ s[Len(t) - m] = t[Len(t)]
      BY <1>1, <2>1, <2>2, <2>3
    <3>2. QED BY <3>1 DEF Listed
  <2>9. QED BY <2>2, <2>4, <2>5, <2>6, <2>7, <2>8
<1>4. QED BY <1>1, <1>2, <1>3

\* What a call does to the keys that are tracked.
LEMMA Tracking ==
  ASSUME NEW t \in Seq(Key), Len(t) <= MaxTracked, NoRepeat(t),
         NEW j, j.key \in Key
  PROVE  /\ Track(t, j) \in Seq(Key) /\ Len(Track(t, j)) <= MaxTracked /\ NoRepeat(Track(t, j))
         /\ Listed(Track(t, j)) \subseteq Listed(t) \cup {j.key}
         /\ j.phase # "check" => j.key \in Listed(Track(t, j))
         /\ j.phase = "check" => Track(t, j) = t
<1>1. CASE j.phase = "check" \/ j.key \in Listed(t)
  BY <1>1 DEF Track
<1>2. CASE ~(j.phase = "check" \/ j.key \in Listed(t))
  <2> DEFINE k == j.key
             a == Append(t, k)
  <2>1. /\ a \in Seq(Key) /\ Len(a) = Len(t) + 1 /\ a[Len(t) + 1] = k
        /\ \A i \in 1 .. Len(t) : a[i] = t[i]
    OBVIOUS
  <2>2. DOMAIN a = 1 .. Len(t) + 1 /\ DOMAIN t = 1 .. Len(t) /\ Len(t) \in Nat
    BY <2>1
  <2>3. k \notin Listed(t) /\ Track(t, j) = Pruned(a)
    BY <1>2 DEF Track
  <2> HIDE DEF k, a
  <2>4. NoRepeat(a)
    <3> SUFFICES ASSUME NEW i \in DOMAIN a, NEW l \in DOMAIN a, a[i] = a[l]
                 PROVE  i = l
      BY DEF NoRepeat
    <3>1. \A x \in 1 .. Len(t) : t[x] # k
      BY <2>2, <2>3 DEF Listed
    <3>2. CASE i = Len(t) + 1 \/ l = Len(t) + 1
      BY <3>1, <3>2, <2>1, <2>2
    <3>3. CASE i # Len(t) + 1 /\ l # Len(t) + 1
      <4>1. i \in DOMAIN t /\ l \in DOMAIN t /\ t[i] = t[l]
        BY <3>3, <2>1, <2>2
      <4>2. QED BY <4>1 DEF NoRepeat
    <3>4. QED BY <3>2, <3>3
  <2>5. Listed(a) \subseteq Listed(t) \cup {k}
    <3> SUFFICES ASSUME NEW i \in DOMAIN a, a[i] # k
                 PROVE  a[i] \in Listed(t)
      BY DEF Listed
    <3>1. i \in DOMAIN t /\ a[i] = t[i]
      BY <2>1, <2>2
    <3>2. QED BY <3>1 DEF Listed
  <2>6. MaxTracked \in Nat /\ Len(a) <= MaxTracked + 1
    BY <2>1, <2>2, LimiterConstants
  <2>7. /\ Pruned(a) \in Seq(Key) /\ Len(Pruned(a)) <= MaxTracked /\ NoRepeat(Pruned(a))
        /\ Listed(Pruned(a)) \subseteq Listed(a) /\ k \in Listed(Pruned(a))
    <3>1. Len(a) > 0 /\ a[Len(a)] = k
      BY <2>1, <2>2
    <3>2. QED BY <3>1, <2>1, <2>4, <2>6, PrunedKeys
  <2>8. QED BY <2>3, <2>5, <2>7, <1>2 DEF k
<1>3. QED BY <1>1, <1>2

-----------------------------------------------------------------------------
(* The effect of a call that is answered from the worker's memory *)

Seen(w, k) == Recent(memory[w][k], k, clock)
HitOf(l)   == [n |-> l.n, at |-> clock]

\* Window w, k is as it was, or was evicted.
KeptOrDropped(w, k) ==
  \/ memory'[w][k] = memory[w][k]
  \/ memory'[w][k] = {} /\ (Seen(w, k) = {} \/ <<w, k>> \in loose')

\* What answering from memory does to the windows, and which call it concludes.
LEMMA MemoryEffect ==
  ASSUME LTypeInv, MemoryBounded, NEW c \in Call, NEW l \in Jobs, Called(l), InMemory(c, l)
  PROVE  /\ tracked' \in [Worker -> Seq(Key)]
         /\ memory' \in [Worker -> [Key -> SUBSET Hit]]
         /\ MemoryBounded'
         /\ \A w \in Worker, k \in Key :
              w # l.worker \/ k # l.key => KeptOrDropped(w, k)
         /\ memory'[l.worker][l.key] = Added(Seen(l.worker, l.key), l.key, l.phase, HitOf(l))
         /\ loose \subseteq loose' /\ loose' \subseteq Store \X Key
         /\ \A k \in Key : <<Redis, k>> \in loose' => <<Redis, k>> \in loose
         /\ [l EXCEPT !.now = clock] \in Jobs /\ Called([l EXCEPT !.now = clock])
         /\ Conclude(c, [l EXCEPT !.now = clock], Full(Seen(l.worker, l.key), l.key), l.worker)
<1> DEFINE u == l.worker
           x == l.key
           j == [l EXCEPT !.now = clock]
           kept == Track(tracked[u], j)
           new == Added(Seen(u, x), x, j.phase, [n |-> j.n, at |-> clock])
           window(k) == IF k \notin Listed(kept) THEN {} ELSE IF k = x THEN new ELSE memory[u][k]
           lost == {k \in Listed(tracked[u]) \ Listed(kept) : Seen(u, k) # {}}
<1>1. /\ u \in Worker /\ x \in Key /\ l.n \in 1 .. MaxCalls /\ l.phase \in {"check", "hit"}
      /\ clock \in 0 .. MaxClock
  BY DEF LTypeInv, ThrottleTypeOK, Called, Jobs
<1>2. /\ j \in Jobs /\ Called(j) /\ j.worker = u /\ j.key = x /\ j.n = l.n /\ j.phase = l.phase
  BY <1>1 DEF Jobs, Called
<1>3. /\ tracked' = [tracked EXCEPT ![u] = kept]
      /\ memory' = [memory EXCEPT ![u] = [k \in Key |-> window(k)]]
      /\ loose' = loose \cup {<<u, k>> : k \in lost}
      /\ Conclude(c, j, Full(Seen(u, x), x), u)
  BY DEF InMemory, Seen
<1>4. /\ tracked \in [Worker -> Seq(Key)] /\ memory \in [Worker -> [Key -> SUBSET Hit]]
      /\ loose \subseteq Store \X Key
  BY DEF LTypeInv, ThrottleTypeOK
<1>5. Len(tracked[u]) <= MaxTracked /\ NoRepeat(tracked[u]) /\ tracked[u] \in Seq(Key)
  BY <1>1, <1>4 DEF MemoryBounded, NoRepeat
<1>6. /\ kept \in Seq(Key) /\ Len(kept) <= MaxTracked /\ NoRepeat(kept)
      /\ j.phase # "check" => x \in Listed(kept)
      /\ j.phase = "check" => kept = tracked[u]
  BY <1>1, <1>2, <1>5, Tracking
<1>7. new = Added(Seen(u, x), x, l.phase, HitOf(l)) /\ HitOf(l) \in Hit
  BY <1>1, <1>2 DEF HitOf, Hit
<1>8. new \in SUBSET Hit
  <2>1. Seen(u, x) \in SUBSET Hit
    BY <1>1, <1>4 DEF Seen, Recent
  <2>2. QED BY <2>1, <1>7 DEF Added
<1>9. Listed(tracked[u]) \subseteq Key /\ Listed(kept) \subseteq Key
  <2>1. \A t \in Seq(Key) : Listed(t) \subseteq Key
    BY DEF Listed
  <2>2. QED BY <2>1, <1>5, <1>6
<1>10. \A k \in Key : memory[u][k] # {} => k \in Listed(tracked[u])
  BY <1>1 DEF MemoryBounded
<1> HIDE DEF kept, new, j
<1>11. \A k \in Key : window(k) \in SUBSET Hit
  BY <1>1, <1>4, <1>8
<1>12. memory' \in [Worker -> [Key -> SUBSET Hit]] /\ memory'[u] = [k \in Key |-> window(k)]
  BY <1>1, <1>3, <1>4, <1>11
<1>13. /\ tracked' \in [Worker -> Seq(Key)] /\ tracked'[u] = kept
       /\ \A w \in Worker \ {u} : tracked'[w] = tracked[w] /\ memory'[w] = memory[w]
  BY <1>1, <1>3, <1>4, <1>6
<1>14. loose \subseteq loose' /\ loose' \subseteq Store \X Key
  <2>1. lost \subseteq Key /\ u \in Store
    BY <1>1, <1>9 DEF Store
  <2>2. QED BY <2>1, <1>3, <1>4
<1>15. MemoryBounded'
  <2> SUFFICES ASSUME NEW w \in Worker
               PROVE  /\ Len(tracked'[w]) <= MaxTracked /\ NoRepeat(tracked'[w])
                      /\ \A k \in Key : memory'[w][k] # {} => k \in Listed(tracked'[w])
    BY DEF MemoryBounded, NoRepeat, Listed
  <2>1. CASE w = u
    BY <2>1, <1>6, <1>12, <1>13
  <2>2. CASE w # u
    BY <2>2, <1>13 DEF MemoryBounded, NoRepeat
  <2>3. QED BY <2>1, <2>2
<1>16. ASSUME NEW w \in Worker, NEW k \in Key, w # u \/ k # x
       PROVE  KeptOrDropped(w, k)
  <2>1. CASE w # u
    BY <2>1, <1>13 DEF KeptOrDropped
  <2>2. CASE w = u /\ k \in Listed(kept)
    BY <2>2, <1>12, <1>16 DEF KeptOrDropped
  <2>3. CASE w = u /\ k \notin Listed(kept)
    <3>1. memory'[w][k] = {}
      BY <2>3, <1>12
    <3>2. CASE k \in Listed(tracked[u])
      BY <2>3, <3>1, <3>2, <1>3 DEF KeptOrDropped
    <3>3. CASE k \notin Listed(tracked[u])
      BY <2>3, <3>1, <3>3, <1>10 DEF KeptOrDropped
    <3>4. QED BY <3>2, <3>3
  <2>4. QED BY <2>1, <2>2, <2>3
<1>17. memory'[u][x] = Added(Seen(u, x), x, l.phase, HitOf(l))
  <2>1. CASE x \in Listed(kept)
    BY <2>1, <1>1, <1>7, <1>12
  <2>2. CASE x \notin Listed(kept)
    <3>1. l.phase = "check" /\ memory[u][x] = {}
      BY <2>2, <1>1, <1>2, <1>6, <1>10
    <3>2. Added(Seen(u, x), x, l.phase, HitOf(l)) = {}
      BY <3>1 DEF Added, Seen, Recent
    <3>3. QED BY <2>2, <3>2, <1>1, <1>12
  <2>3. QED BY <2>1, <2>2
<1>18. \A k \in Key : <<Redis, k>> \in loose' => <<Redis, k>> \in loose
  BY <1>1, <1>3, LimiterConstants
<1>19. QED
  <2>1. j \in Jobs /\ Called(j) /\ Conclude(c, j, Full(Seen(u, x), x), u)
    BY <1>2, <1>3
  <2>2. QED BY <2>1, <1>12, <1>13, <1>14, <1>15, <1>16, <1>17, <1>18 DEF j

-----------------------------------------------------------------------------
(* Types, the memory's bound and the clock, step by step *)

Base == LTypeInv /\ MemoryBounded /\ NowOK

\* Initially nothing is tracked and nobody is handled.
LEMMA BaseInit == Init => Base
<1> SUFFICES ASSUME Init PROVE Base
  OBVIOUS
<1>1. MaxClock \in Nat /\ MaxCalls \in Nat /\ MaxTracked \in Nat /\ 0 \in 0 .. MaxClock /\ 0 \in 0 .. MaxCalls
  BY LimiterConstants
<1>2. ThrottleTypeOK
  <2>1. Quiet \in Jobs
    BY <1>1 DEF Quiet, Jobs, Store
  <2>2. call \in [Call -> Jobs] /\ \A c \in Call : pc[c] = "idle"
    BY <2>1 DEF Init
  <2>3. redis \in [Key -> [hits : SUBSET Hit, until : Nat]]
    BY DEF Init
  <2>4. memory \in [Worker -> [Key -> SUBSET Hit]] 
    BY DEF Init
  <2>8. failed \in [Worker -> [Key -> SUBSET Guess]] /\ round \in [Worker -> [Key -> Nat]]
    BY DEF Init
  <2>5. granted \in [Store -> [Key -> SUBSET Hit]]
    BY DEF Init
  <2>6. tracked \in [Worker -> Seq(Key)]
    BY DEF Init
  <2>7. QED BY <1>1, <2>2, <2>3, <2>4, <2>5, <2>6, <2>8 DEF Init, ThrottleTypeOK, Jobs
<1>3. Handled
  BY DEF Init, Handled, Busy
<1>4. MemoryBounded
  BY <1>1 DEF Init, MemoryBounded
<1>5. NowOK
  BY DEF Init, NowOK, Quiet
<1>6. QED BY <1>2, <1>3, <1>4, <1>5 DEF Base, LTypeInv

\* A step of one handler keeps the base if it leaves the handler with what it needs next.
LEMMA HandlerBase ==
  ASSUME Base, NEW c \in Call, ThrottleTypeOK', MemoryBounded',
         clock' = clock, shared' = shared, arrived' \in {arrived, arrived + 1},
         \A d \in Call \ {c} : pc'[d] = pc[d] /\ call'[d] = call[d],
         pc'[c] \in Busy => Called(call'[c]) /\ call'[c].n <= arrived',
         pc'[c] = "verify" => call'[c].key \in Login,
         pc'[c] = "refused" => call'[c].key \in Key,
         pc'[c] \in {"connect", "get", "set", "sent"} => shared,
         call'[c].now <= clock
  PROVE  Base'
<1>1. LTypeInv /\ NowOK
  BY DEF Base
<1>2. ASSUME NEW d \in Call
      PROVE  /\ pc'[d] \in Busy => Called(call'[d]) /\ call'[d].n <= arrived'
             /\ pc'[d] = "verify" => call'[d].key \in Login
             /\ pc'[d] = "refused" => call'[d].key \in Key
             /\ pc'[d] \in {"connect", "get", "set", "sent"} => shared'
             /\ call'[d].now <= clock'
  <2>1. CASE d = c
    BY <2>1
  <2>2. CASE d # c
    <3>1. pc'[d] = pc[d] /\ call'[d] = call[d]
      BY <2>2
    <3>2. call[d].n \in Int /\ arrived \in Int
      BY <1>1 DEF LTypeInv, ThrottleTypeOK
    <3>3. QED BY <3>1, <3>2, <1>1 DEF LTypeInv, Handled, NowOK
  <2>3. QED BY <2>1, <2>2
<1>3. Handled' /\ NowOK'
  BY <1>2 DEF Handled, NowOK, Called
<1>4. QED BY <1>3 DEF Base, LTypeInv

\* The base survives a call answered from memory.
LEMMA MemoryBase ==
  ASSUME Base, NEW c \in Call, NEW l \in Jobs, Called(l), InMemory(c, l), l.n <= arrived',
         clock' = clock, shared' = shared, arrived' \in {arrived, arrived + 1}, arrived' <= MaxCalls,
         unavailable' \in [Worker -> BOOLEAN], redis' \in [Key -> [hits : SUBSET Hit, until : Nat]],
         failed' \in [Worker -> [Key -> SUBSET Guess]], round' \in [Worker -> [Key -> Nat]],
         torn' \subseteq Key
  PROVE  Base'
<1> DEFINE j == [l EXCEPT !.now = clock]
           full == Full(Seen(l.worker, l.key), l.key)
<1>1. LTypeInv /\ MemoryBounded /\ NowOK
  BY DEF Base
<1>2. /\ tracked' \in [Worker -> Seq(Key)] /\ memory' \in [Worker -> [Key -> SUBSET Hit]]
      /\ MemoryBounded' /\ loose' \subseteq Store \X Key
      /\ j \in Jobs /\ Called(j) /\ Conclude(c, j, full, l.worker)
  BY <1>1, MemoryEffect
<1>3. l.worker \in Store
  BY DEF Called, Store
<1>11. j.now = clock /\ j.n = l.n /\ j.key = l.key
  BY DEF Jobs
<1> HIDE DEF j
<1>4. Concluded(c, j, full)
  BY <1>1, <1>2, <1>3, ConcludeType
<1>5. clock \in 0 .. MaxClock /\ arrived \in 0 .. MaxCalls /\ shared \in BOOLEAN
  BY <1>1 DEF LTypeInv, ThrottleTypeOK
<1>6. arrived' \in 0 .. MaxCalls
  BY <1>5, LimiterConstants
<1>7. ThrottleTypeOK'
  BY <1>2, <1>4, <1>5, <1>6 DEF ThrottleTypeOK, Jobs, Concluded
<1>8. j.now <= clock /\ 0 <= clock
  BY <1>5, <1>11
<1>9. arrived' = arrived \/ arrived' = arrived + 1
  OBVIOUS
<1>10. pc'[c] \notin {"connect", "get", "set", "sent"}
  BY <1>4 DEF Concluded
<1>12. QED BY <1>2, <1>4, <1>7, <1>8, <1>9, <1>10, <1>11, HandlerBase DEF Concluded
\* The local variables a handler starts with.
LEMMA StartsAs ==
  ASSUME NEW n \in 0 .. MaxCalls, NEW w \in Store, NEW k \in Key, NEW phase \in {"check", "hit"},
         Quiet \in Jobs
  PROVE  [Quiet EXCEPT !.n = n, !.worker = w, !.key = k, !.phase = phase] \in Jobs
<1> DEFINE l1 == [Quiet EXCEPT !.n = n]
           l2 == [l1 EXCEPT !.worker = w]
           l3 == [l2 EXCEPT !.key = k]
<1>1. l1 \in Jobs
  BY DEF Jobs
<1> HIDE DEF l1
<1>2. l2 \in Jobs
  BY <1>1 DEF Jobs
<1> HIDE DEF l2
<1>3. l3 \in Jobs
  BY <1>2 DEF Jobs
<1> HIDE DEF l3
<1>4. [l3 EXCEPT !.phase = phase] \in Jobs
  BY <1>3 DEF Jobs
<1>5. QED BY <1>4 DEF l1, l2, l3

\* A handler that enters the limiter is answered from memory, or awaits Redis.
LEMMA Entering ==
  ASSUME NEW c, NEW l, Enter(c, l)
  PROVE  \/ InMemory(c, l) /\ ~(shared /\ ~unavailable[l.worker])
         \/ /\ shared /\ pc' = [pc EXCEPT ![c] = "connect"] /\ call' = [call EXCEPT ![c] = l]
            /\ UNCHANGED <<tracked, memory, granted, loose>>
BY DEF Enter

\* The call of a request that arrives.
NewCall(w, k) == [Quiet EXCEPT !.n = arrived + 1, !.worker = w, !.key = k,
                               !.phase = IF k \in Login THEN "check" ELSE "hit"]

\* A request that arrives is called with its own number, worker and key.
LEMMA Arriving ==
  ASSUME Base, NEW c \in Call, NEW w \in Worker, NEW k \in Key, Arrive(c, w, k)
  PROVE  /\ NewCall(w, k) \in Jobs /\ Called(NewCall(w, k)) /\ Enter(c, NewCall(w, k))
         /\ NewCall(w, k).n = arrived + 1 /\ NewCall(w, k).worker = w /\ NewCall(w, k).key = k
         /\ NewCall(w, k).phase = IF k \in Login THEN "check" ELSE "hit"
         /\ arrived' = arrived + 1 /\ pc[c] \in {"idle", "refused"}
         /\ UNCHANGED <<clock, shared, unavailable, redis, failed, round, torn>>
<1> DEFINE phase == IF k \in Login THEN "check" ELSE "hit"
           n == arrived + 1
           l == [Quiet EXCEPT !.n = n, !.worker = w, !.key = k, !.phase = phase]
<1>1. phase \in {"check", "hit"} /\ (phase = "check" => k \in Login)
  OBVIOUS
<1>2. /\ arrived < MaxCalls /\ arrived' = arrived + 1 /\ Enter(c, l) /\ pc[c] \in {"idle", "refused"}
      /\ UNCHANGED <<clock, shared, unavailable, redis, failed, round, torn>>
  BY DEF Arrive
<1>3. n \in 0 .. MaxCalls /\ n \in 1 .. MaxCalls /\ w \in Store
  BY <1>2, LimiterConstants DEF Base, LTypeInv, ThrottleTypeOK, Store
<1>4. Quiet \in Jobs
  BY LimiterConstants DEF Quiet, Jobs, Store
<1>5. NewCall(w, k) = l
  BY DEF NewCall
<1>6. l.n = n /\ l.worker = w /\ l.key = k /\ l.phase = phase
  BY DEF Quiet
<1>7. l \in Jobs
  <2> HIDE DEF n, phase
  <2>1. QED BY <1>1, <1>3, <1>4, StartsAs
<1>8. Called(l)
  <2> HIDE DEF l
  <2>1. QED BY <1>1, <1>3, <1>6 DEF Called
<1> HIDE DEF l
<1>9. QED BY <1>2, <1>5, <1>6, <1>7, <1>8

\* A failed login counts under the number of its check.
LEMMA LoginFailing ==
  ASSUME Base, NEW c \in Call, LoginFails(c)
  PROVE  LET l == [call[c] EXCEPT !.phase = "hit"] IN
         /\ l \in Jobs /\ Called(l) /\ l.phase = "hit" /\ Enter(c, l) /\ Called(call[c])
         /\ l.n = call[c].n /\ l.key = call[c].key /\ l.worker = call[c].worker
         /\ pc[c] = "verify" /\ UNCHANGED <<clock, shared, unavailable, redis, arrived, torn>>
<1>1. pc[c] = "verify" /\ call[c] \in Jobs
  BY DEF LoginFails, Base, LTypeInv, ThrottleTypeOK, Jobs
<1>2. Called(call[c])
  BY <1>1 DEF Base, LTypeInv, Handled, Busy
<1>3. QED BY <1>1, <1>2 DEF LoginFails, Jobs, Called

\* What a failed login leaves behind, without Redis.
LEMMA GuessTyped ==
  ASSUME Base, NEW c \in Call, LoginFails(c), ~shared
  PROVE  LET w == call[c].worker
             k == call[c].key
             r == IF Full(Recent(memory[w][k], k, clock), k) THEN round[w][k] ELSE round[w][k] + 1
             f == [n |-> call[c].n, at |-> clock, slot |-> c, round |-> r]
         IN  /\ w \in Worker /\ k \in Key
             /\ round' = [round EXCEPT ![w][k] = r]
             /\ failed' = [failed EXCEPT ![w][k] = @ \cup {f}]
             /\ round' \in [Worker -> [Key -> Nat]] /\ failed' \in [Worker -> [Key -> SUBSET Guess]]
<1> DEFINE w == call[c].worker
           k == call[c].key
           full == Full(Recent(memory[w][k], k, clock), k)
           r == IF full THEN round[w][k] ELSE round[w][k] + 1
           f == [n |-> call[c].n, at |-> clock, slot |-> c, round |-> r]
<1>1. Called(call[c]) /\ clock \in 0 .. MaxClock
  BY LoginFailing DEF Base, LTypeInv, ThrottleTypeOK
<1>2. /\ w \in Worker /\ k \in Key /\ call[c].n \in 1 .. MaxCalls
      /\ round \in [Worker -> [Key -> Nat]] /\ failed \in [Worker -> [Key -> SUBSET Guess]]
  BY <1>1 DEF Called, Base, LTypeInv, ThrottleTypeOK
<1>3. /\ round' = IF full THEN round ELSE [round EXCEPT ![w][k] = @ + 1]
      /\ failed' = [failed EXCEPT ![w][k] =
                       @ \cup {[n |-> call[c].n, at |-> clock, slot |-> c, round |-> round'[w][k]]}]
  BY DEF LoginFails
<1> HIDE DEF w, k, full
<1>4. r \in Nat /\ round' = [round EXCEPT ![w][k] = r] /\ round'[w][k] = r
  <2>1. CASE full
    BY <2>1, <1>2, <1>3
  <2>2. CASE ~full
    BY <2>2, <1>2, <1>3
  <2>3. QED BY <2>1, <2>2
<1> HIDE DEF r
<1>5. failed' = [failed EXCEPT ![w][k] = @ \cup {f}] /\ f \in Guess
  BY <1>1, <1>2, <1>3, <1>4 DEF Guess
<1>6. round' \in [Worker -> [Key -> Nat]]
  BY <1>2, <1>4
<1> HIDE DEF f
<1>7. failed[w][k] \cup {f} \in SUBSET Guess
  BY <1>2, <1>5
<1>8. failed' \in [Worker -> [Key -> SUBSET Guess]]
  BY <1>2, <1>5, <1>7
<1>9. QED BY <1>2, <1>4, <1>5, <1>6, <1>8 DEF w, k, full, r, f

\* Every step keeps the types, the bound on what is tracked and the order of the calls in time.
LEMMA BaseStep == Base /\ [Next]_vars => Base'
<1> SUFFICES ASSUME Base, [Next]_vars PROVE Base'
  OBVIOUS
<1>1. LTypeInv /\ MemoryBounded /\ NowOK
  BY DEF Base
<1> USE <1>1
<1>2. /\ clock \in 0 .. MaxClock /\ arrived \in 0 .. MaxCalls /\ MaxCalls \in Nat /\ MaxClock \in Nat
      /\ unavailable \in [Worker -> BOOLEAN] /\ redis \in [Key -> [hits : SUBSET Hit, until : Nat]]
      /\ failed \in [Worker -> [Key -> SUBSET Guess]] /\ round \in [Worker -> [Key -> Nat]]
      /\ loose \subseteq Store \X Key /\ torn \subseteq Key /\ shared \in BOOLEAN
      /\ pc \in [Call -> {"idle", "refused", "connect", "get", "set", "sent", "verify"}]
      /\ call \in [Call -> Jobs]
  BY LimiterConstants DEF LTypeInv, ThrottleTypeOK, Jobs
<1>3. \A c \in Call : pc[c] \in Busy =>
        Called(call[c]) /\ call[c].n <= arrived /\ Saved(c) \in [Key -> [hits : SUBSET Hit, until : Nat]]
  <2> SUFFICES ASSUME NEW c \in Call, pc[c] \in Busy
               PROVE  /\ Called(call[c]) /\ call[c].n <= arrived
                      /\ Saved(c) \in [Key -> [hits : SUBSET Hit, until : Nat]]
    OBVIOUS
  <2>1. Called(call[c]) /\ call[c].n <= arrived
    BY DEF LTypeInv, Handled
  <2> DEFINE h == [n |-> call[c].n, at |-> call[c].now]
             new == Added(call[c].seen, call[c].key, call[c].phase, h)
  <2>2. h \in Hit /\ call[c].seen \in SUBSET Hit
    BY <1>2, <2>1 DEF Hit, Called, Jobs
  <2> HIDE DEF h
  <2>3. new \in SUBSET Hit
    BY <2>2 DEF Added
  <2>4. clock + Life(call[c].key) \in Nat
    BY <1>2, <2>1, LimiterConstants DEF Called, Life
  <2>5. Saved(c) = [redis EXCEPT ![call[c].key] = [hits |-> new, until |-> clock + Life(call[c].key)]]
    BY DEF Saved, h
  <2>6. [hits |-> new, until |-> clock + Life(call[c].key)] \in [hits : SUBSET Hit, until : Nat]
    BY <2>3, <2>4
  <2> HIDE DEF new
  <2>7. Saved(c) \in [Key -> [hits : SUBSET Hit, until : Nat]]
    BY <1>2, <2>5, <2>6
  <2>8. QED BY <2>1, <2>7
<1>4. ASSUME NEW c \in Call, NEW l \in Jobs, Called(l), Enter(c, l), l.n <= arrived',
             UNCHANGED <<clock, shared, unavailable, redis, torn>>,
             arrived' \in {arrived, arrived + 1}, arrived' <= MaxCalls, l.now <= clock,
             failed' \in [Worker -> [Key -> SUBSET Guess]], round' \in [Worker -> [Key -> Nat]]
      PROVE  Base'
  <2>1. CASE InMemory(c, l)
    <3>1. Base
      OBVIOUS
    <3>2. QED BY <3>1, <2>1, <1>4, <1>2, MemoryBase
  <2>2. CASE /\ shared /\ pc' = [pc EXCEPT ![c] = "connect"] /\ call' = [call EXCEPT ![c] = l]
             /\ UNCHANGED <<tracked, memory, granted, loose>>
    <3>1. ThrottleTypeOK'
      <4>1. /\ pc' \in [Call -> {"idle", "refused", "connect", "get", "set", "sent", "verify"}]
            /\ call' \in [Call -> Jobs] /\ arrived' \in 0 .. MaxCalls
        BY <2>2, <1>2, <1>4
      <4>2. QED BY <4>1, <2>2, <1>4 DEF LTypeInv, ThrottleTypeOK, Jobs
    <3>2. MemoryBounded'
      BY <2>2 DEF MemoryBounded, Listed
    <3>3. pc'[c] = "connect" /\ call'[c] = l /\ \A d \in Call \ {c} : pc'[d] = pc[d] /\ call'[d] = call[d]
      BY <2>2, <1>2
    <3>4. Base
      OBVIOUS
    <3>5. QED BY <3>1, <3>2, <3>3, <3>4, <2>2, <1>4, HandlerBase
  <2>3. QED BY <2>1, <2>2, <1>4 DEF Enter
<1>5. ASSUME NEW c \in Call, NEW w \in Worker, NEW k \in Key, Arrive(c, w, k)
      PROVE  Base'
  <2> DEFINE l == NewCall(w, k)
  <2>1. /\ l \in Jobs /\ Called(l) /\ Enter(c, l) /\ l.n = arrived + 1 /\ arrived' = arrived + 1
        /\ UNCHANGED <<clock, shared, unavailable, redis, failed, round, torn>>
    BY <1>5, Arriving
  <2>2. l.now <= clock /\ l.n <= arrived'
    BY <2>1, <1>2 DEF NewCall, Quiet
  <2>3. arrived' <= MaxCalls
    BY <2>1, <1>2 DEF Called
  <2> HIDE DEF l
  <2>4. QED BY <2>1, <2>2, <2>3, <1>2, <1>4
<1>6. ASSUME NEW c \in Call, LoginFails(c)
      PROVE  Base'
  <2> DEFINE l == [call[c] EXCEPT !.phase = "hit"]
  <2>1. pc[c] = "verify" /\ Called(call[c]) /\ call[c].n <= arrived
    BY <1>6, <1>3 DEF LoginFails, Busy
  <2>2. /\ l \in Jobs /\ Called(l) /\ l.n = call[c].n /\ Enter(c, l)
        /\ UNCHANGED <<clock, shared, unavailable, redis, arrived, torn>>
    BY <1>6, LoginFailing
  <2>3. l.n <= arrived /\ l.now <= clock
    BY <2>1, <2>2, <1>2 DEF NowOK, Jobs
  <2>4. failed' \in [Worker -> [Key -> SUBSET Guess]] /\ round' \in [Worker -> [Key -> Nat]]
    <3>1. CASE shared
      BY <3>1, <1>2, <1>6 DEF LoginFails
    <3>2. CASE ~shared
      BY <3>2, <1>2, <1>6, GuessTyped
    <3>3. QED BY <3>1, <3>2
  <2> HIDE DEF l
  <2>5. QED BY <2>2, <2>3, <2>4, <1>2, <1>4
<1>7. ASSUME NEW c \in Call, ConnectFails(c) \/ GetFails(c) \/ SetFails(c)
      PROVE  Base'
  <2>1. pc[c] \in Busy /\ InMemory(c, call[c])
    BY <1>7 DEF ConnectFails, GetFails, SetFails, Busy
  <2>2. UNCHANGED <<clock, shared, arrived, failed, round>>
    BY <1>7 DEF ConnectFails, GetFails, SetFails
  <2>3. Called(call[c]) /\ call[c].n <= arrived /\ call[c] \in Jobs
    BY <2>1, <1>2, <1>3
  <2>4. unavailable' \in [Worker -> BOOLEAN]
    BY <1>2, <1>7, <2>3 DEF ConnectFails, GetFails, SetFails, Called
  <2>5. redis' \in [Key -> [hits : SUBSET Hit, until : Nat]]
    BY <1>2, <1>3, <1>7, <2>1 DEF ConnectFails, GetFails, SetFails
  <2>6. torn' \subseteq Key
    BY <1>2, <1>7, <2>3 DEF ConnectFails, GetFails, SetFails, Called
  <2>7. Base
    OBVIOUS
  <2>8. QED BY <2>1, <2>2, <2>3, <2>4, <2>5, <2>6, <2>7, <1>2, MemoryBase
<1>14. ASSUME NEW c \in Call, Cancel(c) \/ SetLate(c)
      PROVE  Base'
  <2>1. /\ pc[c] \in Busy /\ Called(call[c]) /\ call[c].n <= arrived /\ call[c] \in Jobs
        /\ UNCHANGED <<clock, shared, unavailable, tracked, memory, arrived, granted, failed, round, loose>>
    BY <1>2, <1>3, <1>14 DEF Cancel, SetLate, Busy
  <2>2. /\ pc' = [pc EXCEPT ![c] = pc'[c]] /\ call' = [call EXCEPT ![c] = call'[c]]
        /\ \/ pc[c] = "set" /\ pc'[c] = "sent" /\ call'[c] = call[c]
           \/ pc'[c] = "idle" /\ call'[c] = Quiet
    BY <1>2, <1>14 DEF Cancel, SetLate
  <2>3. Quiet \in Jobs /\ Quiet.now = 0
    BY <1>2 DEF Quiet, Jobs, Store
  <2>4. redis' \in [Key -> [hits : SUBSET Hit, until : Nat]] /\ torn' \subseteq Key
    BY <2>1, <1>2, <1>3, <1>14 DEF Cancel, SetLate, Called
  <2>5. ThrottleTypeOK'
    <3>1. pc'[c] \in {"sent", "idle"} /\ call'[c] \in Jobs
      BY <2>1, <2>2, <2>3
    <3>2. /\ pc' \in [Call -> {"idle", "refused", "connect", "get", "set", "sent", "verify"}]
          /\ call' \in [Call -> Jobs]
      BY <3>1, <2>2, <1>2
    <3>3. QED BY <3>2, <2>1, <2>4 DEF LTypeInv, ThrottleTypeOK, Jobs
  <2>6. MemoryBounded'
    BY <2>1 DEF MemoryBounded, Listed
  <2>7. \A d \in Call \ {c} : pc'[d] = pc[d] /\ call'[d] = call[d]
    BY <2>2, <1>2
  <2>8. call'[c].now <= clock
    BY <2>2, <2>3, <1>2 DEF NowOK
  <2>9. pc'[c] \in Busy => pc[c] = "set" /\ call'[c] = call[c]
    BY <2>2 DEF Busy
  <2>10. pc[c] = "set" => shared
    BY DEF LTypeInv, Handled
  <2>11. Base /\ pc'[c] \in {"sent", "idle"}
    BY <2>2
  <2>12. QED BY <2>1, <2>5, <2>6, <2>7, <2>8, <2>9, <2>10, <2>11, HandlerBase DEF Busy
<1>8. ASSUME NEW c \in Call, Connect(c) \/ Get(c) \/ LoggedIn(c)
      PROVE  Base'
  <2> DEFINE to == IF pc[c] = "connect" THEN "get" ELSE IF pc[c] = "get" THEN "set" ELSE "idle"
             j == CASE to = "get" -> [call[c] EXCEPT !.now = clock]
                    [] to = "set" -> [call[c] EXCEPT !.seen =
                                        Recent(Stored(call[c].key), call[c].key, call[c].now)]
                    [] to = "idle" -> call[c]
  <2>1. pc[c] \in {"connect", "get", "verify"} /\ Called(call[c]) /\ call[c].n <= arrived
    BY <1>3, <1>8 DEF Connect, Get, LoggedIn, Busy
  <2>2. UNCHANGED <<clock, shared, unavailable, tracked, memory, redis, arrived, granted, failed, round, torn>>
    BY <1>8 DEF Connect, Get, LoggedIn
  <2>3. pc' = [pc EXCEPT ![c] = to]
    BY <1>8 DEF Connect, Get, LoggedIn
  <2>4. call' = [call EXCEPT ![c] = j]
    <3>1. CASE Connect(c)
      BY <3>1, <1>2 DEF Connect
    <3>2. CASE Get(c)
      BY <3>2, <1>2 DEF Get
    <3>3. CASE LoggedIn(c)
      BY <3>3, <1>2 DEF LoggedIn
    <3>4. QED BY <1>8, <3>1, <3>2, <3>3
  <2>5. Stored(call[c].key) \in SUBSET Hit
    BY <2>1, <1>2 DEF Stored, Called
  <2>6. j \in Jobs /\ Called(j) /\ j.n = call[c].n /\ j.now <= clock
    <3>1. CASE to = "get"
      BY <3>1, <2>1, <1>2 DEF Jobs, Called
    <3>2. CASE to = "set"
      <4>1. Recent(Stored(call[c].key), call[c].key, call[c].now) \in SUBSET Hit
        BY <2>5 DEF Recent
      <4>2. QED BY <4>1, <3>2, <2>1, <1>2 DEF Jobs, Called, NowOK
    <3>3. CASE to = "idle"
      BY <3>3, <2>1, <1>2 DEF Jobs, Called, NowOK
    <3>4. QED BY <3>1, <3>2, <3>3
  <2>7. loose' \subseteq Store \X Key
    BY <1>2, <1>8, <2>1 DEF Connect, Get, LoggedIn, Called, Store
  <2>8. to \in {"get", "set", "idle"} /\ (to # "idle" => pc[c] \in {"connect", "get"})
    OBVIOUS
  <2> HIDE DEF to, j
  <2>9. ThrottleTypeOK'
    <3>1. /\ pc' \in [Call -> {"idle", "refused", "connect", "get", "set", "sent", "verify"}]
          /\ call' \in [Call -> Jobs]
      BY <2>3, <2>4, <2>6, <2>8, <1>2
    <3>2. QED BY <3>1, <2>2, <2>7 DEF LTypeInv, ThrottleTypeOK, Jobs
  <2>10. MemoryBounded'
    BY <2>2 DEF MemoryBounded, Listed
  <2>11. pc'[c] = to /\ call'[c] = j /\ \A d \in Call \ {c} : pc'[d] = pc[d] /\ call'[d] = call[d]
    BY <2>3, <2>4, <1>2
  <2>12. pc[c] \in {"connect", "get"} => shared
    BY DEF LTypeInv, Handled
  <2>13. Base /\ to \notin {"verify", "refused", "connect"}
    BY <2>8
  <2>14. QED BY <2>1, <2>2, <2>6, <2>8, <2>9, <2>10, <2>11, <2>12, <2>13, HandlerBase
<1>9. ASSUME NEW c \in Call, Set(c)
      PROVE  Base'
  <2> DEFINE l == call[c]
  <2>1. pc[c] = "set" /\ redis' = Saved(c) /\ Conclude(c, l, Full(l.seen, l.key), Redis)
    BY <1>9 DEF Set
  <2>2. Called(l) /\ l.n <= arrived /\ l \in Jobs /\ Redis \in Store
    BY <2>1, <1>2, <1>3 DEF Busy, Store
  <2>3. UNCHANGED <<clock, shared, unavailable, tracked, memory, arrived, failed, round, loose, torn>>
    BY <1>9 DEF Set
  <2> HIDE DEF l
  <2>4. Concluded(c, l, Full(l.seen, l.key))
    BY <2>1, <2>2, ConcludeType
  <2>5. redis' \in [Key -> [hits : SUBSET Hit, until : Nat]]
    BY <2>1, <1>3 DEF Busy
  <2>6. l.now <= clock /\ 0 <= clock
    BY <1>2 DEF NowOK, l
  <2>7. ThrottleTypeOK'
    BY <2>3, <2>4, <2>5 DEF LTypeInv, ThrottleTypeOK, Jobs, Concluded
  <2>8. MemoryBounded'
    BY <2>3 DEF MemoryBounded, Listed
  <2>9. Base /\ pc'[c] \notin {"connect", "get", "set", "sent"}
    BY <2>4 DEF Concluded
  <2>10. QED BY <2>2, <2>3, <2>4, <2>6, <2>7, <2>8, <2>9, HandlerBase DEF Concluded
<1>10. ASSUME Tick
       PROVE  Base'
  <2>1. clock' = clock + 1 /\ clock' \in 0 .. MaxClock
    BY <1>2, <1>10 DEF Tick
  <2>2. UNCHANGED <<shared, unavailable, tracked, memory, redis, pc, call, arrived, granted,
                    failed, round, loose, torn>>
    BY <1>10 DEF Tick
  <2>3. ThrottleTypeOK'
    BY <2>1, <2>2 DEF LTypeInv, ThrottleTypeOK
  <2>4. Handled'
    BY <2>2 DEF LTypeInv, Handled, Called
  <2>5. MemoryBounded'
    BY <2>2 DEF MemoryBounded, Listed
  <2>6. NowOK'
    <3>1. \A c \in Call : call[c].now \in Int /\ call[c].now <= clock
      BY <1>2 DEF NowOK, Jobs
    <3>2. QED BY <3>1, <2>1, <2>2, <1>2 DEF NowOK
  <2>7. QED BY <2>3, <2>4, <2>5, <2>6 DEF Base, LTypeInv
<1>11. ASSUME NEW w \in Worker, Restart(w)
       PROVE  Base'
  <2>1. UNCHANGED <<clock, shared, redis, arrived, granted, failed, round, torn>>
    BY <1>11 DEF Restart
  <2>2. \A d \in Call : Lingers(d) \/ (pc'[d] = "idle" /\ call'[d] = Quiet)
    BY <1>11 DEF Restart, Lingers
  <2>3. Quiet \in Jobs /\ Quiet.now = 0
    BY <1>2 DEF Quiet, Jobs, Store
  <2>4. /\ pc' \in [Call -> {"idle", "refused", "connect", "get", "set", "sent", "verify"}]
        /\ call' \in [Call -> Jobs]
    BY <2>3, <1>2, <1>11 DEF Restart
  <2>5. /\ unavailable' \in [Worker -> BOOLEAN] /\ tracked' \in [Worker -> Seq(Key)]
        /\ memory' \in [Worker -> [Key -> SUBSET Hit]] /\ loose' \subseteq Store \X Key
    <3>1. tracked \in [Worker -> Seq(Key)] /\ memory \in [Worker -> [Key -> SUBSET Hit]] /\ <<>> \in Seq(Key)
      BY DEF LTypeInv, ThrottleTypeOK
    <3>2. tracked' = [tracked EXCEPT ![w] = <<>>] /\ memory' = [memory EXCEPT ![w] = [k \in Key |-> {}]]
          /\ unavailable' = [unavailable EXCEPT ![w] = FALSE]
      BY <1>11 DEF Restart
    <3>3. loose' \subseteq Store \X Key
      BY <1>2, <1>11 DEF Restart, Store
    <3>4. QED BY <3>1, <3>2, <3>3, <1>2
  <2>6. ThrottleTypeOK'
    BY <2>1, <2>4, <2>5 DEF LTypeInv, ThrottleTypeOK, Jobs
  <2>7. Handled'
    BY <2>1, <2>2 DEF LTypeInv, Handled, Called, Busy, Lingers
  <2>8. NowOK'
    BY <2>1, <2>2, <2>3, <1>2 DEF NowOK, Lingers
  <2>9. MemoryBounded'
    <3>1. MaxTracked \in Nat
      BY LimiterConstants
    <3>2. ASSUME NEW v \in Worker
          PROVE  /\ Len(tracked'[v]) <= MaxTracked /\ NoRepeat(tracked'[v])
                 /\ \A k \in Key : memory'[v][k] # {} => k \in Listed(tracked'[v])
      <4>1. tracked \in [Worker -> Seq(Key)] /\ memory \in [Worker -> [Key -> SUBSET Hit]]
        BY DEF LTypeInv, ThrottleTypeOK
      <4>2. CASE v = w
        <5>1. tracked'[v] = <<>> /\ memory'[v] = [k \in Key |-> {}]
          BY <4>1, <4>2, <1>11 DEF Restart
        <5>2. QED BY <5>1, <3>1 DEF NoRepeat
      <4>3. CASE v # w
        <5>1. tracked'[v] = tracked[v] /\ memory'[v] = memory[v]
          BY <4>1, <4>3, <1>11 DEF Restart
        <5>2. QED BY <5>1 DEF MemoryBounded, NoRepeat
      <4>4. QED BY <4>2, <4>3
    <3>3. QED BY <3>2 DEF MemoryBounded, NoRepeat, Listed
  <2>10. QED BY <2>6, <2>7, <2>8, <2>9 DEF Base, LTypeInv
<1>12. CASE UNCHANGED vars
  <2> USE <1>12 DEF vars
  <2>1. ThrottleTypeOK'
    BY DEF LTypeInv, ThrottleTypeOK
  <2>2. Handled'
    BY DEF LTypeInv, Handled, Called
  <2>3. MemoryBounded'
    BY DEF MemoryBounded, Listed
  <2>4. NowOK'
    BY DEF NowOK
  <2>5. QED BY <2>1, <2>2, <2>3, <2>4 DEF Base, LTypeInv
<1>13. QED
  BY <1>5, <1>6, <1>7, <1>8, <1>9, <1>10, <1>11, <1>12, <1>14 DEF Next

\* So types, bound and order always hold.
LEMMA BaseAlways == Spec => []Base
BY BaseInit, BaseStep, PTL DEF Spec

\* For any workers, keys and limits, every variable holds what the code stores in it, and a
\* call that awaits Redis or a password has what its next step needs (utils/ratelimit.py).
THEOREM ThrottleTypeCorrect == Spec => []ThrottleTypeOK
<1>1. Base => ThrottleTypeOK
  BY DEF Base, LTypeInv
<1>2. QED BY <1>1, BaseAlways, PTL

\* A worker tracks no more than _MAX_TRACKED_KEYS keys after any call, none of them twice, and
\* no window is left without a key (_prune_if_needed).
THEOREM MemoryIsBounded == Spec => []MemoryBounded
<1>1. Base => MemoryBounded
  BY DEF Base
<1>2. QED BY <1>1, BaseAlways, PTL

-----------------------------------------------------------------------------
(* What a window holds, and what was let pass *)

\* Limits and windows are positive numbers.
LEMMA LimitType == \A k \in Key : Limit[k] \in Nat /\ Limit[k] >= 1 /\ Window[k] \in Nat /\ Window[k] >= 1
BY LimiterConstants

\* Pruning keeps a window small.
LEMMA SmallSubset ==
  ASSUME NEW k \in Key, NEW H, Small(H, k), NEW R \in SUBSET H
  PROVE  Small(R, k)
<1>1. IsFiniteSet(R) /\ Cardinality(R) <= Cardinality(H)
  BY FS_Subset DEF Small
<1>2. Cardinality(R) \in Nat /\ Cardinality(H) \in Nat
  BY <1>1, FS_CardinalityType DEF Small
<1>3. QED BY <1>1, <1>2, LimitType DEF Small

\* So is a window that was dropped.
LEMMA SmallEmpty == \A k \in Key : Small({}, k)
BY FS_EmptySet, LimitType DEF Small

\* A hit is only added where there is room.
LEMMA SmallAdded ==
  ASSUME NEW k \in Key, NEW R, Small(R, k), NEW phase, NEW h
  PROVE  Small(Added(R, k, phase, h), k)
<1>1. CASE Added(R, k, phase, h) = R
  BY <1>1
<1>2. CASE ~Full(R, k) /\ Added(R, k, phase, h) = R \cup {h}
  <2>1. Cardinality(R) \in Nat /\ IsFiniteSet(R \cup {h})
        /\ Cardinality(R \cup {h}) \in {Cardinality(R), Cardinality(R) + 1}
    BY FS_CardinalityType, FS_AddElement DEF Small
  <2>2. QED BY <1>2, <2>1, LimitType DEF Small, Full
<1>3. QED BY <1>1, <1>2 DEF Added

\* Only a hit where there is room is recorded as let pass.
LEMMA GrantedBy ==
  ASSUME LTypeInv, NEW c \in Call, NEW j \in Jobs, Called(j),
         NEW H, NEW k, NEW s \in Store, Conclude(c, j, Full(H, k), s)
  PROVE  \A r \in Store, x \in Key :
           granted'[r][x] = IF r = s /\ x = j.key /\ j.phase = "hit" /\ ~Full(H, k)
                              THEN granted[r][x] \cup {[n |-> j.n, at |-> j.now]}
                              ELSE granted[r][x]
<1>1. granted \in [Store -> [Key -> SUBSET Hit]] /\ j.key \in Key
  BY DEF LTypeInv, ThrottleTypeOK, Called
<1>2. CASE j.phase = "hit" /\ ~Full(H, k)
  <2>1. granted' = [granted EXCEPT ![s][j.key] = @ \cup {[n |-> j.n, at |-> j.now]}]
    BY <1>2 DEF Conclude
  <2>2. QED BY <2>1, <1>1, <1>2
<1>3. CASE ~(j.phase = "hit" /\ ~Full(H, k))
  <2>1. granted' = granted
    BY <1>3 DEF Conclude
  <2>2. QED BY <2>1, <1>3
<1>4. QED BY <1>2, <1>3

\* All that a call answered from memory does.
LEMMA MemoryOutcome ==
  ASSUME Base, NEW c \in Call, NEW l \in Jobs, Called(l), InMemory(c, l)
  PROVE  LET H == Seen(l.worker, l.key) IN
         /\ \A w \in Worker, k \in Key : w # l.worker \/ k # l.key => KeptOrDropped(w, k)
         /\ memory'[l.worker][l.key] = Added(H, l.key, l.phase, HitOf(l))
         /\ loose \subseteq loose' /\ \A k \in Key : <<Redis, k>> \in loose' => <<Redis, k>> \in loose
         /\ Concluded(c, [l EXCEPT !.now = clock], Full(H, l.key))
         /\ \A s \in Store, k \in Key :
              granted'[s][k] = IF s = l.worker /\ k = l.key /\ l.phase = "hit" /\ ~Full(H, l.key)
                                 THEN granted[s][k] \cup {HitOf(l)} ELSE granted[s][k]
<1> DEFINE H == Seen(l.worker, l.key)
           j == [l EXCEPT !.now = clock]
<1>1. LTypeInv /\ MemoryBounded
  BY DEF Base
<1>2. /\ \A w \in Worker, k \in Key : w # l.worker \/ k # l.key => KeptOrDropped(w, k)
      /\ memory'[l.worker][l.key] = Added(H, l.key, l.phase, HitOf(l))
      /\ loose \subseteq loose' /\ \A k \in Key : <<Redis, k>> \in loose' => <<Redis, k>> \in loose
      /\ j \in Jobs /\ Called(j) /\ Conclude(c, j, Full(H, l.key), l.worker)
  BY <1>1, MemoryEffect
<1>3. j.now = clock /\ j.n = l.n /\ j.key = l.key /\ j.phase = l.phase /\ l.worker \in Store
  BY DEF Jobs, Called, Store
<1> HIDE DEF j, H
<1>4. Concluded(c, j, Full(H, l.key))
  BY <1>1, <1>2, <1>3, ConcludeType
<1>5. \A s \in Store, k \in Key :
        granted'[s][k] = IF s = l.worker /\ k = j.key /\ j.phase = "hit" /\ ~Full(H, l.key)
                           THEN granted[s][k] \cup {[n |-> j.n, at |-> j.now]} ELSE granted[s][k]
  BY <1>1, <1>2, <1>3, GrantedBy
<1>6. QED BY <1>2, <1>3, <1>4, <1>5 DEF j, H, HitOf

\* Handler c answers the call of its own request.
Own(c, l) ==
  \/ pc[c] \in Busy /\ l.n = call[c].n /\ arrived' = arrived
  \/ l.n = arrived + 1 /\ arrived' = arrived + 1

\* What a step is to the windows in memory.
LEMMA MemoryKinds ==
  ASSUME Base, [Next]_vars
  PROVE  \/ \E c \in Call, l \in Jobs : Called(l) /\ InMemory(c, l) /\ Own(c, l) /\ clock' = clock
         \/ \E c \in Call : Set(c)
         \/ UNCHANGED <<memory, granted, clock>> /\ loose \subseteq loose'
         \/ Tick
         \/ \E w \in Worker : Restart(w)
<1>1. \A c \in Call : call[c] \in Jobs /\ (pc[c] \in Busy => Called(call[c]))
  BY DEF Base, LTypeInv, ThrottleTypeOK, Handled, Jobs
<1>2. ASSUME NEW c \in Call, NEW w \in Worker, NEW k \in Key, Arrive(c, w, k)
      PROVE  \/ \E l \in Jobs : Called(l) /\ InMemory(c, l) /\ Own(c, l) /\ clock' = clock
             \/ UNCHANGED <<memory, granted, clock>> /\ loose \subseteq loose'
  BY <1>2, Arriving, Entering DEF Own
<1>3. ASSUME NEW c \in Call, LoginFails(c)
      PROVE  \/ \E l \in Jobs : Called(l) /\ InMemory(c, l) /\ Own(c, l) /\ clock' = clock
             \/ UNCHANGED <<memory, granted, clock>> /\ loose \subseteq loose'
  BY <1>3, LoginFailing, Entering DEF Own, Busy
<1>4. ASSUME NEW c \in Call, ConnectFails(c) \/ GetFails(c) \/ SetFails(c)
      PROVE  Called(call[c]) /\ InMemory(c, call[c]) /\ Own(c, call[c]) /\ clock' = clock
  BY <1>1, <1>4 DEF ConnectFails, GetFails, SetFails, Busy, Own
<1>5. ASSUME NEW c \in Call, Connect(c) \/ Get(c) \/ LoggedIn(c) \/ Cancel(c) \/ SetLate(c)
      PROVE  UNCHANGED <<memory, granted, clock>> /\ loose \subseteq loose'
  BY <1>5 DEF Connect, Get, LoggedIn, Cancel, SetLate
<1>6. CASE UNCHANGED vars
  BY <1>6 DEF vars
<1>7. QED BY <1>1, <1>2, <1>3, <1>4, <1>5, <1>6 DEF Next

-----------------------------------------------------------------------------
(* The windows of the workers *)

\* Pruning twice is pruning once.
LEMMA RecentRecent ==
  \A H, k, now : Recent(Recent(H, k, now), k, now) = Recent(H, k, now)
BY DEF Recent

\* The windows start empty.
LEMMA WorkerInit == Init => WorkerWindows
BY SmallEmpty DEF Init, WorkerWindows, Recent, Store

\* Every step keeps the worker's windows complete and small.
LEMMA WorkerStep == Base /\ WorkerWindows /\ [Next]_vars => WorkerWindows'
<1> SUFFICES ASSUME Base, WorkerWindows, [Next]_vars,
                    NEW w \in Worker, NEW k \in Key
             PROVE  /\ Small(memory'[w][k], k)
                    /\ <<w, k>> \notin loose' => Recent(granted'[w][k], k, clock') \subseteq memory'[w][k]
  BY DEF WorkerWindows, Small
<1>1. LTypeInv /\ MemoryBounded
  BY DEF Base
<1>2. /\ Small(memory[w][k], k)
      /\ <<w, k>> \notin loose => Recent(granted[w][k], k, clock) \subseteq Seen(w, k)
  BY RecentRecent DEF WorkerWindows, Seen, Recent
<1>3. /\ clock \in Int /\ w \in Store /\ Redis # w /\ granted[w][k] \subseteq Hit /\ memory[w][k] \subseteq Hit
      /\ Seen(w, k) \subseteq memory[w][k]
  BY <1>1, LimiterConstants DEF LTypeInv, ThrottleTypeOK, Store, Seen, Recent
<1>4. ASSUME NEW c \in Call, NEW l \in Jobs, Called(l), InMemory(c, l), clock' = clock
      PROVE  /\ Small(memory'[w][k], k)
             /\ <<w, k>> \notin loose' => Recent(granted'[w][k], k, clock') \subseteq memory'[w][k]
  <2> DEFINE H == Seen(l.worker, l.key)
  <2>1. /\ \A v \in Worker, x \in Key : v # l.worker \/ x # l.key => KeptOrDropped(v, x)
        /\ memory'[l.worker][l.key] = Added(H, l.key, l.phase, HitOf(l))
        /\ loose \subseteq loose'
    BY <1>4, MemoryOutcome
  <2>2. granted'[w][k] = IF w = l.worker /\ k = l.key /\ l.phase = "hit" /\ ~Full(H, l.key)
                           THEN granted[w][k] \cup {HitOf(l)} ELSE granted[w][k]
    BY <1>3, <1>4, MemoryOutcome
  <2> HIDE DEF H
  <2>3. CASE w = l.worker /\ k = l.key
    <3>1. H = Seen(w, k) /\ Small(H, k)
      BY <1>2, <1>3, <2>3, SmallSubset DEF H
    <3>2. memory'[w][k] = Added(H, k, l.phase, HitOf(l))
      BY <2>1, <2>3
    <3>3. Small(memory'[w][k], k)
      BY <3>1, <3>2, SmallAdded
    <3>4. granted'[w][k] = IF l.phase = "hit" /\ ~Full(H, k) THEN granted[w][k] \cup {HitOf(l)}
                           ELSE granted[w][k]
      BY <2>2, <2>3
    <3>5. ASSUME <<w, k>> \notin loose'
          PROVE  Recent(granted'[w][k], k, clock') \subseteq memory'[w][k]
      <4>1. Recent(granted[w][k], k, clock) \subseteq H
        BY <1>2, <2>1, <3>1, <3>5
      <4>2. CASE l.phase = "hit" /\ ~Full(H, k)
        BY <4>1, <4>2, <3>2, <3>4, <1>4 DEF Added, Recent
      <4>3. CASE ~(l.phase = "hit" /\ ~Full(H, k))
        BY <4>1, <4>3, <3>2, <3>4, <1>4 DEF Added, Recent
      <4>4. QED BY <4>2, <4>3
    <3>6. QED BY <3>3, <3>5
  <2>4. CASE w # l.worker \/ k # l.key
    <3>1. granted'[w][k] = granted[w][k] /\ KeptOrDropped(w, k)
      BY <2>1, <2>2, <2>4
    <3>2. QED BY <3>1, <1>2, <1>3, <1>4, <2>1, SmallEmpty DEF KeptOrDropped
  <2>5. QED BY <2>3, <2>4
<1>5. ASSUME NEW c \in Call, Set(c)
      PROVE  /\ Small(memory'[w][k], k)
             /\ <<w, k>> \notin loose' => Recent(granted'[w][k], k, clock') \subseteq memory'[w][k]
  <2> DEFINE j == call[c]
  <2>1. /\ j \in Jobs /\ Called(j) /\ Redis \in Store /\ Conclude(c, j, Full(j.seen, j.key), Redis)
        /\ UNCHANGED <<memory, loose, clock>>
    BY <1>1, <1>5 DEF Set, LTypeInv, ThrottleTypeOK, Handled, Busy, Jobs, Store
  <2> HIDE DEF j
  <2>2. granted'[w][k] = granted[w][k]
    <3>1. granted'[w][k] = IF w = Redis /\ k = j.key /\ j.phase = "hit" /\ ~Full(j.seen, j.key)
                             THEN granted[w][k] \cup {[n |-> j.n, at |-> j.now]} ELSE granted[w][k]
      BY <1>1, <1>3, <2>1, GrantedBy
    <3>2. QED BY <3>1, <1>3
  <2>3. QED BY <2>1, <2>2, <1>2, <1>3
<1>6. CASE UNCHANGED <<memory, granted, clock>> /\ loose \subseteq loose'
  BY <1>6, <1>2, <1>3
<1>7. CASE Tick
  <2>1. clock' = clock + 1 /\ UNCHANGED <<memory, granted, loose>>
    BY <1>7 DEF Tick
  <2>2. Recent(granted[w][k], k, clock + 1) \subseteq Recent(granted[w][k], k, clock)
    BY <1>3, LimitType DEF Recent, Hit
  <2>3. QED BY <2>1, <2>2, <1>2, <1>3
<1>8. ASSUME NEW v \in Worker, Restart(v)
      PROVE  /\ Small(memory'[w][k], k)
             /\ <<w, k>> \notin loose' => Recent(granted'[w][k], k, clock') \subseteq memory'[w][k]
  <2>1. /\ UNCHANGED <<clock, granted>> /\ loose \subseteq loose'
        /\ memory' = [memory EXCEPT ![v] = [x \in Key |-> {}]]
        /\ \A x \in Key : Seen(v, x) # {} => <<v, x>> \in loose'
    BY <1>8 DEF Restart, Seen
  <2>2. memory \in [Worker -> [Key -> SUBSET Hit]]
    BY <1>1 DEF LTypeInv, ThrottleTypeOK
  <2>3. CASE v = w
    <3>1. memory'[w][k] = {}
      BY <2>1, <2>2, <2>3
    <3>2. QED BY <3>1, <2>1, <2>3, <1>2, SmallEmpty
  <2>4. CASE v # w
    BY <2>1, <2>2, <2>4, <1>2, <1>3
  <2>5. QED BY <2>3, <2>4
<1>9. QED BY <1>4, <1>5, <1>6, <1>7, <1>8, MemoryKinds

-----------------------------------------------------------------------------
(* The windows in Redis *)

Awaiting == {"get", "set", "sent"}   \* the GET is sent, and the SET not answered or lost

\* So do those in Redis.
LEMMA RedisInit == Init => RedisWindows
<1> SUFFICES ASSUME Init PROVE RedisWindows
  OBVIOUS
<1>1. \A k \in Key : redis[k] = [hits |-> {}, until |-> 0] /\ granted[Redis][k] = {}
  BY DEF Init, Store
<1>2. \A c \in Call : pc[c] = "idle"
  BY DEF Init
<1>3. ASSUME NEW k \in Key PROVE RedisWindow(k)
  <2>1. redis[k].hits = {} /\ granted[Redis][k] = {} /\ OnKey(k) = {}
    BY <1>1, <1>2 DEF OnKey
  <2>2. Recent({}, k, clock) = {} /\ Kept({}, k, redis[k].until) /\ Small({}, k)
    BY SmallEmpty DEF Recent, Kept
  <2>3. QED BY <2>1, <2>2 DEF RedisWindow
<1>4. \A c \in Call : Copy(c)
  BY <1>2 DEF Copy
<1>5. QED BY <1>3, <1>4 DEF RedisWindows

\* What is recent later was recent before.
LEMMA RecentLater ==
  ASSUME NEW H, H \subseteq Hit, NEW k \in Key, NEW now \in Int, NEW later \in Int, now <= later
  PROVE  Recent(H, k, later) \subseteq Recent(H, k, now)
BY LimitType DEF Recent, Hit

\* Steps that neither write a window in Redis nor read one.
LEMMA RedisFrame ==
  ASSUME Base, RedisWindows, clock' \in Int, clock <= clock', redis' = redis,
         \A k \in Key : granted'[Redis][k] = granted[Redis][k],
         \A k \in Key : <<Redis, k>> \in loose => <<Redis, k>> \in loose',
         \A c \in Call : pc'[c] \in Awaiting => Lingers(c)
  PROVE  RedisWindows'
<1>1. /\ clock \in Int /\ \A c \in Call : pc[c] \in Awaiting => call[c].key \in Key /\ call[c] \in Jobs
      /\ \A k \in Key : granted[Redis][k] \subseteq Hit /\ redis[k].hits \subseteq Hit
  BY DEF Base, LTypeInv, ThrottleTypeOK, Handled, Called, Busy, Awaiting, Jobs, Store
<1>2. \A k \in Key : Recent(granted'[Redis][k], k, clock') \subseteq Recent(granted[Redis][k], k, clock)
  BY <1>1, RecentLater
<1>3. \A h \in Hit : h.at <= clock => h.at <= clock'
  BY <1>1 DEF Hit
<1>4. ASSUME NEW k \in Key
      PROVE  RedisWindow(k)'
  <2>1. RedisWindow(k) /\ OnKey(k)' \subseteq OnKey(k)
    BY DEF RedisWindows, OnKey, Awaiting, Lingers
  <2>2. QED BY <2>1, <1>1, <1>2, <1>3 DEF RedisWindow, Small, Kept
<1>5. ASSUME NEW c \in Call
      PROVE  Copy(c)'
  <2>1. CASE pc'[c] \notin {"set", "sent"}
    BY <2>1 DEF Copy
  <2>2. CASE pc'[c] \in {"set", "sent"}
    <3>1. pc[c] \in {"set", "sent"} /\ call'[c] = call[c] /\ call[c].key \in Key /\ call[c].seen \subseteq Hit
      BY <2>2, <1>1 DEF Awaiting, Lingers, Jobs
    <3>2. Copy(c)
      BY DEF RedisWindows
    <3>3. QED BY <3>1, <3>2, <1>2, <1>3 DEF Copy, Small
  <2>3. QED BY <2>1, <2>2
<1>6. QED BY <1>4, <1>5 DEF RedisWindows

HitOfJob(j) == [n |-> j.n, at |-> j.now]

\* What a SET writes.
LEMMA SavedWindow ==
  ASSUME Base, RedisWindows, NEW c \in Call, pc[c] \in {"set", "sent"}
  PROVE  LET j == call[c]
             H == Saved(c)[j.key].hits
         IN  /\ j \in Jobs /\ Called(j)
             /\ H = Added(j.seen, j.key, j.phase, HitOfJob(j))
             /\ Small(H, j.key) /\ Kept(H, j.key, Saved(c)[j.key].until)
             /\ \A h \in H : h.at <= clock
             /\ \A k \in Key : k # j.key => Saved(c)[k] = redis[k]
<1> DEFINE j == call[c]
           A == Added(j.seen, j.key, j.phase, HitOfJob(j))
<1>1. j \in Jobs /\ Called(j) /\ j.now <= clock /\ clock \in Nat
  BY DEF Base, LTypeInv, ThrottleTypeOK, Handled, NowOK, Busy, Jobs
<1>2. Small(j.seen, j.key) /\ \A h \in j.seen : h.at <= clock
  BY DEF RedisWindows, Copy
<1>3. j.key \in Key /\ j.seen \subseteq Hit /\ HitOfJob(j) \in Hit
  BY <1>1 DEF Called, Jobs, HitOfJob, Hit
<1>4. Saved(c) = [redis EXCEPT ![j.key] = [hits |-> A, until |-> clock + Life(j.key)]]
  BY DEF Saved, HitOfJob
<1>5. redis \in [Key -> [hits : SUBSET Hit, until : Nat]]
  BY DEF Base, LTypeInv, ThrottleTypeOK
<1> HIDE DEF j
<1>6. A \subseteq Hit /\ \A h \in A : h.at <= clock
  BY <1>1, <1>2, <1>3 DEF Added, HitOfJob
<1>7. Small(A, j.key)
  BY <1>2, <1>3, SmallAdded
<1> HIDE DEF A
<1>8. /\ Saved(c)[j.key].hits = A /\ Saved(c)[j.key].until = clock + Window[j.key] + 1
      /\ \A k \in Key : k # j.key => Saved(c)[k] = redis[k]
  <2>1. Saved(c)[j.key] = [hits |-> A, until |-> clock + Life(j.key)]
    BY <1>3, <1>4, <1>5
  <2>2. Life(j.key) = Window[j.key] + 1 /\ Window[j.key] \in Nat
    BY <1>3, LimitType DEF Life
  <2>3. QED BY <2>1, <2>2, <1>1, <1>3, <1>4, <1>5
<1>9. Kept(A, j.key, clock + Window[j.key] + 1)
  BY <1>1, <1>3, <1>6, LimitType DEF Kept, Hit
<1>10. QED BY <1>1, <1>6, <1>7, <1>8, <1>9 DEF A, j

\* A SET that Redis executes, answered or not.
LEMMA RedisSaves ==
  ASSUME Base, RedisWindows, NEW c \in Call, pc[c] \in {"set", "sent"}, redis' = Saved(c), clock' = clock,
         \A k \in Key : <<Redis, k>> \in loose => <<Redis, k>> \in loose',
         \A d \in Call \ {c} : pc'[d] = pc[d] /\ call'[d] = call[d],
         pc'[c] \notin Awaiting,
         \A k \in Key : k # call[c].key => granted'[Redis][k] = granted[Redis][k],
         granted'[Redis][call[c].key] \subseteq
           granted[Redis][call[c].key] \cup Saved(c)[call[c].key].hits
  PROVE  RedisWindows'
<1> DEFINE j == call[c]
<1>1. /\ j \in Jobs /\ Called(j)
      /\ Saved(c)[j.key].hits = Added(j.seen, j.key, j.phase, HitOfJob(j))
      /\ Small(Saved(c)[j.key].hits, j.key) /\ Kept(Saved(c)[j.key].hits, j.key, Saved(c)[j.key].until)
      /\ \A h \in Saved(c)[j.key].hits : h.at <= clock
      /\ \A k \in Key : k # j.key => Saved(c)[k] = redis[k]
  BY SavedWindow
<1>2. \A k \in Key : OnKey(k)' \subseteq OnKey(k) \ {c}
  BY DEF OnKey, Awaiting
<1>3. j.key \in Key /\ c \in OnKey(j.key) /\ Copy(c)
  BY <1>1 DEF Called, OnKey, RedisWindows
<1>4. j.seen \subseteq Saved(c)[j.key].hits
  BY <1>1 DEF Added
<1>5. ASSUME NEW k \in Key
      PROVE  RedisWindow(k)'
  <2>1. RedisWindow(k)
    BY DEF RedisWindows
  <2>2. CASE k # j.key
    <3>1. redis'[k] = redis[k] /\ granted'[Redis][k] = granted[Redis][k]
      BY <1>1, <2>2
    <3>2. QED BY <3>1, <2>1, <1>2 DEF RedisWindow, Small, Kept
  <2>3. CASE k = j.key
    <3>1. Small(redis'[k].hits, k) /\ Kept(redis'[k].hits, k, redis'[k].until)
          /\ \A h \in redis'[k].hits : h.at <= clock'
      BY <1>1, <2>3
    <3>2. ASSUME <<Redis, k>> \notin loose'
          PROVE  Recent(granted'[Redis][k], k, clock') \subseteq redis'[k].hits
      <4>1. Recent(granted[Redis][k], k, clock) \subseteq redis'[k].hits
        BY <3>2, <1>3, <1>4, <2>3 DEF Copy
      <4>2. QED BY <4>1, <2>3 DEF Recent
    <3>3. <<Redis, k>> \notin loose' => \A b, d \in OnKey(k)' : b = d
      BY <2>1, <1>2 DEF RedisWindow
    <3>4. QED BY <3>1, <3>2, <3>3 DEF RedisWindow, Small, Kept
  <2>4. QED BY <2>2, <2>3
<1>6. ASSUME NEW d \in Call
      PROVE  Copy(d)'
  <2>1. CASE pc'[d] \notin {"set", "sent"}
    BY <2>1 DEF Copy
  <2>2. CASE pc'[d] \in {"set", "sent"}
    <3>1. d # c /\ pc[d] \in {"set", "sent"} /\ call'[d] = call[d]
      BY <2>2 DEF Awaiting
    <3>2. Copy(d) /\ call[d].key \in Key
      BY <3>1 DEF RedisWindows, Base, LTypeInv, Handled, Called, Busy
    <3>3. CASE call[d].key = j.key
      <4>1. <<Redis, j.key>> \in loose'
        <5>1. d \in OnKey(j.key) /\ RedisWindow(j.key)
          BY <3>1, <3>3, <1>3 DEF OnKey, RedisWindows
        <5>2. QED BY <5>1, <3>1, <1>3 DEF RedisWindow
      <4>2. QED BY <4>1, <3>1, <3>2, <3>3 DEF Copy, Small
    <3>4. CASE call[d].key # j.key
      <4>1. granted'[Redis][call[d].key] = granted[Redis][call[d].key]
        BY <3>2, <3>4
      <4>2. QED BY <4>1, <3>1, <3>2 DEF Copy, Small
    <3>5. QED BY <3>3, <3>4
  <2>3. QED BY <2>1, <2>2
<1>7. QED BY <1>5, <1>6 DEF RedisWindows

\* Every step keeps the windows in Redis, and the copies of them, complete and small.
LEMMA RedisStep == Base /\ RedisWindows /\ [Next]_vars => RedisWindows'
<1> SUFFICES ASSUME Base, RedisWindows, [Next]_vars PROVE RedisWindows'
  OBVIOUS
<1>1. /\ clock \in Int /\ Redis \in Store /\ Redis \notin Worker
      /\ \A c \in Call : call[c] \in Jobs /\ (pc[c] \in Busy => Called(call[c]))
      /\ pc \in [Call -> {"idle", "refused", "connect", "get", "set", "sent", "verify"}] /\ call \in [Call -> Jobs]
      /\ \A k \in Key : granted[Redis][k] \subseteq Hit
  BY LimiterConstants DEF Base, LTypeInv, ThrottleTypeOK, Handled, Jobs, Store
<1>2. ASSUME NEW c \in Call, NEW l \in Jobs, Called(l), InMemory(c, l)
      PROVE  /\ \A k \in Key : granted'[Redis][k] = granted[Redis][k]
             /\ \A k \in Key : <<Redis, k>> \in loose => <<Redis, k>> \in loose'
             /\ pc'[c] \notin Awaiting
             /\ \A d \in Call \ {c} : pc'[d] = pc[d] /\ call'[d] = call[d]
  <2>1. l.worker # Redis
    BY <1>1, <1>2 DEF Called
  <2>2. \A k \in Key : granted'[Redis][k] =
          IF Redis = l.worker /\ k = l.key /\ l.phase = "hit" /\ ~Full(Seen(l.worker, l.key), l.key)
            THEN granted[Redis][k] \cup {HitOf(l)} ELSE granted[Redis][k]
    BY <1>1, <1>2, MemoryOutcome
  <2>3. loose \subseteq loose' /\ Concluded(c, [l EXCEPT !.now = clock], Full(Seen(l.worker, l.key), l.key))
    BY <1>2, MemoryOutcome
  <2>4. QED BY <2>1, <2>2, <2>3 DEF Concluded, Awaiting
<1>3. ASSUME NEW c \in Call, NEW l \in Jobs, Called(l), Enter(c, l), clock' = clock, redis' = redis
      PROVE  RedisWindows'
  <2>1. CASE InMemory(c, l)
    <3>1. \A d \in Call : pc'[d] \in Awaiting => Lingers(d)
      BY <2>1, <1>2, <1>3 DEF Lingers
    <3>2. QED BY <3>1, <2>1, <1>1, <1>2, <1>3, RedisFrame
  <2>2. CASE /\ shared /\ pc' = [pc EXCEPT ![c] = "connect"] /\ call' = [call EXCEPT ![c] = l]
             /\ UNCHANGED <<tracked, memory, granted, loose>>
    <3>1. pc'[c] = "connect" /\ \A d \in Call \ {c} : pc'[d] = pc[d] /\ call'[d] = call[d]
      BY <2>2, <1>1
    <3>2. QED BY <3>1, <2>2, <1>1, <1>3, RedisFrame DEF Awaiting, Lingers
  <2>3. QED BY <2>1, <2>2, <1>3, Entering
<1>4. ASSUME NEW c \in Call, NEW w \in Worker, NEW k \in Key, Arrive(c, w, k)
      PROVE  RedisWindows'
  BY <1>3, <1>4, Arriving
<1>5. ASSUME NEW c \in Call, LoginFails(c)
      PROVE  RedisWindows'
  BY <1>3, <1>5, LoginFailing
<1>6. ASSUME NEW c \in Call, ConnectFails(c) \/ GetFails(c) \/ (SetFails(c) /\ redis' = redis)
      PROVE  RedisWindows'
  <2>1. InMemory(c, call[c]) /\ Called(call[c]) /\ clock' = clock /\ redis' = redis
    BY <1>1, <1>6 DEF ConnectFails, GetFails, SetFails, Busy
  <2>2. \A d \in Call : pc'[d] \in Awaiting => Lingers(d)
    BY <2>1, <1>1, <1>2 DEF Lingers
  <2>3. QED BY <2>1, <2>2, <1>1, <1>2, RedisFrame
<1>7. ASSUME NEW c \in Call, SetFails(c), redis' = Saved(c)
      PROVE  RedisWindows'
  <2>1. InMemory(c, call[c]) /\ Called(call[c]) /\ clock' = clock /\ pc[c] = "set"
    BY <1>1, <1>7 DEF SetFails, Busy
  <2>2. /\ \A k \in Key : granted'[Redis][k] = granted[Redis][k]
        /\ \A k \in Key : <<Redis, k>> \in loose => <<Redis, k>> \in loose'
        /\ pc'[c] \notin Awaiting
        /\ \A d \in Call \ {c} : pc'[d] = pc[d] /\ call'[d] = call[d]
    BY <2>1, <1>1, <1>2
  <2>3. call[c].key \in Key
    BY <2>1 DEF Called
  <2>4. QED BY <2>1, <2>2, <2>3, <1>7, RedisSaves
<1>8. ASSUME NEW c \in Call, Set(c)
      PROVE  RedisWindows'
  <2> DEFINE j == call[c]
  <2>1. /\ pc[c] = "set" /\ redis' = Saved(c) /\ UNCHANGED <<clock, loose>>
        /\ Conclude(c, j, Full(j.seen, j.key), Redis)
    BY <1>8 DEF Set
  <2>2. j \in Jobs /\ Called(j) /\ j.key \in Key
    BY <2>1, <1>1 DEF Busy, Called
  <2>3. Saved(c)[j.key].hits = Added(j.seen, j.key, j.phase, HitOfJob(j))
    BY <2>1, SavedWindow
  <2> HIDE DEF j
  <2>4. Concluded(c, j, Full(j.seen, j.key))
    BY <2>1, <2>2, <1>1, ConcludeType DEF Base
  <2>5. \A k \in Key : granted'[Redis][k] =
          IF Redis = Redis /\ k = j.key /\ j.phase = "hit" /\ ~Full(j.seen, j.key)
            THEN granted[Redis][k] \cup {[n |-> j.n, at |-> j.now]} ELSE granted[Redis][k]
    BY <2>1, <2>2, <1>1, GrantedBy DEF Base
  <2>6. granted'[Redis][j.key] \subseteq granted[Redis][j.key] \cup Saved(c)[j.key].hits
    BY <2>2, <2>3, <2>5 DEF Added, HitOfJob
  <2>7. QED BY <2>1, <2>2, <2>4, <2>5, <2>6, RedisSaves DEF Concluded, Awaiting, j
<1>9. ASSUME NEW c \in Call, Connect(c)
      PROVE  RedisWindows'
  <2> DEFINE k == call[c].key
  <2>1. /\ pc[c] = "connect" /\ pc' = [pc EXCEPT ![c] = "get"] /\ call' = [call EXCEPT ![c].now = clock]
        /\ loose' = IF OnKey(k) = {} THEN loose ELSE loose \cup {<<Redis, k>>}
        /\ UNCHANGED <<clock, redis, granted>>
    BY <1>9 DEF Connect
  <2>2. /\ pc'[c] = "get" /\ call'[c].key = k
        /\ \A d \in Call \ {c} : pc'[d] = pc[d] /\ call'[d] = call[d]
    BY <2>1, <1>1 DEF Jobs
  <2> HIDE DEF k
  <2>3. \A x \in Key : OnKey(x)' \subseteq OnKey(x) \cup (IF x = k THEN {c} ELSE {})
    BY <2>2 DEF OnKey
  <2>4. ASSUME NEW x \in Key
        PROVE  RedisWindow(x)'
    <3>1. RedisWindow(x)
      BY DEF RedisWindows
    <3>2. <<Redis, x>> \notin loose' => \A b, d \in OnKey(x)' : b = d
      <4>1. CASE x # k
        BY <4>1, <3>1, <2>1, <2>3 DEF RedisWindow
      <4>2. CASE x = k
        BY <4>2, <2>1, <2>3
      <4>3. QED BY <4>1, <4>2
    <3>3. <<Redis, x>> \notin loose' => <<Redis, x>> \notin loose
      BY <2>1
    <3>4. QED BY <3>1, <3>2, <3>3, <2>1 DEF RedisWindow, Small, Kept
  <2>5. ASSUME NEW d \in Call
        PROVE  Copy(d)'
    <3>1. CASE pc'[d] \notin {"set", "sent"}
      BY <3>1 DEF Copy
    <3>2. CASE pc'[d] \in {"set", "sent"}
      <4>1. pc[d] \in {"set", "sent"} /\ call'[d] = call[d] /\ Copy(d)
        BY <3>2, <2>2 DEF RedisWindows
      <4>2. <<Redis, call[d].key>> \notin loose' => <<Redis, call[d].key>> \notin loose
        BY <2>1
      <4>3. QED BY <4>1, <4>2, <2>1 DEF Copy, Small
    <3>3. QED BY <3>1, <3>2
  <2>6. QED BY <2>4, <2>5 DEF RedisWindows
<1>10. ASSUME NEW c \in Call, Get(c)
       PROVE  RedisWindows'
  <2> DEFINE k == call[c].key
             seen == Recent(Stored(k), k, call[c].now)
  <2>1. /\ pc[c] = "get" /\ pc' = [pc EXCEPT ![c] = "set"] /\ call' = [call EXCEPT ![c].seen = seen]
        /\ UNCHANGED <<clock, redis, granted, loose>>
    BY <1>10 DEF Get
  <2>2. k \in Key /\ call[c].now <= clock /\ call[c].now \in Int
    BY <2>1, <1>1 DEF Base, NowOK, Busy, Called, Jobs
  <2> HIDE DEF seen
  <2>3. /\ pc'[c] = "set" /\ call'[c].key = k /\ call'[c].seen = seen
        /\ \A d \in Call \ {c} : pc'[d] = pc[d] /\ call'[d] = call[d]
    BY <2>1, <1>1 DEF Jobs
  <2> HIDE DEF k
  <2>4. \A x \in Key : OnKey(x)' = OnKey(x)
    BY <2>1, <2>3 DEF OnKey, k
  <2>5. RedisWindow(k) /\ seen \subseteq redis[k].hits
    BY <2>2 DEF RedisWindows, seen, Stored, Recent
  <2>6. Small(seen, k) /\ \A h \in seen : h.at <= clock
    BY <2>2, <2>5, SmallSubset DEF RedisWindow
  <2>7. ASSUME <<Redis, k>> \notin loose
        PROVE  Recent(granted[Redis][k], k, clock) \subseteq seen
    <3> SUFFICES ASSUME NEW h \in Recent(granted[Redis][k], k, clock)
                 PROVE  h \in seen
      OBVIOUS
    <3>1. h \in redis[k].hits /\ h \in Hit /\ h.at > clock - Window[k]
      BY <2>2, <2>5, <2>7, <1>1 DEF RedisWindow, Recent
    <3>2. h.at + Window[k] < redis[k].until /\ redis[k].until \in Int
      BY <2>2, <2>5, <3>1 DEF RedisWindow, Kept, Base, LTypeInv, ThrottleTypeOK
    <3>3. clock < redis[k].until /\ h.at > call[c].now - Window[k]
      BY <3>1, <3>2, <2>2, <1>1, LimitType DEF Hit
    <3>4. QED BY <3>1, <3>3 DEF seen, Stored, Recent
  <2>8. ASSUME NEW x \in Key
        PROVE  RedisWindow(x)'
    <3>1. RedisWindow(x)
      BY DEF RedisWindows
    <3>2. QED BY <3>1, <2>1, <2>4 DEF RedisWindow, Small, Kept
  <2>9. ASSUME NEW d \in Call
        PROVE  Copy(d)'
    <3>1. CASE d = c
      BY <3>1, <2>1, <2>3, <2>6, <2>7 DEF Copy, Small
    <3>2. CASE d # c
      <4>1. pc'[d] = pc[d] /\ call'[d] = call[d] /\ Copy(d)
        BY <3>2, <2>3 DEF RedisWindows
      <4>2. QED BY <4>1, <2>1 DEF Copy, Small
    <3>3. QED BY <3>1, <3>2
  <2>10. QED BY <2>8, <2>9 DEF RedisWindows
<1>11. ASSUME NEW c \in Call, LoggedIn(c)
       PROVE  RedisWindows'
  <2>1. /\ pc' = [pc EXCEPT ![c] = "idle"] /\ UNCHANGED <<clock, redis, call, granted, loose>>
    BY <1>11 DEF LoggedIn
  <2>2. \A d \in Call : pc'[d] \in Awaiting => Lingers(d)
    BY <2>1, <1>1 DEF Awaiting, Lingers
  <2>3. QED BY <2>1, <2>2, <1>1, RedisFrame
<1>16. ASSUME NEW c \in Call, Cancel(c) \/ (SetLate(c) /\ redis' = redis)
       PROVE  RedisWindows'
  <2>1. /\ UNCHANGED <<clock, redis, granted, loose>>
        /\ \A d \in Call : pc'[d] \in Awaiting => Lingers(d)
    BY <1>1, <1>16 DEF Cancel, SetLate, Awaiting, Lingers
  <2>2. QED BY <2>1, <1>1, RedisFrame
<1>17. ASSUME NEW c \in Call, SetLate(c), redis' = Saved(c)
       PROVE  RedisWindows'
  <2>1. /\ pc[c] = "sent" /\ pc'[c] \notin Awaiting /\ UNCHANGED <<clock, granted, loose>>
        /\ \A d \in Call \ {c} : pc'[d] = pc[d] /\ call'[d] = call[d]
    BY <1>1, <1>17 DEF SetLate, Awaiting
  <2>2. QED BY <2>1, <1>17, RedisSaves
<1>12. CASE Tick
  BY <1>12, <1>1, RedisFrame DEF Tick, Lingers
<1>13. ASSUME NEW w \in Worker, Restart(w)
       PROVE  RedisWindows'
  <2>1. /\ UNCHANGED <<clock, redis, granted>> /\ loose \subseteq loose'
        /\ \A d \in Call : pc'[d] \in Awaiting => Lingers(d)
    BY <1>13 DEF Restart, Awaiting, Lingers
  <2>2. QED BY <2>1, <1>1, RedisFrame
<1>14. CASE UNCHANGED vars
  BY <1>14, <1>1, RedisFrame DEF vars, Lingers
<1>15. QED
  BY <1>4, <1>5, <1>6, <1>7, <1>8, <1>9, <1>10, <1>11, <1>12, <1>13, <1>14, <1>16, <1>17
     DEF Next, SetFails, SetLate

-----------------------------------------------------------------------------
\* The hits within a window are the recent ones.
LEMMA WithinIsRecent ==
  ASSUME NEW H, H \subseteq Hit, NEW k \in Key, NEW now \in Int
  PROVE  Within(H, k, now) = Recent(H, k, now)
BY LimitType DEF Within, Recent, Hit

\* So the windows are always complete and small.
LEMMA WindowsAlways == Spec => [](Base /\ WorkerWindows /\ RedisWindows)
BY BaseInit, BaseStep, WorkerInit, WorkerStep, RedisInit, RedisStep, PTL DEF Spec

\* In every store, a worker's or Redis, no more hits than the limit are let pass within any
\* window, except for a key whose calls overlapped in Redis or whose window was evicted or lost
\* by a restart (rate_limit_exceeded).
THEOREM LimitIsKept == Spec => []LimitPerStore
<1>1. Base /\ WorkerWindows /\ RedisWindows => LimitPerStore
  <2> SUFFICES ASSUME Base, WorkerWindows, RedisWindows,
                      NEW s \in Store, NEW k \in Key, <<s, k>> \notin loose
               PROVE  Cardinality(Within(granted[s][k], k, clock)) <= Limit[k]
    BY DEF LimitPerStore
  <2>1. clock \in Int /\ granted[s][k] \subseteq Hit
    BY DEF Base, LTypeInv, ThrottleTypeOK
  <2>2. CASE s \in Worker
    BY <2>1, <2>2, WithinIsRecent, SmallSubset DEF WorkerWindows, Small
  <2>3. CASE s = Redis
    BY <2>1, <2>3, WithinIsRecent, SmallSubset DEF RedisWindows, RedisWindow, Small
  <2>4. QED BY <2>2, <2>3 DEF Store
<1>2. QED BY <1>1, WindowsAlways, PTL

-----------------------------------------------------------------------------
(* The hits a refusal is for *)

\* No hit is to be accounted for at first.
LEMMA AccountInit == Init => Accounted
<1> SUFFICES ASSUME Init PROVE Accounted
  OBVIOUS
<1>1. /\ \A c \in Call : pc[c] = "idle"
      /\ \A k \in Key : redis[k].hits = {} /\ \A w \in Worker : memory[w][k] = {}
  BY DEF Init
<1>2. AccountOf({})
  BY DEF AccountOf, Distinct, Fresh
<1>3. Numbered /\ InMemoryEarned
  BY <1>1, <1>2 DEF Numbered, Busy, InMemoryEarned
<1>4. \A k \in Key : StoredEarned(k)
  BY <1>1, <1>2 DEF StoredEarned
<1>5. \A c \in Call : CopyEarned(c) /\ Refused(c)
  BY <1>1 DEF CopyEarned, Refused
<1>6. QED BY <1>3, <1>4, <1>5 DEF Accounted

\* Where the requests that are still handled are from.
Continues(d) ==
  \/ pc[d] \in Busy /\ call'[d].n = call[d].n
  \/ arrived' = arrived + 1 /\ call'[d].n = arrived'

\* No two handlers have the same request, and none has one that was counted.
LEMMA NumberStep ==
  ASSUME Base, Numbered, [Next]_vars
  PROVE  /\ arrived' \in {arrived, arrived + 1}
         /\ \A c \in Call : pc'[c] \in Busy => Continues(c)
         /\ Numbered'
<1>1. /\ arrived \in Int
      /\ \A c \in Call : call[c] \in Jobs /\ call[c].n \in Int
      /\ \A c \in Call : pc[c] \in Busy => Called(call[c]) /\ call[c].n <= arrived
      /\ pc \in [Call -> {"idle", "refused", "connect", "get", "set", "sent", "verify"}] /\ call \in [Call -> Jobs]
  BY DEF Base, LTypeInv, ThrottleTypeOK, Handled, Jobs
<1>2. ASSUME NEW c \in Call, NEW l \in Jobs, Called(l), InMemory(c, l) \/ Enter(c, l), Own(c, l)
      PROVE  /\ pc'[c] \in Busy => call'[c].n = l.n
             /\ \A d \in Call \ {c} : pc'[d] = pc[d] /\ call'[d] = call[d]
  <2>1. CASE InMemory(c, l)
    <3>1. Concluded(c, [l EXCEPT !.now = clock], Full(Seen(l.worker, l.key), l.key))
      BY <1>2, <2>1, MemoryOutcome
    <3>2. [l EXCEPT !.now = clock].n = l.n
      BY DEF Jobs
    <3>3. QED BY <3>1, <3>2 DEF Concluded
  <2>2. CASE pc' = [pc EXCEPT ![c] = "connect"] /\ call' = [call EXCEPT ![c] = l]
    BY <2>2, <1>1
  <2>3. QED BY <1>2, <2>1, <2>2, Entering
<1>3. ASSUME NEW c \in Call, NEW l \in Jobs, Own(c, l),
             pc'[c] \in Busy => call'[c].n = l.n,
             \A d \in Call \ {c} : pc'[d] = pc[d] /\ call'[d] = call[d]
      PROVE  /\ arrived' \in {arrived, arrived + 1}
             /\ \A d \in Call : pc'[d] \in Busy => Continues(d)
             /\ Numbered'
  <2>1. arrived' \in {arrived, arrived + 1}
    BY <1>3 DEF Own
  <2>2. ASSUME NEW d \in Call, pc'[d] \in Busy
        PROVE  Continues(d)
    BY <1>3, <2>2 DEF Own, Continues
  <2>3. Numbered'
    <3> SUFFICES ASSUME NEW d \in Call, NEW e \in Call, pc'[d] \in Busy, pc'[e] \in Busy, d # e
                 PROVE  call'[d].n # call'[e].n
      BY DEF Numbered
    <3>1. CASE d # c /\ e # c
      BY <3>1, <1>3 DEF Numbered
    <3>2. CASE d = c \/ e = c
      <4>1. PICK a \in Call : a # c /\ pc[a] \in Busy /\ call'[a] = call[a]
                              /\ {call'[d].n, call'[e].n} = {l.n, call[a].n}
        BY <3>2, <1>3
      <4>2. l.n # call[a].n
        BY <4>1, <1>1, <1>3 DEF Own, Numbered
      <4>3. QED BY <4>1, <4>2
    <3>3. QED BY <3>1, <3>2
  <2>4. QED BY <2>1, <2>2, <2>3
<1>4. ASSUME arrived' = arrived,
             \A d \in Call : pc'[d] \in Busy => pc[d] \in Busy /\ call'[d].n = call[d].n
      PROVE  /\ arrived' \in {arrived, arrived + 1}
             /\ \A d \in Call : pc'[d] \in Busy => Continues(d)
             /\ Numbered'
  BY <1>4 DEF Continues, Numbered
<1>5. ASSUME NEW c \in Call, NEW w \in Worker, NEW k \in Key, Arrive(c, w, k)
      PROVE  \E l \in Jobs : Called(l) /\ Enter(c, l) /\ Own(c, l)
  BY <1>5, Arriving DEF Own
<1>6. ASSUME NEW c \in Call, LoginFails(c)
      PROVE  \E l \in Jobs : Called(l) /\ Enter(c, l) /\ Own(c, l)
  BY <1>6, LoginFailing DEF Own, Busy
<1>7. ASSUME NEW c \in Call, ConnectFails(c) \/ GetFails(c) \/ SetFails(c)
      PROVE  Called(call[c]) /\ InMemory(c, call[c]) /\ Own(c, call[c])
  BY <1>1, <1>7 DEF ConnectFails, GetFails, SetFails, Own, Busy
<1>8. ASSUME NEW c \in Call, Set(c)
      PROVE  /\ Own(c, call[c]) /\ (pc'[c] \in Busy => call'[c].n = call[c].n)
             /\ \A d \in Call \ {c} : pc'[d] = pc[d] /\ call'[d] = call[d]
  <2> DEFINE j == call[c]
  <2>1. /\ pc[c] = "set" /\ arrived' = arrived /\ Conclude(c, j, Full(j.seen, j.key), Redis)
    BY <1>8 DEF Set
  <2>2. j \in Jobs /\ Called(j) /\ Redis \in Store
    BY <2>1, <1>1 DEF Busy, Store
  <2>3. Own(c, j)
    BY <2>1 DEF Own, Busy
  <2> HIDE DEF j
  <2>4. Concluded(c, j, Full(j.seen, j.key))
    BY <2>1, <2>2, ConcludeType DEF Base
  <2>5. QED BY <2>3, <2>4 DEF Concluded, j
<1>9. ASSUME NEW c \in Call, Connect(c) \/ Get(c) \/ LoggedIn(c) \/ Cancel(c) \/ SetLate(c)
      PROVE  arrived' = arrived /\ \A d \in Call : pc'[d] \in Busy => pc[d] \in Busy /\ call'[d].n = call[d].n
  BY <1>1, <1>9 DEF Connect, Get, LoggedIn, Cancel, SetLate, Jobs, Busy
<1>10. ASSUME NEW w \in Worker, Restart(w)
       PROVE  arrived' = arrived /\ \A d \in Call : pc'[d] \in Busy => pc[d] \in Busy /\ call'[d].n = call[d].n
  BY <1>10 DEF Restart, Busy
<1>11. CASE Tick \/ UNCHANGED vars
  BY <1>4, <1>11 DEF Tick, vars
<1>12. QED
  BY <1>1, <1>2, <1>3, <1>4, <1>5, <1>6, <1>7, <1>8, <1>9, <1>10, <1>11 DEF Next

\* What is known of hits and windows after a step.
FreshNext(H) ==
  \A h \in H : h.n <= arrived' /\ \A c \in Call : pc'[c] \in Busy => h.n # call'[c].n
AccountNext(H)   == H \subseteq Hit /\ Distinct(H) /\ FreshNext(H)
EarnedNext(h, k) == \E s \in Store : \E g \in granted'[s][k] : g.n = h.n /\ g.at >= h.at

\* Hits that were counted stay accounted for.
LEMMA AccountStays ==
  ASSUME Base, Numbered, [Next]_vars, NEW H, AccountOf(H)
  PROVE  AccountNext(H)
<1>1. /\ arrived \in Int /\ arrived' \in {arrived, arrived + 1}
      /\ \A c \in Call : pc'[c] \in Busy => Continues(c)
  BY NumberStep DEF Base, LTypeInv, ThrottleTypeOK
<1>2. \A h \in Hit : h.n \in Int
  BY DEF Hit
<1>3. ASSUME NEW h \in H
      PROVE  h.n <= arrived' /\ \A c \in Call : pc'[c] \in Busy => h.n # call'[c].n
  BY <1>1, <1>2 DEF AccountOf, Fresh, Continues
<1>4. QED BY <1>3 DEF AccountOf, AccountNext, FreshNext

\* What was let pass stays so.
LEMMA GrantedGrows ==
  ASSUME Base, [Next]_vars
  PROVE  \A s \in Store, k \in Key : granted[s][k] \subseteq granted'[s][k]
<1>1. ASSUME NEW c \in Call, NEW l \in Jobs, Called(l), InMemory(c, l)
      PROVE  \A s \in Store, k \in Key : granted[s][k] \subseteq granted'[s][k]
  BY <1>1, MemoryOutcome
<1>2. ASSUME NEW c \in Call, Set(c)
      PROVE  \A s \in Store, k \in Key : granted[s][k] \subseteq granted'[s][k]
  <2> DEFINE j == call[c]
  <2>1. /\ j \in Jobs /\ Called(j) /\ Redis \in Store /\ Conclude(c, j, Full(j.seen, j.key), Redis)
    BY <1>2 DEF Set, Base, LTypeInv, ThrottleTypeOK, Handled, Busy, Jobs, Store
  <2> HIDE DEF j
  <2>2. \A r \in Store, x \in Key :
          granted'[r][x] = IF r = Redis /\ x = j.key /\ j.phase = "hit" /\ ~Full(j.seen, j.key)
                             THEN granted[r][x] \cup {[n |-> j.n, at |-> j.now]} ELSE granted[r][x]
    BY <2>1, GrantedBy DEF Base
  <2>3. QED BY <2>2
<1>3. CASE Tick \/ \E w \in Worker : Restart(w)
  BY <1>3 DEF Tick, Restart
<1>4. QED BY <1>1, <1>2, <1>3, MemoryKinds

\* Nor does a hit lose what it was earned by.
LEMMA EarnedStays ==
  ASSUME Base, [Next]_vars, NEW k \in Key, NEW h, Earned(h, k)
  PROVE  EarnedNext(h, k)
BY GrantedGrows DEF Earned, EarnedNext

\* A request that has been counted is no longer handled.
LEMMA NewHit ==
  ASSUME Base, Numbered, [Next]_vars, NEW c \in Call, NEW l \in Jobs, Called(l), Own(c, l),
         pc'[c] \notin Busy, \A d \in Call \ {c} : pc'[d] = pc[d] /\ call'[d] = call[d],
         NEW H, AccountOf(H), NEW h \in Hit, h.n = l.n, NEW G, G = H \cup {h}
  PROVE  AccountNext(G)
<1>1. /\ arrived \in Int /\ arrived' \in {arrived, arrived + 1}
      /\ \A d \in Call : pc[d] \in Busy => call[d].n \in Int /\ call[d].n <= arrived
      /\ \A i \in Hit : i.n \in Int
  BY NumberStep DEF Base, LTypeInv, ThrottleTypeOK, Handled, Called, Hit
<1>2. \A i \in H : i.n # h.n
  BY <1>1 DEF AccountOf, Fresh, Own
<1>3. AccountNext(H)
  BY AccountStays
<1>4. h.n <= arrived' /\ \A d \in Call : pc'[d] \in Busy => h.n # call'[d].n
  BY <1>1 DEF Own, Numbered
<1>5. G \subseteq Hit /\ Distinct(G)
  BY <1>2 DEF AccountOf, Distinct
<1>6. ASSUME NEW i \in G
      PROVE  i.n <= arrived' /\ \A d \in Call : pc'[d] \in Busy => i.n # call'[d].n
  BY <1>3, <1>4 DEF AccountNext, FreshNext
<1>7. QED BY <1>5, <1>6 DEF AccountNext, FreshNext

\* A window with the hit that was added is accounted for.
LEMMA AddedHit ==
  ASSUME Base, Numbered, [Next]_vars, NEW c \in Call, NEW l \in Jobs, Called(l), Own(c, l),
         l.phase = "hit" => pc'[c] \notin Busy,
         \A d \in Call \ {c} : pc'[d] = pc[d] /\ call'[d] = call[d],
         NEW H, AccountOf(H), NEW h \in Hit, h.n = l.n, NEW k, NEW G, G = Added(H, k, l.phase, h)
  PROVE  AccountNext(G)
<1>1. CASE G = H
  BY <1>1, AccountStays
<1>2. CASE l.phase = "hit" /\ G = H \cup {h}
  BY <1>2, NewHit
<1>3. QED BY <1>1, <1>2 DEF Added

\* Every step keeps the hits in memory accounted for.
LEMMA InMemoryStep == Base /\ Accounted /\ [Next]_vars => InMemoryEarned'
<1> SUFFICES ASSUME Base, Accounted, [Next]_vars, NEW w \in Worker, NEW k \in Key
             PROVE  AccountNext(memory'[w][k]) /\ memory'[w][k] \subseteq granted'[w][k]
  BY DEF InMemoryEarned, AccountNext, FreshNext, AccountOf, Fresh
<1>1. /\ Numbered /\ AccountOf(memory[w][k]) /\ memory[w][k] \subseteq granted[w][k]
      /\ w \in Store /\ granted[w][k] \subseteq granted'[w][k]
  BY GrantedGrows DEF Accounted, InMemoryEarned, Store
<1>2. CASE memory'[w][k] = memory[w][k]
  BY <1>1, <1>2, AccountStays
<1>3. CASE memory'[w][k] = {}
  BY <1>3 DEF AccountNext, FreshNext, Distinct
<1>4. ASSUME NEW c \in Call, NEW l \in Jobs, Called(l), InMemory(c, l), Own(c, l)
      PROVE  AccountNext(memory'[w][k]) /\ memory'[w][k] \subseteq granted'[w][k]
  <2> DEFINE H == Seen(l.worker, l.key)
  <2>1. /\ \A v \in Worker, x \in Key : v # l.worker \/ x # l.key => KeptOrDropped(v, x)
        /\ memory'[l.worker][l.key] = Added(H, l.key, l.phase, HitOf(l))
        /\ Concluded(c, [l EXCEPT !.now = clock], Full(H, l.key))
    BY <1>4, MemoryOutcome
  <2>2. granted'[w][k] = IF w = l.worker /\ k = l.key /\ l.phase = "hit" /\ ~Full(H, l.key)
                           THEN granted[w][k] \cup {HitOf(l)} ELSE granted[w][k]
    BY <1>1, <1>4, MemoryOutcome
  <2>3. CASE w = l.worker /\ k = l.key
    <3>1. H \in SUBSET memory[w][k] /\ memory'[w][k] = Added(H, k, l.phase, HitOf(l))
      BY <2>1, <2>3 DEF Seen, Recent
    <3>2. AccountOf(H)
      BY <1>1, <3>1 DEF AccountOf, Fresh, Distinct
    <3>3. HitOf(l) \in Hit /\ HitOf(l).n = l.n
      BY <1>4 DEF HitOf, Hit, Called, Base, LTypeInv, ThrottleTypeOK
    <3>4. /\ l.phase = "hit" => pc'[c] \notin Busy
          /\ \A d \in Call \ {c} : pc'[d] = pc[d] /\ call'[d] = call[d]
      BY <2>1 DEF Concluded, Jobs, Busy
    <3> HIDE DEF H
    <3>5. AccountNext(memory'[w][k])
      BY <1>1, <1>4, <3>1, <3>2, <3>3, <3>4, AddedHit
    <3>6. memory'[w][k] \subseteq granted'[w][k]
      BY <1>1, <2>2, <2>3, <3>1 DEF Added
    <3>7. QED BY <3>5, <3>6
  <2>4. CASE w # l.worker \/ k # l.key
    BY <2>1, <2>4, <1>2, <1>3 DEF KeptOrDropped
  <2>5. QED BY <2>3, <2>4
<1>5. CASE Tick \/ UNCHANGED <<memory, granted, clock>> \/ \E c \in Call : Set(c)
  BY <1>2, <1>5 DEF Tick, Set
<1>6. ASSUME NEW v \in Worker, Restart(v)
      PROVE  memory'[w][k] \in {memory[w][k], {}}
  BY <1>6 DEF Restart, Base, LTypeInv, ThrottleTypeOK
<1>7. QED BY <1>2, <1>3, <1>4, <1>5, <1>6, MemoryKinds

StoredNext(k) == AccountNext(redis'[k].hits) /\ (k \notin torn' => \A h \in redis'[k].hits : EarnedNext(h, k))

CopyNext(c) == LET k == call'[c].key IN
  pc'[c] \in {"set", "sent"} =>
    /\ AccountNext(call'[c].seen) /\ \A h \in call'[c].seen : call'[c].now < h.at + Window[k]
    /\ k \notin torn' => \A h \in call'[c].seen : EarnedNext(h, k)

\* The invariant after the step, in terms of the state it leads to.
LEMMA StoredIsNext == \A k \in Key : StoredNext(k) => StoredEarned(k)'
BY DEF StoredNext, StoredEarned, AccountNext, AccountOf, FreshNext, Fresh, EarnedNext, Earned

LEMMA CopyIsNext == \A c \in Call : CopyNext(c) => CopyEarned(c)'
BY DEF CopyNext, CopyEarned, AccountNext, AccountOf, FreshNext, Fresh, EarnedNext, Earned

\* A window or copy that a step leaves alone.
LEMMA StoredStays ==
  ASSUME Base, Accounted, [Next]_vars, torn \subseteq torn', NEW k \in Key, redis'[k] = redis[k]
  PROVE  StoredNext(k)
<1>1. StoredEarned(k) /\ Numbered
  BY DEF Accounted
<1>2. AccountNext(redis[k].hits)
  BY <1>1, AccountStays DEF StoredEarned
<1>3. k \notin torn => \A h \in redis[k].hits : EarnedNext(h, k)
  BY <1>1, EarnedStays DEF StoredEarned
<1>4. QED BY <1>2, <1>3 DEF StoredNext

\* A handler that does not move keeps an accounted copy.
LEMMA CopyStays ==
  ASSUME Base, Accounted, [Next]_vars, torn \subseteq torn', NEW c \in Call,
         pc'[c] \in {"set", "sent"} => Lingers(c)
  PROVE  CopyNext(c)
<1> SUFFICES ASSUME pc'[c] \in {"set", "sent"} PROVE CopyNext(c)
  BY DEF CopyNext
<1>1. pc[c] \in {"set", "sent"} /\ call'[c] = call[c] /\ CopyEarned(c) /\ Numbered /\ call[c].key \in Key
  BY DEF Accounted, Base, LTypeInv, Handled, Called, Busy, Lingers
<1>2. AccountNext(call[c].seen) /\ \A h \in call[c].seen : call[c].now < h.at + Window[call[c].key]
  BY <1>1, AccountStays DEF CopyEarned
<1>3. call[c].key \notin torn => \A h \in call[c].seen : EarnedNext(h, call[c].key)
  BY <1>1, EarnedStays DEF CopyEarned
<1>4. QED BY <1>1, <1>2, <1>3 DEF CopyNext

\* A SET that Redis executes.
LEMMA SetStores ==
  ASSUME Base, Accounted, RedisWindows, [Next]_vars, NEW c \in Call, pc[c] \in {"set", "sent"}, redis' = Saved(c),
         torn \subseteq torn', Own(c, call[c]),
         call[c].phase = "hit" => pc'[c] \notin Busy,
         \A d \in Call \ {c} : pc'[d] = pc[d] /\ call'[d] = call[d],
         redis' # redis /\ call[c].phase = "hit" /\ ~Full(call[c].seen, call[c].key)
           /\ call[c].key \notin torn' => EarnedNext(HitOfJob(call[c]), call[c].key)
  PROVE  \A k \in Key : StoredNext(k)
<1> DEFINE j == call[c]
           A == Added(j.seen, j.key, j.phase, HitOfJob(j))
<1>1. /\ j \in Jobs /\ Called(j) /\ Saved(c)[j.key].hits = A
      /\ \A k \in Key : k # j.key => Saved(c)[k] = redis[k]
  BY SavedWindow
<1>2. CopyEarned(c) /\ Numbered /\ j.key \in Key
  BY <1>1 DEF Accounted, Called
<1>3. \A k \in Key : k # j.key => StoredNext(k)
  BY <1>1, StoredStays
<1>4. redis' = redis => StoredNext(j.key)
  BY <1>2, StoredStays
<1>5. ASSUME redis' # redis PROVE StoredNext(j.key)
  <2>1. /\ AccountOf(j.seen) /\ HitOfJob(j) \in Hit /\ HitOfJob(j).n = j.n
        /\ Own(c, j) /\ (j.phase = "hit" => pc'[c] \notin Busy)
    BY <1>1, <1>2 DEF CopyEarned, HitOfJob, Hit, Called, Jobs
  <2>2. AccountNext(A)
    <3> HIDE DEF j
    <3>1. QED BY <1>1, <1>2, <2>1, AddedHit DEF j
  <2>3. j.key \notin torn' => \A h \in A : EarnedNext(h, j.key)
    <3>1. \A h \in A : h \in j.seen \/ (h = HitOfJob(j) /\ j.phase = "hit" /\ ~Full(j.seen, j.key))
      BY DEF Added
    <3>2. j.key \notin torn' => \A h \in j.seen : EarnedNext(h, j.key)
      BY <1>2, EarnedStays DEF CopyEarned
    <3>3. QED BY <3>1, <3>2, <1>5
  <2>4. QED BY <1>1, <2>2, <2>3 DEF StoredNext
<1>6. QED BY <1>3, <1>4, <1>5

ShownNext(H, k, now) ==
  /\ IsFiniteSet(H) /\ Cardinality(H) >= Limit[k] /\ Distinct(H)
  /\ \A h \in H : now < h.at + Window[k] /\ EarnedNext(h, k)

RefusedNext(c) == LET k == call'[c].key IN
  pc'[c] = "refused" /\ k \notin torn' => \E H \in SUBSET Hit : ShownNext(H, k, call'[c].now)

LEMMA RefusedIsNext == \A c \in Call : RefusedNext(c) => Refused(c)'
BY DEF RefusedNext, Refused, ShownNext, Shown, EarnedNext, Earned

\* Nobody's refusal loses its reason.
LEMMA RefusedStays ==
  ASSUME Base, Accounted, [Next]_vars, torn \subseteq torn', NEW c \in Call,
         pc'[c] = "refused" => pc[c] = "refused" /\ call'[c] = call[c]
  PROVE  RefusedNext(c)
<1> SUFFICES ASSUME pc'[c] = "refused", call'[c].key \notin torn' PROVE RefusedNext(c)
  BY DEF RefusedNext
<1>1. /\ pc[c] = "refused" /\ call'[c] = call[c] /\ Refused(c) /\ call[c].key \in Key
      /\ call[c].key \notin torn
  BY DEF Accounted, Base, LTypeInv, Handled
<1>2. PICK H \in SUBSET Hit : Shown(H, call[c].key, call[c].now)
  BY <1>1 DEF Refused
<1>3. ShownNext(H, call[c].key, call[c].now)
  BY <1>1, <1>2, EarnedStays DEF Shown, ShownNext
<1>4. QED BY <1>1, <1>3 DEF RefusedNext

\* Handlers a step leaves alone, and windows it does not write.
LEMMA OthersStay ==
  ASSUME Base, Accounted, [Next]_vars, torn \subseteq torn',
         NEW D \in SUBSET Call, \A d \in D : pc'[d] = pc[d] /\ call'[d] = call[d]
  PROVE  \A d \in D : CopyNext(d) /\ RefusedNext(d)
BY CopyStays, RefusedStays DEF Lingers

EarnedWell == (\A k \in Key : StoredNext(k)) /\ \A c \in Call : CopyNext(c) /\ RefusedNext(c)

\* A call answered from memory is refused for the hits in memory.
LEMMA MemoryRefuses ==
  ASSUME Base, WorkerWindows, Accounted, [Next]_vars, torn \subseteq torn', clock' = clock,
         NEW c \in Call, NEW l \in Jobs, Called(l), InMemory(c, l)
  PROVE  /\ \A d \in Call : CopyNext(d) /\ RefusedNext(d)
         /\ \A d \in Call \ {c} : pc'[d] = pc[d] /\ call'[d] = call[d]
         /\ l.phase = "hit" => pc'[c] \notin Busy
         /\ granted' = granted \/ EarnedNext(HitOf(l), l.key)
<1> DEFINE u == l.worker
           x == l.key
           H == Seen(u, x)
           j == [l EXCEPT !.now = clock]
<1>1. Concluded(c, j, Full(H, x)) /\ u \in Worker /\ x \in Key /\ u \in Store
  BY MemoryOutcome DEF Called, Store
<1>2. j.phase = l.phase /\ j.key = x /\ j.now = clock /\ j.n = l.n
  BY DEF Jobs
<1> HIDE DEF j
<1>3. /\ \A d \in Call \ {c} : pc'[d] = pc[d] /\ call'[d] = call[d]
      /\ pc'[c] \in {"idle", "refused", "verify"} /\ (l.phase = "hit" => pc'[c] \notin Busy)
  BY <1>1, <1>2 DEF Concluded, Busy
<1>4. /\ H \in SUBSET memory[u][x] /\ H \in SUBSET Hit /\ memory[u][x] \subseteq granted'[u][x]
      /\ Distinct(H) /\ IsFiniteSet(H) /\ \A h \in H : clock < h.at + Window[x]
  <2>1. /\ AccountOf(memory[u][x]) /\ memory[u][x] \subseteq granted[u][x]
        /\ granted[u][x] \subseteq granted'[u][x] /\ Small(memory[u][x], x)
    BY <1>1, GrantedGrows DEF Accounted, InMemoryEarned, WorkerWindows
  <2>2. H \in SUBSET memory[u][x] /\ H \in SUBSET Hit
    BY <2>1 DEF Seen, Recent, AccountOf
  <2>3. \A h \in H : clock < h.at + Window[x]
    <3>1. clock \in Int /\ \A h \in H : h.at \in Int /\ h.at > clock - Window[x]
      BY <2>2 DEF Base, LTypeInv, ThrottleTypeOK, Seen, Recent, Hit
    <3>2. QED BY <3>1, <1>1, LimitType
  <2>4. Small(H, x)
    BY <1>1, <2>1, <2>2, SmallSubset
  <2>5. QED BY <2>1, <2>2, <2>3, <2>4 DEF Small, AccountOf, Distinct
<1>5. ASSUME pc'[c] = "refused"
      PROVE  RefusedNext(c)
  <2>1. Full(H, x) /\ call'[c] = [Quiet EXCEPT !.key = x, !.now = clock]
    BY <1>1, <1>2, <1>5 DEF Concluded
  <2>2. call'[c].key = x /\ call'[c].now = clock
    BY <2>1 DEF Quiet
  <2>3. \A h \in H : h.at >= h.at
    BY <1>4 DEF Hit
  <2>4. \A h \in H : EarnedNext(h, x)
    BY <2>3, <1>1, <1>4 DEF EarnedNext
  <2>5. ShownNext(H, x, clock)
    BY <2>1, <2>4, <1>4 DEF Full, ShownNext
  <2>6. QED BY <2>2, <2>5, <1>4 DEF RefusedNext
<1>6. CopyNext(c) /\ RefusedNext(c)
  BY <1>3, <1>5 DEF CopyNext, RefusedNext
<1>7. \A d \in Call \ {c} : CopyNext(d) /\ RefusedNext(d)
  BY <1>3, OthersStay
<1>8. granted' = granted \/ EarnedNext(HitOf(l), x)
  <2>1. Conclude(c, j, Full(H, x), u)
    BY MemoryEffect DEF Base, j
  <2>2. CASE j.phase = "hit" /\ ~Full(H, x)
    <3>1. HitOf(l) \in granted'[u][x]
      <4>1. granted'[u][x] = granted[u][x] \cup {HitOf(l)}
        BY <1>1, <1>2, <2>2, MemoryOutcome
      <4>2. QED BY <4>1
    <3>2. HitOf(l).at >= HitOf(l).at
      BY DEF HitOf, Base, LTypeInv, ThrottleTypeOK
    <3>3. QED BY <3>1, <3>2, <1>1 DEF EarnedNext
  <2>3. CASE ~(j.phase = "hit" /\ ~Full(H, x))
    BY <2>1, <2>3 DEF Conclude
  <2>4. QED BY <2>2, <2>3
<1>9. QED BY <1>3, <1>6, <1>7, <1>8

\* Every step keeps windows, copies and refusals accounted for.
LEMMA EarnedStep == Base /\ WorkerWindows /\ RedisWindows /\ Accounted /\ [Next]_vars => EarnedWell
<1> SUFFICES ASSUME Base, WorkerWindows, RedisWindows, Accounted, [Next]_vars PROVE EarnedWell
  OBVIOUS
<1>1. /\ clock \in Int /\ Redis \in Store
      /\ \A c \in Call : call[c] \in Jobs /\ (pc[c] \in Busy => Called(call[c]))
      /\ pc \in [Call -> {"idle", "refused", "connect", "get", "set", "sent", "verify"}] /\ call \in [Call -> Jobs]
  BY DEF Base, LTypeInv, ThrottleTypeOK, Handled, Jobs, Store
<1>2. ASSUME redis' = redis, torn' = torn,
             \A c \in Call : pc'[c] \in {"set", "sent", "refused"} => Lingers(c)
      PROVE  EarnedWell
  <2>1. \A k \in Key : StoredNext(k)
    BY <1>2, StoredStays
  <2>2. \A c \in Call : CopyNext(c) /\ RefusedNext(c)
    BY <1>2, CopyStays, RefusedStays DEF Lingers
  <2>3. QED BY <2>1, <2>2 DEF EarnedWell
<1>3. ASSUME NEW c \in Call, NEW l \in Jobs, Called(l), Enter(c, l),
             UNCHANGED <<clock, redis, torn>>
      PROVE  EarnedWell
  <2>1. CASE InMemory(c, l)
    <3>1. \A d \in Call : CopyNext(d) /\ RefusedNext(d)
      BY <1>3, <2>1, MemoryRefuses
    <3>2. \A k \in Key : StoredNext(k)
      BY <1>3, StoredStays
    <3>3. QED BY <3>1, <3>2 DEF EarnedWell
  <2>2. CASE pc' = [pc EXCEPT ![c] = "connect"] /\ call' = [call EXCEPT ![c] = l]
    <3>1. pc'[c] = "connect" /\ \A d \in Call \ {c} : pc'[d] = pc[d] /\ call'[d] = call[d]
      BY <2>2, <1>1
    <3>2. QED BY <3>1, <1>2, <1>3 DEF Lingers
  <2>3. QED BY <2>1, <2>2, <1>3, Entering
<1>4. ASSUME NEW c \in Call, NEW w \in Worker, NEW k \in Key, Arrive(c, w, k)
      PROVE  EarnedWell
  BY <1>3, <1>4, Arriving
<1>5. ASSUME NEW c \in Call, LoginFails(c)
      PROVE  EarnedWell
  BY <1>3, <1>5, LoginFailing
<1>6. ASSUME NEW c \in Call, ConnectFails(c) \/ GetFails(c)
      PROVE  EarnedWell
  <2>1. /\ InMemory(c, call[c]) /\ Called(call[c]) /\ call[c] \in Jobs
        /\ UNCHANGED <<clock, redis, torn>>
    BY <1>1, <1>6 DEF ConnectFails, GetFails, Busy
  <2>2. \A d \in Call : CopyNext(d) /\ RefusedNext(d)
    BY <2>1, MemoryRefuses
  <2>3. \A k \in Key : StoredNext(k)
    BY <2>1, StoredStays
  <2>4. QED BY <2>2, <2>3 DEF EarnedWell
<1>7. ASSUME NEW c \in Call, SetFails(c)
      PROVE  EarnedWell
  <2> DEFINE j == call[c]
  <2>1. /\ InMemory(c, j) /\ Called(j) /\ j \in Jobs /\ pc[c] = "set" /\ clock' = clock
        /\ arrived' = arrived /\ redis' \in {redis, Saved(c)}
        /\ torn' = IF redis' # redis /\ j.phase = "hit" /\ granted' = granted
                     THEN torn \cup {j.key} ELSE torn
    BY <1>1, <1>7 DEF SetFails, Busy
  <2>2. torn \subseteq torn' /\ Own(c, j)
    BY <2>1 DEF Own, Busy
  <2>3. /\ \A d \in Call : CopyNext(d) /\ RefusedNext(d)
        /\ \A d \in Call \ {c} : pc'[d] = pc[d] /\ call'[d] = call[d]
        /\ j.phase = "hit" => pc'[c] \notin Busy
        /\ granted' = granted \/ EarnedNext(HitOf(j), j.key)
    BY <2>1, <2>2, MemoryRefuses
  <2>4. CASE redis' = redis
    BY <2>2, <2>3, <2>4, StoredStays DEF EarnedWell
  <2>5. CASE redis' = Saved(c)
    <3>1. EarnedNext(HitOf(j), j.key) => EarnedNext(HitOfJob(j), j.key)
      <4>1. \A s \in Store : \A g \in granted'[s][j.key] : g.n = j.n /\ g.at >= clock => g.n = j.n /\ g.at >= j.now
        <5>1. granted' \in [Store -> [Key -> SUBSET Hit]] /\ j.key \in Key
          BY <2>1, BaseStep DEF Base, LTypeInv, ThrottleTypeOK, Called
        <5>2. j.now <= clock /\ j.now \in Int
          BY <2>1 DEF Base, NowOK, Jobs
        <5>3. QED BY <5>1, <5>2, <1>1 DEF Hit
      <4>2. HitOf(j).n = j.n /\ HitOf(j).at = clock /\ HitOfJob(j).n = j.n /\ HitOfJob(j).at = j.now
        BY DEF HitOf, HitOfJob
      <4>3. QED BY <4>1, <4>2 DEF EarnedNext
    <3>2. redis' # redis /\ j.phase = "hit" /\ j.key \notin torn' => EarnedNext(HitOfJob(j), j.key)
      BY <2>1, <2>3, <3>1
    <3>3. \A k \in Key : StoredNext(k)
      BY <2>1, <2>2, <2>3, <2>5, <3>2, SetStores
    <3>4. QED BY <2>3, <3>3 DEF EarnedWell
  <2>6. QED BY <2>1, <2>4, <2>5
<1>8. ASSUME NEW c \in Call, Set(c)
      PROVE  EarnedWell
  <2> DEFINE j == call[c]
             H == j.seen
             k == j.key
  <2>1. /\ pc[c] = "set" /\ redis' = Saved(c) /\ UNCHANGED <<clock, arrived, torn>>
        /\ Conclude(c, j, Full(H, k), Redis)
    BY <1>8 DEF Set
  <2>2. j \in Jobs /\ Called(j) /\ k \in Key /\ Own(c, j) /\ CopyEarned(c) /\ Copy(c)
    BY <2>1, <1>1 DEF Busy, Called, Own, Accounted, RedisWindows
  <2>3. /\ Distinct(H) /\ IsFiniteSet(H) /\ H \subseteq Hit
        /\ \A h \in H : j.now < h.at + Window[k]
        /\ k \notin torn => \A h \in H : EarnedNext(h, k)
    BY <2>1, <2>2, EarnedStays DEF CopyEarned, Copy, AccountOf, Small
  <2> HIDE DEF j
  <2>4. Concluded(c, j, Full(H, k))
    BY <2>1, <2>2, <1>1, ConcludeType DEF Base
  <2>5. /\ \A d \in Call \ {c} : pc'[d] = pc[d] /\ call'[d] = call[d]
        /\ pc'[c] \in {"idle", "refused", "verify"} /\ (j.phase = "hit" => pc'[c] \notin Busy)
    BY <2>4 DEF Concluded, Busy
  <2>6. j.phase = "hit" /\ ~Full(H, k) => EarnedNext(HitOfJob(j), k)
    <3> SUFFICES ASSUME j.phase = "hit", ~Full(H, k) PROVE EarnedNext(HitOfJob(j), k)
      OBVIOUS
    <3>1. \A r \in Store, x \in Key :
            granted'[r][x] = IF r = Redis /\ x = j.key /\ j.phase = "hit" /\ ~Full(H, k)
                               THEN granted[r][x] \cup {[n |-> j.n, at |-> j.now]} ELSE granted[r][x]
      <4>1. /\ LTypeInv /\ j \in Jobs /\ Called(j) /\ Redis \in Store
            /\ Conclude(c, j, Full(H, k), Redis)
        BY <2>1, <2>2, <1>1 DEF Base
      <4> HIDE DEF H, k
      <4>2. QED BY <4>1, GrantedBy
    <3>2. granted'[Redis][k] = granted[Redis][k] \cup {HitOfJob(j)}
      BY <3>1, <2>2, <1>1 DEF HitOfJob
    <3>3. HitOfJob(j) \in granted'[Redis][k]
      BY <3>2
    <3>4. HitOfJob(j).at >= HitOfJob(j).at
      BY <2>2, <1>1 DEF HitOfJob, Jobs
    <3>5. QED BY <3>3, <3>4, <1>1 DEF EarnedNext
  <2>7. \A x \in Key : StoredNext(x)
    BY <2>1, <2>2, <2>5, <2>6, SetStores DEF j
  <2>8. CopyNext(c) /\ RefusedNext(c)
    <3>1. CASE pc'[c] = "refused"
      <4>1. Full(H, k) /\ call'[c] = [Quiet EXCEPT !.key = k, !.now = j.now]
        BY <2>4, <3>1 DEF Concluded
      <4>2. call'[c].key = k /\ call'[c].now = j.now
        BY <4>1 DEF Quiet
      <4>3. k \notin torn' => ShownNext(H, k, j.now)
        BY <2>1, <2>3, <4>1 DEF ShownNext, Full
      <4>4. QED BY <3>1, <4>2, <4>3, <2>3 DEF RefusedNext, CopyNext
    <3>2. CASE pc'[c] # "refused"
      BY <3>2, <2>5 DEF RefusedNext, CopyNext
    <3>3. QED BY <3>1, <3>2
  <2>9. \A d \in Call \ {c} : CopyNext(d) /\ RefusedNext(d)
    BY <2>1, <2>5, OthersStay
  <2>10. QED BY <2>7, <2>8, <2>9 DEF EarnedWell
<1>9. ASSUME NEW c \in Call, Connect(c) \/ LoggedIn(c) \/ Cancel(c)
      PROVE  EarnedWell
  BY <1>1, <1>2, <1>9 DEF Connect, LoggedIn, Cancel, Lingers
<1>14. ASSUME NEW c \in Call, SetLate(c)
      PROVE  EarnedWell
  <2> DEFINE j == call[c]
  <2>1. /\ pc[c] = "sent" /\ pc'[c] = "idle" /\ redis' \in {redis, Saved(c)} /\ arrived' = arrived
        /\ torn' = IF redis' # redis /\ j.phase = "hit" THEN torn \cup {j.key} ELSE torn
        /\ \A d \in Call \ {c} : pc'[d] = pc[d] /\ call'[d] = call[d]
    BY <1>1, <1>14 DEF SetLate
  <2>2. torn \subseteq torn' /\ Own(c, j) /\ pc'[c] \notin Busy
    BY <2>1 DEF Own, Busy
  <2>3. \A d \in Call : CopyNext(d) /\ RefusedNext(d)
    <3>1. CopyNext(c) /\ RefusedNext(c)
      BY <2>1 DEF CopyNext, RefusedNext
    <3>2. \A d \in Call \ {c} : CopyNext(d) /\ RefusedNext(d)
      BY <2>1, <2>2, OthersStay
    <3>3. QED BY <3>1, <3>2
  <2>4. CASE redis' = redis
    BY <2>2, <2>3, <2>4, StoredStays DEF EarnedWell
  <2>5. CASE redis' = Saved(c)
    <3>1. redis' # redis /\ j.phase = "hit" => j.key \in torn'
      BY <2>1
    <3>2. \A k \in Key : StoredNext(k)
      BY <2>1, <2>2, <2>5, <3>1, SetStores
    <3>3. QED BY <2>3, <3>2 DEF EarnedWell
  <2>6. QED BY <2>1, <2>4, <2>5
<1>10. ASSUME NEW c \in Call, Get(c)
       PROVE  EarnedWell
  <2> DEFINE k == call[c].key
             now == call[c].now
             seen == Recent(Stored(k), k, now)
  <2>1. /\ pc[c] = "get" /\ pc' = [pc EXCEPT ![c] = "set"] /\ call' = [call EXCEPT ![c].seen = seen]
        /\ UNCHANGED <<redis, torn>>
    BY <1>10 DEF Get
  <2>2. k \in Key /\ now \in Int
    BY <2>1, <1>1 DEF Busy, Called, Jobs
  <2>3. \A x \in Key : StoredNext(x)
    BY <2>1, StoredStays
  <2>4. /\ seen \in SUBSET redis[k].hits /\ AccountNext(redis[k].hits)
        /\ k \notin torn' => \A h \in seen : EarnedNext(h, k)
    BY <2>1, <2>2, <2>3 DEF Stored, Recent, StoredNext
  <2>5. AccountNext(seen)
    BY <2>4 DEF AccountNext, FreshNext, Distinct
  <2>6. \A h \in seen : now < h.at + Window[k]
    <3>1. \A h \in seen : h.at \in Int /\ h.at > now - Window[k]
      BY <2>5 DEF Recent, AccountNext, Hit
    <3>2. QED BY <3>1, <2>2, LimitType
  <2> HIDE DEF seen
  <2>7. /\ pc'[c] = "set" /\ call'[c].key = k /\ call'[c].seen = seen /\ call'[c].now = now
        /\ \A d \in Call \ {c} : pc'[d] = pc[d] /\ call'[d] = call[d]
    BY <2>1, <1>1 DEF Jobs
  <2> HIDE DEF k, now
  <2>8. CopyNext(c) /\ RefusedNext(c)
    BY <2>4, <2>5, <2>6, <2>7 DEF CopyNext, RefusedNext
  <2>9. \A d \in Call \ {c} : CopyNext(d) /\ RefusedNext(d)
    BY <2>1, <2>7, OthersStay
  <2>10. QED BY <2>3, <2>8, <2>9 DEF EarnedWell
<1>11. CASE Tick \/ UNCHANGED vars
  BY <1>2, <1>11 DEF Tick, vars, Lingers
<1>12. ASSUME NEW w \in Worker, Restart(w)
       PROVE  EarnedWell
  BY <1>2, <1>12 DEF Restart, Lingers
<1>13. QED
  BY <1>4, <1>5, <1>6, <1>7, <1>8, <1>9, <1>10, <1>11, <1>12, <1>14 DEF Next

LEMMA AccountStep == Base /\ WorkerWindows /\ RedisWindows /\ Accounted /\ [Next]_vars => Accounted'
<1> SUFFICES ASSUME Base, WorkerWindows, RedisWindows, Accounted, [Next]_vars PROVE Accounted'
  OBVIOUS
<1>1. Numbered' /\ InMemoryEarned'
  BY NumberStep, InMemoryStep DEF Accounted
<1>2. \A k \in Key : StoredEarned(k)'
  BY EarnedStep, StoredIsNext DEF EarnedWell
<1>3. \A c \in Call : CopyEarned(c)' /\ Refused(c)'
  BY EarnedStep, CopyIsNext, RefusedIsNext DEF EarnedWell
<1>4. QED BY <1>1, <1>2, <1>3 DEF Accounted

\* Nobody is refused (utils/ratelimit.py) unless as many requests for the key as the limit were
\* let pass within the window before: refused requests, failed checks and hits that expired or
\* were evicted do not count, so a blocked caller does not extend its own window.
THEOREM RefusalsEarned == Spec => []RefusalsAreEarned
<1>1. Base /\ Accounted => RefusalsAreEarned
  <2> SUFFICES ASSUME Base, Accounted, NEW c \in Call, pc[c] = "refused", call[c].key \notin torn
               PROVE  LET k == call[c].key IN
                        Cardinality(UNION {{h.n : h \in Within(granted[s][k], k, call[c].now)} : s \in Store})
                          >= Limit[k]
    BY DEF RefusalsAreEarned
  <2> DEFINE k == call[c].key
             now == call[c].now
             N == UNION {{h.n : h \in Within(granted[s][k], k, now)} : s \in Store}
  <2>1. /\ k \in Key /\ now \in Int /\ MaxCalls \in Nat
        /\ granted \in [Store -> [Key -> SUBSET Hit]]
    BY LimiterConstants DEF Base, LTypeInv, ThrottleTypeOK, Handled
  <2>2. PICK H \in SUBSET Hit : Shown(H, k, now)
    BY DEF Accounted, Refused
  <2>3. IsFiniteSet(1 .. MaxCalls)
    BY <2>1, FS_Interval
  <2>4. N \in SUBSET (1 .. MaxCalls)
    BY <2>1 DEF Within, Hit
  <2>5. IsFiniteSet(N)
    BY <2>3, <2>4, FS_Subset
  <2>6. ASSUME NEW h \in H
        PROVE  h.n \in N
    <3>1. PICK s \in Store : \E g \in granted[s][k] : g.n = h.n /\ g.at >= h.at
      BY <2>2 DEF Shown, Earned
    <3>2. PICK g \in granted[s][k] : g.n = h.n /\ g.at >= h.at
      BY <3>1
    <3>3. now < h.at + Window[k] /\ g.at \in Int /\ h.at \in Int
      BY <2>1, <2>2, <3>2 DEF Shown, Hit
    <3>4. g \in Within(granted[s][k], k, now)
      BY <2>1, <3>2, <3>3, LimitType DEF Within
    <3>5. QED BY <3>2, <3>4
  <2> HIDE DEF N
  <2> DEFINE f == [h \in H |-> h.n]
  <2>7. f \in Injection(H, N)
    BY <2>2, <2>6 DEF Injection, IsInjective, Shown, Distinct
  <2>8. Cardinality(H) <= Cardinality(N)
    BY <2>5, <2>7, FS_Injection
  <2>9. Cardinality(H) \in Nat /\ Cardinality(N) \in Nat /\ Cardinality(H) >= Limit[k] /\ Limit[k] \in Nat
    BY <2>1, <2>2, <2>5, FS_CardinalityType, LimitType DEF Shown
  <2>10. Cardinality(N) >= Limit[k]
    BY <2>8, <2>9
  <2>11. QED BY <2>10 DEF N
<1>2. Spec => [](Base /\ WorkerWindows /\ RedisWindows /\ Accounted)
  BY BaseInit, BaseStep, WorkerInit, WorkerStep, RedisInit, RedisStep, AccountInit, AccountStep, PTL DEF Spec
<1>3. QED BY <1>1, <1>2, PTL

-----------------------------------------------------------------------------
(* Guessed passwords *)

\* No login has failed at first.
LEMMA GuessInit == Init => Guesses
<1> SUFFICES ASSUME Init, NEW w \in Worker, NEW k \in Login PROVE Guessed(w, k)
  BY DEF Guesses
<1>1. failed[w][k] = {} /\ \A c \in Call : pc[c] = "idle"
  BY LimiterConstants DEF Init
<1>2. Within({}, k, clock) = {}
  BY DEF Within
<1>3. QED BY <1>1, <1>2 DEF Guessed

\* Steps that count no failure, and leave what is recent in the window.
LEMMA GuessFrame ==
  ASSUME Base, NEW w \in Worker, NEW k \in Key, Guessed(w, k), Small(memory[w][k], k),
         IsFiniteSet(memory'[w][k]), clock' \in Int, clock <= clock',
         failed'[w][k] = failed[w][k], round'[w][k] = round[w][k],
         Recent(memory'[w][k], k, clock') = Recent(memory[w][k], k, clock'),
         \A c \in Call : pc'[c] = "verify" /\ call'[c].worker = w /\ call'[c].key = k =>
           (pc[c] = "verify" /\ call[c].worker = w /\ call[c].key = k) \/ ~Full(Seen(w, k), k)
  PROVE  Guessed(w, k)'
<1> DEFINE F == failed[w][k]
           M == memory[w][k]
           N == memory'[w][k]
           r == round[w][k]
<1>1. /\ clock \in Int /\ M \subseteq Hit /\ F \subseteq Guess /\ r \in Int /\ Window[k] \in Int
      /\ IsFiniteSet(M) /\ Limit[k] \in Int /\ Recent(M, k, clock) = Seen(w, k)
  BY LimitType DEF Base, LTypeInv, ThrottleTypeOK, Small, Seen
<1>2. Full(Recent(N, k, clock'), k) => Full(Seen(w, k), k)
  <2>1. Recent(M, k, clock') \in SUBSET Seen(w, k) /\ Seen(w, k) \in SUBSET M
    BY <1>1, RecentLater DEF Seen, Recent
  <2>2. /\ IsFiniteSet(Seen(w, k)) /\ IsFiniteSet(Recent(M, k, clock'))
        /\ Cardinality(Recent(M, k, clock')) <= Cardinality(Seen(w, k))
    BY <2>1, <1>1, FS_Subset
  <2>3. Cardinality(Seen(w, k)) \in Nat /\ Cardinality(Recent(M, k, clock')) \in Nat
    BY <2>2, FS_CardinalityType
  <2>4. QED BY <2>2, <2>3, <1>1 DEF Full
<1>3. \A f \in F : f.round <= r /\ f.at <= clock'
  BY <1>1 DEF Guessed, Guess
<1>4. \A f, g \in F : f.round = g.round /\ f.slot = g.slot => f = g
  BY DEF Guessed
<1>5. ASSUME NEW c \in Call, pc'[c] = "verify", call'[c].worker = w, call'[c].key = k,
             Full(Recent(N, k, clock'), k), NEW f \in F, f.slot = c
      PROVE  f.round # r
  BY <1>1, <1>2, <1>5 DEF Guessed
<1>6. ASSUME NEW g \in Within(F, k, clock')
      PROVE  r - g.round <= Cardinality({h \in N : h.at >= g.at})
  <2> DEFINE A == {h \in M : h.at >= g.at}
             B == {h \in N : h.at >= g.at}
  <2>1. g \in Within(F, k, clock) /\ g.at \in Int /\ g.round \in Int /\ g.at > clock' - Window[k]
    BY <1>1 DEF Within, Guess
  <2>2. A \in SUBSET B
    <3> SUFFICES ASSUME NEW h \in M, h.at >= g.at PROVE h \in N
      OBVIOUS
    <3>1. h \in Recent(M, k, clock')
      BY <1>1, <2>1 DEF Recent, Hit
    <3>2. QED BY <3>1 DEF Recent
  <2>3. IsFiniteSet(A) /\ IsFiniteSet(B) /\ A \in SUBSET M /\ B \in SUBSET N
    BY <1>1, FS_Subset
  <2>4. Cardinality(A) <= Cardinality(B) /\ Cardinality(A) \in Nat /\ Cardinality(B) \in Nat
    BY <2>2, <2>3, FS_Subset, FS_CardinalityType
  <2>5. r - g.round <= Cardinality(A)
    BY <2>1 DEF Guessed
  <2>6. QED BY <2>1, <2>4, <2>5, <1>1
<1>7. QED BY <1>3, <1>4, <1>5, <1>6 DEF Guessed

\* A failed login takes a new round, or none where the window is full.
LEMMA GuessCounts ==
  ASSUME Base, WorkerWindows, Accounted, NEW c \in Call, NEW w \in Worker, NEW k \in Key,
         pc[c] = "verify", call[c].worker = w, call[c].key = k, Guessed(w, k), clock' = clock,
         NEW r, r = IF Full(Seen(w, k), k) THEN round[w][k] ELSE round[w][k] + 1,
         NEW f, f = [n |-> call[c].n, at |-> clock, slot |-> c, round |-> r],
         NEW l, l.n = call[c].n,
         round'[w][k] = r, failed'[w][k] = failed[w][k] \cup {f},
         memory'[w][k] = Added(Seen(w, k), k, "hit", HitOf(l)),
         pc'[c] # "verify", \A d \in Call \ {c} : pc'[d] = pc[d] /\ call'[d] = call[d]
  PROVE  Guessed(w, k)'
<1> DEFINE F == failed[w][k]
           M == memory[w][k]
           N == memory'[w][k]
           R == Seen(w, k)
           old == round[w][k]
           new == HitOf(l)
<1>1. /\ clock \in Int /\ M \subseteq Hit /\ F \subseteq Guess /\ old \in Int
      /\ Window[k] \in Int /\ Window[k] >= 1 /\ Limit[k] \in Int
      /\ IsFiniteSet(M) /\ R \in SUBSET M /\ R = Recent(M, k, clock)
  <2>1. clock \in Int /\ M \subseteq Hit /\ F \subseteq Guess /\ old \in Int
    BY DEF Base, LTypeInv, ThrottleTypeOK
  <2>2. IsFiniteSet(M) /\ R = Recent(M, k, clock)
    BY DEF WorkerWindows, Small, Seen
  <2>3. QED BY <2>1, <2>2, LimitType DEF Recent
<1>2. /\ f.at = clock /\ f.slot = c /\ f.round = r /\ new.at = clock
      /\ r \in Int /\ old <= r
  BY <1>1 DEF HitOf
<1>3. new \notin M
  <2>1. AccountOf(M) /\ pc[c] \in Busy
    BY DEF Accounted, InMemoryEarned, Busy
  <2>2. QED BY <2>1 DEF AccountOf, Fresh, HitOf
<1>4. /\ Full(R, k) => N = R /\ r = old
      /\ ~Full(R, k) => N = R \cup {new} /\ r = old + 1
  BY DEF Added
<1>5. IsFiniteSet(R) /\ IsFiniteSet(N)
  <2>1. IsFiniteSet(R)
    BY <1>1, FS_Subset
  <2>2. QED BY <2>1, <1>4, FS_AddElement
<1> HIDE DEF F, M, N, R, old, new
<1>6. failed'[w][k] = F \cup {f} /\ round'[w][k] = r /\ memory'[w][k] = N
  BY DEF F, N
<1>7. /\ \A g \in F : g.round <= old /\ g.at <= clock
      /\ \A g, h \in F : g.round = h.round /\ g.slot = h.slot => g = h
      /\ \A d \in Call, g \in F :
           /\ pc[d] = "verify" /\ call[d].worker = w /\ call[d].key = k /\ g.slot = d
           /\ Full(R, k)
           => g.round # old
      /\ \A g \in Within(F, k, clock) : old - g.round <= Cardinality({h \in M : h.at >= g.at})
  BY <1>1 DEF Guessed, F, M, old
<1>8. \A g \in F \cup {f} : g.round <= r /\ g.at <= clock
  BY <1>1, <1>2, <1>7 DEF Guess
<1>9. ASSUME NEW g \in F, g.slot = c
      PROVE  g.round # r
  <2>1. CASE Full(R, k)
    BY <2>1, <1>4, <1>7, <1>9
  <2>2. CASE ~Full(R, k)
    BY <2>2, <1>1, <1>4, <1>7 DEF Guess
  <2>3. QED BY <2>1, <2>2
<1>10. \A g, h \in F \cup {f} : g.round = h.round /\ g.slot = h.slot => g = h
  BY <1>2, <1>7, <1>9
<1>11. ASSUME NEW d \in Call, pc'[d] = "verify", call'[d].worker = w, call'[d].key = k,
              Full(Recent(N, k, clock), k), NEW g \in F \cup {f}, g.slot = d
       PROVE  g.round # r
  <2>1. d # c /\ pc[d] = "verify" /\ call[d].worker = w /\ call[d].key = k /\ g \in F
    BY <1>2, <1>11
  <2>2. CASE Full(R, k)
    BY <2>1, <2>2, <1>4, <1>7, <1>11
  <2>3. CASE ~Full(R, k)
    BY <2>1, <2>3, <1>1, <1>4, <1>7 DEF Guess
  <2>4. QED BY <2>2, <2>3
<1>12. ASSUME NEW g \in Within(F \cup {f}, k, clock)
       PROVE  r - g.round <= Cardinality({h \in N : h.at >= g.at})
  <2> DEFINE A == {h \in M : h.at >= g.at}
             B == {h \in N : h.at >= g.at}
  <2>1. IsFiniteSet(A) /\ IsFiniteSet(B) /\ Cardinality(A) \in Nat /\ Cardinality(B) \in Nat
    <3>1. A \in SUBSET M /\ B \in SUBSET N
      OBVIOUS
    <3>2. QED BY <3>1, <1>1, <1>5, FS_Subset, FS_CardinalityType
  <2>2. CASE g = f
    BY <2>1, <2>2, <1>2
  <2>3. CASE g # f
    <3>1. g \in Within(F, k, clock) /\ g \in F /\ g.at \in Int /\ g.round \in Int
          /\ g.at > clock - Window[k] /\ g.at <= clock
      BY <2>3, <1>1, <1>7 DEF Within, Guess
    <3>2. old - g.round <= Cardinality(A)
      BY <3>1, <1>7
    <3>3. A = {h \in R : h.at >= g.at}
      BY <3>1, <1>1 DEF Recent, Hit
    <3>4. CASE Full(R, k)
      BY <3>2, <3>3, <3>4, <1>4
    <3>5. CASE ~Full(R, k)
      <4>1. B = A \cup {new} /\ new \notin A
        BY <3>1, <3>3, <3>5, <1>2, <1>3, <1>4
      <4>2. Cardinality(B) = Cardinality(A) + 1
        BY <4>1, <2>1, FS_AddElement
      <4>3. QED BY <4>2, <3>1, <3>2, <3>5, <2>1, <1>1, <1>4
    <3>6. QED BY <3>4, <3>5
  <2>4. QED BY <2>2, <2>3
<1>13. QED
  <2>1. \A g \in failed'[w][k] : g.round <= round'[w][k] /\ g.at <= clock'
    BY <1>6, <1>8
  <2>2. \A g, h \in failed'[w][k] : g.round = h.round /\ g.slot = h.slot => g = h
    BY <1>6, <1>10
  <2>3. \A d \in Call, g \in failed'[w][k] :
          /\ pc'[d] = "verify" /\ call'[d].worker = w /\ call'[d].key = k /\ g.slot = d
          /\ Full(Recent(memory'[w][k], k, clock'), k)
          => g.round # round'[w][k]
    BY <1>6, <1>11
  <2>4. \A g \in Within(failed'[w][k], k, clock') :
          round'[w][k] - g.round <= Cardinality({h \in memory'[w][k] : h.at >= g.at})
    BY <1>6, <1>12
  <2>5. QED BY <2>1, <2>2, <2>3, <2>4 DEF Guessed

\* Every step keeps the guesses of a worker's window in rounds.
LEMMA GuessStep == Base /\ WorkerWindows /\ Accounted /\ Guesses /\ [Next]_vars => Guesses'
<1> SUFFICES ASSUME Base, WorkerWindows, Accounted, Guesses, [Next]_vars, ~shared',
                    NEW w \in Worker, NEW k \in Login, <<w, k>> \notin loose'
             PROVE  Guessed(w, k)'
  BY DEF Guesses
<1>1. shared' = shared
  BY DEF Next, vars, Arrive, Connect, ConnectFails, Get, GetFails, Set, SetFails, LoggedIn, LoginFails,
         Cancel, SetLate, Restart, Tick
<1>2. \A c \in Call : pc[c] \notin {"connect", "get", "set", "sent"}
  BY <1>1 DEF Base, LTypeInv, Handled
<1>3. /\ clock \in Int /\ k \in Key /\ memory \in [Worker -> [Key -> SUBSET Hit]] /\ call \in [Call -> Jobs]
      /\ pc \in [Call -> {"idle", "refused", "connect", "get", "set", "sent", "verify"}]
      /\ failed \in [Worker -> [Key -> SUBSET Guess]] /\ round \in [Worker -> [Key -> Nat]]
  BY LimiterConstants DEF Base, LTypeInv, ThrottleTypeOK, Jobs
<1>4. Small(memory[w][k], k) /\ IsFiniteSet(memory'[w][k])
  BY <1>3, WorkerStep DEF WorkerWindows, Small
<1>5. <<w, k>> \notin loose => Guessed(w, k)
  BY <1>1 DEF Guesses
\* A window that is kept, or dropped when nothing in it is recent.
<1>6. ASSUME <<w, k>> \notin loose, KeptOrDropped(w, k), clock' = clock,
             failed'[w][k] = failed[w][k], round'[w][k] = round[w][k],
             \A c \in Call : pc'[c] = "verify" /\ call'[c].worker = w /\ call'[c].key = k =>
               pc[c] = "verify" /\ call[c].worker = w /\ call[c].key = k
      PROVE  Guessed(w, k)'
  <2>1. Recent(memory'[w][k], k, clock') = Recent(memory[w][k], k, clock')
    <3>1. CASE memory'[w][k] = memory[w][k]
      BY <3>1
    <3>2. CASE memory'[w][k] = {} /\ Seen(w, k) = {}
      BY <3>2, <1>6 DEF Seen, Recent
    <3>3. QED BY <3>1, <3>2, <1>6 DEF KeptOrDropped
  <2>2. Guessed(w, k) /\ clock' \in Int /\ clock <= clock'
    BY <1>3, <1>5, <1>6
  <2>3. QED BY <2>1, <2>2, <1>3, <1>4, <1>6, GuessFrame
<1>7. ASSUME NEW c \in Call, NEW u \in Worker, NEW x \in Key, Arrive(c, u, x)
      PROVE  Guessed(w, k)'
  <2> DEFINE l == NewCall(u, x)
             H == Seen(l.worker, l.key)
  <2>1. /\ l \in Jobs /\ Called(l) /\ Enter(c, l) /\ l.worker = u /\ l.key = x
        /\ l.phase = (IF x \in Login THEN "check" ELSE "hit")
        /\ UNCHANGED <<clock, failed, round>>
    BY <1>7, Arriving
  <2> HIDE DEF l
  <2>2. InMemory(c, l)
    BY <1>1, <2>1, Entering
  <2>3. /\ \A v \in Worker, y \in Key : v # l.worker \/ y # l.key => KeptOrDropped(v, y)
        /\ memory'[l.worker][l.key] = Added(H, l.key, l.phase, HitOf(l))
        /\ loose \subseteq loose'
        /\ Concluded(c, [l EXCEPT !.now = clock], Full(H, l.key))
    BY <2>1, <2>2, MemoryOutcome
  <2>4. <<w, k>> \notin loose /\ Guessed(w, k)
    BY <2>3, <1>5
  <2>5. /\ \A d \in Call \ {c} : pc'[d] = pc[d] /\ call'[d] = call[d]
        /\ pc'[c] = "verify" => call'[c].worker = u /\ call'[c].key = x /\ ~Full(H, x)
    BY <2>1, <2>3 DEF Concluded, Jobs
  <2>6. CASE w = u /\ k = x
    <3>1. memory'[w][k] = Seen(w, k) /\ H = Seen(w, k)
      BY <2>1, <2>3, <2>6 DEF Added
    <3> HIDE DEF H
    <3>2. Recent(memory'[w][k], k, clock') = Recent(memory[w][k], k, clock')
      BY <2>1, <3>1, RecentRecent DEF Seen
    <3>3. \A d \in Call : pc'[d] = "verify" /\ call'[d].worker = w /\ call'[d].key = k =>
            (pc[d] = "verify" /\ call[d].worker = w /\ call[d].key = k) \/ ~Full(Seen(w, k), k)
      BY <2>5, <2>6, <3>1
    <3>4. clock' \in Int /\ clock <= clock' /\ failed'[w][k] = failed[w][k] /\ round'[w][k] = round[w][k]
      BY <2>1, <1>3
    <3>5. QED BY <2>4, <3>2, <3>3, <3>4, <1>3, <1>4, GuessFrame
  <2>7. CASE ~(w = u /\ k = x)
    <3>1. KeptOrDropped(w, k)
      BY <2>1, <2>3, <2>7, <1>3
    <3>2. \A d \in Call : pc'[d] = "verify" /\ call'[d].worker = w /\ call'[d].key = k =>
            pc[d] = "verify" /\ call[d].worker = w /\ call[d].key = k
      BY <2>5, <2>7
    <3>3. QED BY <2>1, <2>4, <3>1, <3>2, <1>6
  <2>8. QED BY <2>6, <2>7
<1>8. ASSUME NEW c \in Call, LoginFails(c)
      PROVE  Guessed(w, k)'
  <2> DEFINE l == [call[c] EXCEPT !.phase = "hit"]
             H == Seen(l.worker, l.key)
             u == call[c].worker
             x == call[c].key
             r == IF Full(Recent(memory[u][x], x, clock), x) THEN round[u][x] ELSE round[u][x] + 1
             f == [n |-> call[c].n, at |-> clock, slot |-> c, round |-> r]
  <2>1. /\ l \in Jobs /\ Called(l) /\ Enter(c, l) /\ l.worker = u /\ l.key = x /\ l.n = call[c].n
        /\ l.phase = "hit" /\ pc[c] = "verify" /\ clock' = clock /\ u \in Worker /\ x \in Key
    BY <1>8, LoginFailing DEF Called
  <2>2. round' = [round EXCEPT ![u][x] = r] /\ failed' = [failed EXCEPT ![u][x] = @ \cup {f}]
    BY <1>1, <1>8, GuessTyped
  <2> HIDE DEF l, r, f
  <2>3. InMemory(c, l)
    BY <1>1, <2>1, Entering
  <2>4. /\ \A v \in Worker, y \in Key : v # l.worker \/ y # l.key => KeptOrDropped(v, y)
        /\ memory'[l.worker][l.key] = Added(H, l.key, l.phase, HitOf(l))
        /\ loose \subseteq loose'
        /\ Concluded(c, [l EXCEPT !.now = clock], Full(H, l.key))
    BY <2>1, <2>3, MemoryOutcome
  <2>5. <<w, k>> \notin loose /\ Guessed(w, k)
    BY <2>4, <1>5
  <2>6. /\ \A d \in Call \ {c} : pc'[d] = pc[d] /\ call'[d] = call[d]
        /\ pc'[c] # "verify"
    BY <2>1, <2>4 DEF Concluded, Jobs
  <2>7. CASE w = u /\ k = x
    <3>1. round'[w][k] = r /\ failed'[w][k] = failed[w][k] \cup {f}
      BY <2>1, <2>2, <2>7, <1>3
    <3>2. memory'[w][k] = Added(Seen(w, k), k, "hit", HitOf(l))
      BY <2>1, <2>4, <2>7
    <3>3. /\ r = IF Full(Seen(w, k), k) THEN round[w][k] ELSE round[w][k] + 1
          /\ f = [n |-> call[c].n, at |-> clock, slot |-> c, round |-> r]
      BY <2>7 DEF r, f, Seen
    <3>4. call[c].worker = w /\ call[c].key = k
      BY <2>7
    <3>5. /\ k \in Key /\ pc[c] = "verify" /\ Guessed(w, k) /\ clock' = clock /\ l.n = call[c].n
          /\ pc'[c] # "verify" /\ \A d \in Call \ {c} : pc'[d] = pc[d] /\ call'[d] = call[d]
      BY <2>1, <2>5, <2>6, <1>3
    <3> HIDE DEF u, x, H
    <3>6. QED BY <3>1, <3>2, <3>3, <3>4, <3>5, GuessCounts
  <2>8. CASE ~(w = u /\ k = x)
    <3>1. KeptOrDropped(w, k) /\ failed'[w][k] = failed[w][k] /\ round'[w][k] = round[w][k]
      BY <2>1, <2>2, <2>4, <2>8, <1>3
    <3>2. \A d \in Call : pc'[d] = "verify" /\ call'[d].worker = w /\ call'[d].key = k =>
            pc[d] = "verify" /\ call[d].worker = w /\ call[d].key = k
      BY <2>6
    <3>3. QED BY <2>1, <2>5, <3>1, <3>2, <1>6
  <2>9. QED BY <2>7, <2>8
<1>9. ASSUME NEW c \in Call, LoggedIn(c) \/ Cancel(c)
      PROVE  Guessed(w, k)'
  <2>1. /\ UNCHANGED <<clock, memory, failed, round, loose>>
        /\ \A d \in Call : pc'[d] = "verify" => pc[d] = "verify" /\ call'[d] = call[d]
    BY <1>3, <1>9 DEF LoggedIn, Cancel
  <2>2. KeptOrDropped(w, k)
    BY <2>1 DEF KeptOrDropped
  <2>3. QED BY <2>1, <2>2, <1>6
<1>10. CASE Tick
  <2>1. clock' = clock + 1 /\ UNCHANGED <<memory, pc, call, failed, round, loose>>
    BY <1>10 DEF Tick
  <2>2. clock' \in Int /\ clock <= clock' /\ Guessed(w, k)
    BY <2>1, <1>3, <1>5
  <2>3. QED BY <2>1, <2>2, <1>3, <1>4, GuessFrame
<1>11. ASSUME NEW v \in Worker, Restart(v)
       PROVE  Guessed(w, k)'
  <2>1. /\ UNCHANGED <<clock, failed, round>> /\ loose \subseteq loose'
        /\ memory' = [memory EXCEPT ![v] = [y \in Key |-> {}]]
        /\ \A y \in Key : Seen(v, y) # {} => <<v, y>> \in loose'
        /\ \A d \in Call : pc'[d] = "verify" => pc[d] = "verify" /\ call'[d] = call[d]
    BY <1>11 DEF Restart, Seen
  <2>2. KeptOrDropped(w, k)
    BY <2>1, <1>3 DEF KeptOrDropped
  <2>3. QED BY <2>1, <2>2, <1>6
<1>12. CASE UNCHANGED vars
  <2>1. UNCHANGED <<clock, memory, pc, call, failed, round, loose>>
    BY <1>12 DEF vars
  <2>2. KeptOrDropped(w, k)
    BY <2>1 DEF KeptOrDropped
  <2>3. QED BY <2>1, <2>2, <1>6
<1>13. QED
  BY <1>2, <1>7, <1>8, <1>9, <1>10, <1>11, <1>12
     DEF Next, Connect, ConnectFails, Get, GetFails, Set, SetFails, SetLate

\* Without Redis the wrong passwords tried for a name at a worker are bounded within any window
\* that was not evicted or lost, however its logins overlap between the check and the count of
\* the failure: they fall into rounds, one more than the limit at most, and a handler tries one
\* password in a round (authorize.py, rate_limit_check, rate_limit_exceeded).
THEOREM GuessesAreBounded == Spec => []GuessesBounded
<1>1. Base /\ WorkerWindows /\ Guesses => GuessesBounded
  <2> SUFFICES ASSUME Base, WorkerWindows, Guesses, ~shared, NEW w \in Worker, NEW k \in Login,
                      <<w, k>> \notin loose,
                      NEW f \in Within(failed[w][k], k, clock), NEW g \in Within(failed[w][k], k, clock)
               PROVE  /\ f.round = g.round /\ f.slot = g.slot => f = g
                      /\ f.round - g.round <= Limit[k]
    BY DEF GuessesBounded
  <2>1. /\ failed[w][k] \subseteq Guess /\ k \in Key /\ round[w][k] \in Int
        /\ f \in failed[w][k] /\ g \in failed[w][k]
    BY LimiterConstants DEF Base, LTypeInv, ThrottleTypeOK, Within
  <2>2. Guessed(w, k) /\ Small(memory[w][k], k)
    BY <2>1 DEF Guesses, WorkerWindows
  <2>3. f.round = g.round /\ f.slot = g.slot => f = g
    BY <2>1, <2>2 DEF Guessed
  <2> DEFINE A == {h \in memory[w][k] : h.at >= g.at}
  <2>4. Small(A, k) /\ Cardinality(A) \in Nat
    <3>1. A \in SUBSET memory[w][k]
      OBVIOUS
    <3>2. Small(A, k)
      BY <2>1, <2>2, <3>1, SmallSubset
    <3>3. QED BY <3>2, FS_CardinalityType DEF Small
  <2>5. f.round <= round[w][k] /\ round[w][k] - g.round <= Cardinality(A)
    BY <2>1, <2>2 DEF Guessed
  <2>6. f.round - g.round <= Limit[k]
    BY <2>1, <2>4, <2>5, LimitType DEF Small, Guess
  <2>7. QED BY <2>3, <2>6
<1>2. Spec => [](Base /\ WorkerWindows /\ RedisWindows /\ Accounted /\ Guesses)
  BY BaseInit, BaseStep, WorkerInit, WorkerStep, RedisInit, RedisStep, AccountInit, AccountStep,
     GuessInit, GuessStep, PTL DEF Spec
<1>3. QED BY <1>1, <1>2, PTL

=============================================================================
