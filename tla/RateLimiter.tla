----------------------------- MODULE RateLimiter -----------------------------
(***************************************************************************)
(* utils/ratelimit.py as the endpoints of several workers use it: sliding  *)
(* windows of hits per key, in a worker's memory or, where it is           *)
(* configured, in Redis for all workers.                                   *)
(*                                                                         *)
(* The in-memory functions do not await anything: they are one step of the *)
(* handler that calls them.  With Redis a handler awaits the connection,   *)
(* the GET and the SET, and any other handler may run in between.          *)
(***************************************************************************)
EXTENDS Integers, Sequences, FiniteSets

CONSTANTS Worker, Call,   \* server processes; slots for concurrent requests
          Key,            \* "oauth-<endpoint>:<peer>", with the user name for a login
          Login,          \* the keys of logins: only failures are counted
          Limit, Window,  \* the settings for each key, in force (a limit of 0 is none)
          MaxTracked,     \* _MAX_TRACKED_KEYS
          Redis,          \* the shared store, beside each worker's own
          MaxCalls, MaxClock   \* bounds on the number of requests and on the clock

Store == Worker \cup {Redis}
Hit   == [n : 1 .. MaxCalls, at : 0 .. MaxClock]   \* n tells hits at one time apart

\* A password that was wrong: tried by which handler, after how many that were counted.
Guess == [n : 1 .. MaxCalls, at : 0 .. MaxClock, slot : Call, round : Nat]

ASSUME LimiterConstants ==
  /\ Redis \notin Worker /\ IsFiniteSet(Call)
  /\ Login \subseteq Key
  /\ Limit \in [Key -> Nat \ {0}] /\ Window \in [Key -> Nat \ {0}]
  /\ MaxTracked \in Nat \ {0}
  /\ MaxCalls \in Nat /\ MaxClock \in Nat

VARIABLES clock,
          shared,       \* guillotina.contrib.redis is configured
          unavailable,  \* [Worker -> _redis_unavailable]
          tracked,      \* [Worker -> the keys of _windows, in insertion order]
          memory,       \* [Worker -> [Key -> the hits in its deque]]
          redis,        \* [Key -> the hits in Redis and when they expire]
          pc, call,     \* [Call -> where the handler is], [Call -> its local variables]
          arrived,      \* number of requests so far
          granted,      \* ghost: [Store -> [Key -> hits that were let pass]]
          failed,       \* ghost: [Worker -> [Key -> failed logins]], without Redis
          round,        \* ghost: [Worker -> [Key -> how many of them were counted]]
          loose,        \* ghost: the <<store, key>> whose window may have lost hits
          torn          \* ghost: keys with a hit in Redis that was not let pass

vars == <<clock, shared, unavailable, tracked, memory, redis, pc, call, arrived,
          granted, failed, round, loose, torn>>

Quiet == [n |-> 0, worker |-> Redis, key |-> Redis, phase |-> "hit", now |-> 0, seen |-> {}]

Init ==
  /\ clock = 0 /\ arrived = 0
  /\ shared \in BOOLEAN
  /\ unavailable = [w \in Worker |-> FALSE]
  /\ tracked = [w \in Worker |-> <<>>]
  /\ memory = [w \in Worker |-> [k \in Key |-> {}]]
  /\ redis = [k \in Key |-> [hits |-> {}, until |-> 0]]
  /\ pc = [c \in Call |-> "idle"] /\ call = [c \in Call |-> Quiet]
  /\ granted = [s \in Store |-> [k \in Key |-> {}]]
  /\ failed = [w \in Worker |-> [k \in Key |-> {}]]
  /\ round = [w \in Worker |-> [k \in Key |-> 0]]
  /\ loose = {} /\ torn = {}

-----------------------------------------------------------------------------
(* Windows *)

\* Faulty: a hit as old as the window still counts.
RecentClosed(H, k, now) == {h \in H : h.at >= now - Window[k]}

Recent(H, k, now) == {h \in H : h.at > now - Window[k]}

Full(H, k) == Cardinality(H) >= Limit[k]

\* What is written back: nothing new for a check or when the limit is reached.
AddedExpiry(H, k, phase, h) ==   \* faulty: the time the hit expires at is stored
  IF phase = "hit" /\ ~Full(H, k) THEN H \cup {[h EXCEPT !.at = @ + Window[k]]} ELSE H
Added(H, k, phase, h) == IF phase = "hit" /\ ~Full(H, k) THEN H \cup {h} ELSE H

\* The password of a login is verified when the check finds room.
PassesAlways(j, full) == j.phase = "check"   \* faulty: the answer of the check is not used
Passes(j, full)       == j.phase = "check" /\ ~full

\* A handler has the answer of rate_limit_check or rate_limit_exceeded in j's phase.  A
\* check that passes goes on to verify the password; a failed login is answered 401
\* whatever the limiter says of it.
Conclude(c, j, full, s) ==
  LET to == IF Passes(j, full) THEN "verify"
            ELSE IF full /\ (j.phase = "check" \/ j.key \notin Login) THEN "refused" ELSE "idle"
  IN
  /\ pc' = [pc EXCEPT ![c] = to]
  /\ call' = [call EXCEPT ![c] =
                 CASE to = "verify"  -> [j EXCEPT !.now = 0, !.seen = {}]
                   [] to = "refused" -> [Quiet EXCEPT !.key = j.key, !.now = j.now]
                   [] to = "idle"    -> Quiet]
  /\ granted' = IF j.phase = "hit" /\ ~full
                  THEN [granted EXCEPT ![s][j.key] = @ \cup {[n |-> j.n, at |-> j.now]}]
                  ELSE granted

-----------------------------------------------------------------------------
(* _memory_rate_limit_exceeded and _memory_rate_limit_check *)

Listed(t) == {t[i] : i \in DOMAIN t}

\* Faulty: the newest half is dropped.
PrunedNewest(t) == IF Len(t) <= MaxTracked THEN t ELSE SubSeq(t, 1, Len(t) - (Len(t) \div 2))

\* _prune_if_needed drops the half of the keys that was tracked first.
Pruned(t) == IF Len(t) <= MaxTracked THEN t ELSE SubSeq(t, (Len(t) \div 2) + 1, Len(t))

\* Faulty: pruned before the key is added.
TrackPruneFirst(t, j) ==
  IF j.phase = "check" \/ j.key \in Listed(t) THEN t ELSE Append(Pruned(t), j.key)

Track(t, j) == IF j.phase = "check" \/ j.key \in Listed(t) THEN t ELSE Pruned(Append(t, j.key))

InMemory(c, l) ==
  LET w    == l.worker
      k    == l.key
      j    == [l EXCEPT !.now = clock]
      kept == Track(tracked[w], j)
      seen == Recent(memory[w][k], k, clock)
      new  == Added(seen, k, j.phase, [n |-> j.n, at |-> clock])
  IN  /\ tracked' = [tracked EXCEPT ![w] = kept]
      /\ memory' = [memory EXCEPT ![w] =
                      [x \in Key |-> IF x \notin Listed(kept) THEN {}
                                     ELSE IF x = k THEN new ELSE memory[w][x]]]
      /\ loose' = loose \cup {<<w, x>> : x \in
                      {y \in Listed(tracked[w]) \ Listed(kept) : Recent(memory[w][y], y, clock) # {}}}
      /\ Conclude(c, j, Full(seen, k), w)

-----------------------------------------------------------------------------
(* The same with Redis *)

OnKey(k) == {c \in Call : pc[c] \in {"get", "set", "sent"} /\ call[c].key = k}

\* A call of rate_limit_exceeded or rate_limit_check.
Enter(c, j) ==
  IF shared /\ ~unavailable[j.worker]
    THEN /\ pc' = [pc EXCEPT ![c] = "connect"] /\ call' = [call EXCEPT ![c] = j]
         /\ UNCHANGED <<tracked, memory, granted, loose>>
    ELSE InMemory(c, j)

\* get_driver() succeeds, and the GET is sent.
Connect(c) ==
  /\ pc[c] = "connect"
  /\ pc' = [pc EXCEPT ![c] = "get"]
  /\ call' = [call EXCEPT ![c].now = clock]
  /\ loose' = IF OnKey(call[c].key) = {} THEN loose ELSE loose \cup {<<Redis, call[c].key>>}
  /\ UNCHANGED <<clock, shared, unavailable, tracked, memory, redis, arrived, granted, failed, round, torn>>

\* It fails: this worker does not try again.
ConnectFails(c) ==
  /\ pc[c] = "connect"
  /\ unavailable' = [unavailable EXCEPT ![call[c].worker] = TRUE]
  /\ InMemory(c, call[c])
  /\ UNCHANGED <<clock, shared, redis, arrived, failed, round, torn>>

Stored(k) == IF clock < redis[k].until THEN redis[k].hits ELSE {}

Get(c) ==
  /\ pc[c] = "get"
  /\ pc' = [pc EXCEPT ![c] = "set"]
  /\ call' = [call EXCEPT ![c].seen = Recent(Stored(call[c].key), call[c].key, call[c].now)]
  /\ UNCHANGED <<clock, shared, unavailable, tracked, memory, redis, arrived, granted, failed, round,
                 loose, torn>>

GetFails(c) ==
  /\ pc[c] = "get"
  /\ InMemory(c, call[c])
  /\ UNCHANGED <<clock, shared, unavailable, redis, arrived, failed, round, torn>>

\* A window is kept in Redis for a second longer than its last hit counts.
Life(k) == Window[k] + 1

Saved(c) ==
  LET j == call[c]
  IN  [redis EXCEPT ![j.key] = [hits  |-> Added(j.seen, j.key, j.phase, [n |-> j.n, at |-> j.now]),
                                until |-> clock + Life(j.key)]]

\* The SET is answered.
Set(c) ==
  /\ pc[c] = "set"
  /\ redis' = Saved(c)
  /\ Conclude(c, call[c], Full(call[c].seen, call[c].key), Redis)
  /\ UNCHANGED <<clock, shared, unavailable, tracked, memory, arrived, failed, round, loose, torn>>

\* It fails, and Redis may have executed it all the same.
SetFails(c) ==
  /\ pc[c] = "set"
  /\ redis' \in {redis, Saved(c)}
  /\ InMemory(c, call[c])
  /\ torn' = IF redis' # redis /\ call[c].phase = "hit" /\ granted' = granted
               THEN torn \cup {call[c].key} ELSE torn
  /\ UNCHANGED <<clock, shared, unavailable, arrived, failed, round>>

-----------------------------------------------------------------------------
(* The endpoints, the clock and the processes *)

\* register.py, token.py and revoke.py count a request when it arrives; authorize.py
\* first looks whether the login is throttled.
Arrive(c, w, k) ==
  /\ pc[c] \in {"idle", "refused"}
  /\ arrived < MaxCalls /\ arrived' = arrived + 1
  /\ Enter(c, [Quiet EXCEPT !.n = arrived + 1, !.worker = w, !.key = k,
                            !.phase = IF k \in Login THEN "check" ELSE "hit"])
  /\ UNCHANGED <<clock, shared, unavailable, redis, failed, round, torn>>

LoggedIn(c) ==
  /\ pc[c] = "verify"
  /\ pc' = [pc EXCEPT ![c] = "idle"]
  /\ UNCHANGED <<clock, shared, unavailable, tracked, memory, redis, call, arrived, granted,
                 failed, round, loose, torn>>

\* authenticate_user_credentials finds no user.
LoginFails(c) ==
  /\ pc[c] = "verify"
  /\ IF shared THEN UNCHANGED <<failed, round>>
     ELSE LET w == call[c].worker
              k == call[c].key
          IN  /\ round' = IF Full(Recent(memory[w][k], k, clock), k) THEN round
                          ELSE [round EXCEPT ![w][k] = @ + 1]
              /\ failed' = [failed EXCEPT ![w][k] =
                   @ \cup {[n |-> call[c].n, at |-> clock, slot |-> c, round |-> round'[w][k]]}]
  /\ Enter(c, [call[c] EXCEPT !.phase = "hit"])
  /\ UNCHANGED <<clock, shared, unavailable, redis, arrived, torn>>

\* The handler is cancelled, and nothing is caught.  A SET that was sent may still be
\* executed.
Cancel(c) ==
  /\ pc[c] \in {"connect", "get", "set", "verify"}
  /\ IF pc[c] = "set" THEN pc' = [pc EXCEPT ![c] = "sent"] /\ UNCHANGED call
                      ELSE pc' = [pc EXCEPT ![c] = "idle"] /\ call' = [call EXCEPT ![c] = Quiet]
  /\ UNCHANGED <<clock, shared, unavailable, tracked, memory, redis, arrived, granted,
                 failed, round, loose, torn>>

\* Redis executes the SET of a handler that is gone, or never sees it.
SetLate(c) ==
  /\ pc[c] = "sent"
  /\ redis' \in {redis, Saved(c)}
  /\ torn' = IF redis' # redis /\ call[c].phase = "hit" THEN torn \cup {call[c].key} ELSE torn
  /\ pc' = [pc EXCEPT ![c] = "idle"] /\ call' = [call EXCEPT ![c] = Quiet]
  /\ UNCHANGED <<clock, shared, unavailable, tracked, memory, arrived, granted, failed, round, loose>>

Tick ==
  /\ clock < MaxClock /\ clock' = clock + 1
  /\ UNCHANGED <<shared, unavailable, tracked, memory, redis, pc, call, arrived, granted,
                 failed, round, loose, torn>>

\* A worker is killed and started again: its windows and its handlers are gone.
Restart(w) ==
  /\ unavailable' = [unavailable EXCEPT ![w] = FALSE]
  /\ tracked' = [tracked EXCEPT ![w] = <<>>]
  /\ memory' = [memory EXCEPT ![w] = [k \in Key |-> {}]]
  /\ loose' = loose \cup {<<w, k>> : k \in {x \in Key : Recent(memory[w][x], x, clock) # {}}}
  /\ LET gone == {c \in Call : call[c].worker = w}
     IN  /\ pc' = [c \in Call |-> IF c \notin gone THEN pc[c]
                                  ELSE IF pc[c] \in {"set", "sent"} THEN "sent" ELSE "idle"]
         /\ call' = [c \in Call |-> IF c \in gone /\ pc[c] \notin {"set", "sent"} THEN Quiet
                                    ELSE call[c]]
  /\ UNCHANGED <<clock, shared, redis, arrived, granted, failed, round, torn>>

Next ==
  \/ \E c \in Call :
       \/ \E w \in Worker, k \in Key : Arrive(c, w, k)
       \/ Connect(c) \/ ConnectFails(c) \/ Get(c) \/ GetFails(c) \/ Set(c) \/ SetFails(c)
       \/ LoggedIn(c) \/ LoginFails(c) \/ Cancel(c) \/ SetLate(c)
  \/ \E w \in Worker : Restart(w)
  \/ Tick

Spec == Init /\ [][Next]_vars

-----------------------------------------------------------------------------
\* Every variable holds what the code stores in it.
ThrottleTypeOK ==
  /\ clock \in 0 .. MaxClock /\ arrived \in 0 .. MaxCalls
  /\ shared \in BOOLEAN /\ unavailable \in [Worker -> BOOLEAN]
  /\ tracked \in [Worker -> Seq(Key)]
  /\ memory \in [Worker -> [Key -> SUBSET Hit]]
  /\ redis \in [Key -> [hits : SUBSET Hit, until : Nat]]
  /\ pc \in [Call -> {"idle", "refused", "connect", "get", "set", "sent", "verify"}]
  /\ call \in [Call -> [n : 0 .. MaxCalls, worker : Store, key : Key \cup {Redis},
                        phase : {"check", "hit"}, now : 0 .. MaxClock, seen : SUBSET Hit]]
  /\ granted \in [Store -> [Key -> SUBSET Hit]]
  /\ failed \in [Worker -> [Key -> SUBSET Guess]]
  /\ round \in [Worker -> [Key -> Nat]]
  /\ loose \subseteq Store \X Key /\ torn \subseteq Key

\* The hits of a window that ends now.
Within(H, k, now) == {h \in H : now < h.at + Window[k]}

\* No store lets more than the limit pass within one window, unless two calls on the key
\* overlapped in Redis, or the worker evicted the key or was restarted.
LimitPerStore ==
  \A s \in Store, k \in Key :
    <<s, k>> \in loose \/ Cardinality(Within(granted[s][k], k, clock)) <= Limit[k]

\* Nobody is refused who has not been let pass limit times within the window: a blocked
\* caller does not extend its own window, and expired or evicted hits do not count.
RefusalsAreEarned ==
  \A c \in Call : LET k == call[c].key IN
    pc[c] = "refused" /\ k \notin torn =>
      Cardinality(UNION {{h.n : h \in Within(granted[s][k], k, call[c].now)} : s \in Store}) >= Limit[k]

\* The memory of a worker is bounded, and every window in it can be found by its key.
MemoryBounded ==
  \A w \in Worker :
    /\ Len(tracked[w]) <= MaxTracked
    /\ \A i, j \in DOMAIN tracked[w] : tracked[w][i] = tracked[w][j] => i = j
    /\ \A k \in Key : memory[w][k] # {} => k \in Listed(tracked[w])

\* Without Redis the passwords guessed at a worker for a key are bounded, although the check
\* before the password and the count of the failure after it are two steps with other logins
\* between them: from one failure that is counted to the next each handler guesses at most
\* once, and within a window no more than the limit are counted (unless the worker evicted
\* the key or was restarted).  So the limit itself holds for a single handler only.
GuessesBounded ==
  ~shared => \A w \in Worker, k \in Login : <<w, k>> \in loose \/
    \A f, g \in Within(failed[w][k], k, clock) :
      /\ f.round = g.round /\ f.slot = g.slot => f = g
      /\ f.round - g.round <= Limit[k]
=============================================================================
