---------------------------- MODULE RateLimiter ----------------------------
(***************************************************************************)
(* The fixed-window rate limit in front of every endpoint                  *)
(* (middleware/rate_limit.py): a counter per bucket of one client, in      *)
(* Redis for all server processes or in a process of its own.              *)
(*                                                                         *)
(* The middleware runs on the event loop and calls the limiter without     *)
(* awaiting, so one process has one check under way at a time.  The checks *)
(* of different processes interleave between their Redis commands.         *)
(***************************************************************************)
EXTENDS Integers, FiniteSets

CONSTANTS
  Processes,     \* server processes
  Keys,          \* "heavy:<client>" and "standard:<client>"
  Limit,         \* Limit[k]: requests per window
  Shared,        \* the Redis store
  NoStore,       \* the process has not chosen a store yet
  NoKey,         \* the process is checking nothing
  WindowTicks,   \* _WINDOW_SECONDS, in ticks of the clock
  MaxClock,      \* bound on time
  MaxPerWindow   \* bound on the checks of a key that start in one window

ASSUME LimiterAssumption ==
  /\ IsFiniteSet(Processes)
  /\ Limit \in [Keys -> Nat \ {0}]
  /\ Shared \notin Processes /\ NoStore \notin Processes \cup {Shared} /\ NoKey \notin Keys
  /\ WindowTicks \in Nat \ {0} /\ MaxClock \in Nat /\ MaxPerWindow \in Nat

VARIABLES
  clock,      \* time.time(), the same on every host
  redisUp,    \* whether Redis answers (external)
  backend,    \* backend[p]: the store process p chose at its first check
  counts,     \* counts[k][t]: the Redis counter of key k in window t, 0 if there is none
  ttl,        \* ttl[k][t]: when that counter expires, 0 if never
  own,        \* own[p][k]: the window and count of process p's own counter
  check,      \* check[p]: the check under way in process p
  started,    \* started[s][k][t]: checks stamped with window t against store s (history)
  granted,    \* granted[s][k][t]: positions within the limit given out while t lasted (history)
  orphaned    \* Redis counters whose creator failed before EXPIRE (history)

vars == <<clock, redisUp, backend, counts, ttl, own, check, started, granted, orphaned>>

Window(now) == now \div WindowTicks
Windows == 0..Window(MaxClock)
Stores == Processes \cup {Shared}
Steps == {"idle", "stamped", "counted", "admitted", "rejected", "failed"}
NoCheck == [pc |-> "idle", key |-> NoKey, window |-> 0, count |-> 0]
Zero == [k \in Keys |-> [t \in Windows |-> 0]]
Bump(f, s, k, t) == [f EXCEPT ![s][k][t] = @ + 1]

TypeOK ==
  /\ clock \in 0..MaxClock
  /\ redisUp \in BOOLEAN
  /\ backend \in [Processes -> Stores \cup {NoStore}]
  /\ counts \in [Keys -> [Windows -> Nat]]
  /\ ttl \in [Keys -> [Windows -> 0..(MaxClock + WindowTicks)]]
  /\ own \in [Processes -> [Keys -> [window : Windows, count : Nat]]]
  /\ check \in [Processes -> [pc : Steps, key : Keys \cup {NoKey}, window : Windows, count : Nat]]
  /\ started \in [Stores -> [Keys -> [Windows -> Nat]]]
  /\ granted \in [Stores -> [Keys -> [Windows -> Nat]]]
  /\ orphaned \subseteq Keys \X Windows

-----------------------------------------------------------------------------
(* One check *)

\* A faulty variant: one request too many.
AdmitsOneMore(k, count) == count - 1 <= Limit[k]

Admits(k, count) == count <= Limit[k]

\* The check of p ends with count as the client's position in its window.
Verdict(p, k, t, count) ==
  check' = [check EXCEPT ![p] =
    [pc |-> IF Admits(k, count) THEN "admitted" ELSE "rejected",
     key |-> k, window |-> t, count |-> count]]

\* The store of p gives out this position in window t.
Grant(p, k, t, count) ==
  granted' = IF Admits(k, count) /\ t = Window(clock)
             THEN Bump(granted, backend[p], k, t) ELSE granted

\* The first check of a process runs build_rate_limiter.
Choose(p) ==
  /\ check[p].pc = "idle"
  /\ backend[p] = NoStore
  /\ backend' = [backend EXCEPT ![p] = IF redisUp THEN Shared ELSE p]
  /\ UNCHANGED <<clock, redisUp, counts, ttl, own, check, started, granted, orphaned>>

\* A faulty variant: the count is kept when the window rolls over.
CheckOwnKept(p, k) ==
  /\ check[p].pc = "idle"
  /\ backend[p] = p
  /\ started[p][k][Window(clock)] < MaxPerWindow
  /\ LET count == own[p][k].count + 1
     IN /\ own' = [own EXCEPT ![p][k] = [window |-> Window(clock), count |-> count]]
        /\ Verdict(p, k, Window(clock), count)
        /\ Grant(p, k, Window(clock), count)
  /\ started' = Bump(started, p, k, Window(clock))
  /\ UNCHANGED <<clock, redisUp, backend, counts, ttl, orphaned>>

\* InMemoryRateLimiter.check: one uninterrupted step of the event loop.
CheckOwn(p, k) ==
  /\ check[p].pc = "idle"
  /\ backend[p] = p
  /\ started[p][k][Window(clock)] < MaxPerWindow
  /\ LET count == IF own[p][k].window = Window(clock) THEN own[p][k].count + 1 ELSE 1
     IN /\ own' = [own EXCEPT ![p][k] = [window |-> Window(clock), count |-> count]]
        /\ Verdict(p, k, Window(clock), count)
        /\ Grant(p, k, Window(clock), count)
  /\ started' = Bump(started, p, k, Window(clock))
  /\ UNCHANGED <<clock, redisUp, backend, counts, ttl, orphaned>>

\* RedisRateLimiter.check reads the time, and with it the name of the counter.
Stamp(p, k) ==
  /\ check[p].pc = "idle"
  /\ backend[p] = Shared
  /\ started[Shared][k][Window(clock)] < MaxPerWindow
  /\ check' = [check EXCEPT ![p] = [pc |-> "stamped", key |-> k, window |-> Window(clock), count |-> 0]]
  /\ started' = Bump(started, Shared, k, Window(clock))
  /\ UNCHANGED <<clock, redisUp, backend, counts, ttl, own, granted, orphaned>>

\* INCR: the first increment creates the counter and owes it an expiry.
Incr(p) ==
  /\ check[p].pc = "stamped"
  /\ redisUp
  /\ LET k == check[p].key
         t == check[p].window
         count == counts[k][t] + 1
     IN /\ counts' = [counts EXCEPT ![k][t] = count]
        /\ Grant(p, k, t, count)
        /\ IF count = 1
           THEN check' = [check EXCEPT ![p].pc = "counted", ![p].count = count]
           ELSE Verdict(p, k, t, count)
  /\ UNCHANGED <<clock, redisUp, backend, ttl, own, started, orphaned>>

\* A faulty variant: EXPIRE is forgotten.
ExpireKeyNever(p) ==
  /\ check[p].pc = "counted"
  /\ redisUp
  /\ Verdict(p, check[p].key, check[p].window, check[p].count)
  /\ UNCHANGED <<clock, redisUp, backend, counts, ttl, own, started, granted, orphaned>>

\* EXPIRE, which does nothing when the counter is gone, and the verdict.
ExpireKey(p) ==
  /\ check[p].pc = "counted"
  /\ redisUp
  /\ LET k == check[p].key
         t == check[p].window
     IN /\ ttl' = [ttl EXCEPT ![k][t] = IF counts[k][t] = 0 THEN 0 ELSE clock + WindowTicks]
        /\ Verdict(p, k, t, check[p].count)
  /\ UNCHANGED <<clock, redisUp, backend, counts, own, started, granted, orphaned>>

OwesExpiry(p) == IF check[p].pc = "counted" THEN {<<check[p].key, check[p].window>>} ELSE {}

\* A Redis command raises; nothing between the limiter and the server catches it.
CommandFails(p) ==
  /\ check[p].pc \in {"stamped", "counted"}
  /\ ~redisUp
  /\ check' = [check EXCEPT ![p].pc = "failed"]
  /\ orphaned' = orphaned \cup OwesExpiry(p)
  /\ UNCHANGED <<clock, redisUp, backend, counts, ttl, own, started, granted>>

\* The request goes on, or its 429 or 500 is sent.
Leave(p) ==
  /\ check[p].pc \in {"admitted", "rejected", "failed"}
  /\ check' = [check EXCEPT ![p] = NoCheck]
  /\ UNCHANGED <<clock, redisUp, backend, counts, ttl, own, started, granted, orphaned>>

-----------------------------------------------------------------------------
(* The surroundings *)

\* Time passes; Redis drops the counters whose time has come.
Tick ==
  /\ clock < MaxClock
  /\ clock' = clock + 1
  /\ LET Gone(k, t) == ttl[k][t] # 0 /\ ttl[k][t] <= clock'
     IN /\ counts' = [k \in Keys |-> [t \in Windows |-> IF Gone(k, t) THEN 0 ELSE counts[k][t]]]
        /\ ttl' = [k \in Keys |-> [t \in Windows |-> IF Gone(k, t) THEN 0 ELSE ttl[k][t]]]
  /\ UNCHANGED <<redisUp, backend, own, check, started, granted, orphaned>>

RedisGoesDown ==
  /\ redisUp
  /\ redisUp' = FALSE
  /\ UNCHANGED <<clock, backend, counts, ttl, own, check, started, granted, orphaned>>

\* Redis comes back with its data, or empty: then its counting starts again.
RedisComesBack ==
  /\ ~redisUp
  /\ redisUp' = TRUE
  /\ \/ UNCHANGED <<counts, ttl, granted, orphaned>>
     \/ /\ counts' = Zero
        /\ ttl' = Zero
        /\ granted' = [granted EXCEPT ![Shared] = Zero]
        /\ orphaned' = {}
  /\ UNCHANGED <<clock, backend, own, check, started>>

\* Process p is replaced, with its own counters and the check it was making.
Restart(p) ==
  /\ backend' = [backend EXCEPT ![p] = NoStore]
  /\ own' = [own EXCEPT ![p] = [k \in Keys |-> [window |-> 0, count |-> 0]]]
  /\ check' = [check EXCEPT ![p] = NoCheck]
  /\ started' = [started EXCEPT ![p] = Zero]
  /\ granted' = [granted EXCEPT ![p] = Zero]
  /\ orphaned' = orphaned \cup OwesExpiry(p)
  /\ UNCHANGED <<clock, redisUp, counts, ttl>>

Init ==
  /\ clock = 0
  /\ redisUp \in BOOLEAN
  /\ backend = [p \in Processes |-> NoStore]
  /\ counts = Zero
  /\ ttl = Zero
  /\ own = [p \in Processes |-> [k \in Keys |-> [window |-> 0, count |-> 0]]]
  /\ check = [p \in Processes |-> NoCheck]
  /\ started = [s \in Stores |-> Zero]
  /\ granted = [s \in Stores |-> Zero]
  /\ orphaned = {}

Next ==
  \/ \E p \in Processes :
       \/ \E k \in Keys : CheckOwn(p, k) \/ Stamp(p, k)
       \/ Choose(p) \/ Incr(p) \/ ExpireKey(p) \/ CommandFails(p) \/ Leave(p) \/ Restart(p)
  \/ Tick \/ RedisGoesDown \/ RedisComesBack

Spec == Init /\ [][Next]_vars

-----------------------------------------------------------------------------
(* Properties *)

\* While a window lasts, a store admits at most the limit of each key, whatever
\* checks of other processes interleave between INCR and EXPIRE, and although
\* the counter expires by a clock that started with its first request (check).
AdmittedWithinLimit ==
  \A s \in Stores, k \in Keys, t \in Windows : granted[s][k][t] <= Limit[k]

\* A rejected request has been preceded by a full limit of requests of its own
\* key in its own window: no count is carried over from an earlier window
\* (InMemoryRateLimiter.check, the name of the Redis counter).
RejectionDeserved ==
  \A p \in Processes :
    check[p].pc = "rejected" =>
      started[backend[p]][check[p].key][check[p].window] > Limit[check[p].key]

\* Every Redis counter has an expiry, unless its creator is about to set one or
\* failed between INCR and EXPIRE; a later check never repairs such a counter.
CountersExpire ==
  \A k \in Keys, t \in Windows :
    counts[k][t] # 0 =>
      \/ ttl[k][t] # 0
      \/ <<k, t>> \in orphaned
      \/ \E p \in Processes : <<k, t>> \in OwesExpiry(p)
=============================================================================
