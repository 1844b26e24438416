------------------------- MODULE RateLimiter_proofs -------------------------
(***************************************************************************)
(* Proofs about RateLimiter, for any number of processes and buckets, any  *)
(* limits and any length of the window and of the run.                     *)
(*                                                                         *)
(* The inductive invariant relates the counters to what was granted and    *)
(* started.  From the window the clock shows on, no more is granted than   *)
(* the counter says, because no counter of such a window can expire: its   *)
(* EXPIRE was sent after the window began.  And a counter, with the checks *)
(* that are about to increment it, is at most the checks that were         *)
(* stamped, so that a check it rejects had that many before it.            *)
(***************************************************************************)
EXTENDS RateLimiter, FiniteSetTheorems, TLAPS

\* The processes about to increment the Redis counter of k in window t.
Stamped(k, t) ==
  {p \in Processes : check[p].pc = "stamped" /\ check[p].key = k /\ check[p].window = t}

\* A check is made against the store its process chose, for a window that has begun.
CheckPlaced(p) ==
  /\ backend[p] \in {NoStore, Shared, p}
  /\ check[p].pc \in {"stamped", "counted"} => backend[p] = Shared
  /\ check[p].pc # "idle" => backend[p] # NoStore /\ check[p].key \in Keys
  /\ check[p].window <= Window(clock)

\* The position a check was given is backed by as many checks, and a rejected
\* one is past the limit.
CheckBacked(p) ==
  /\ check[p].pc \in {"counted", "admitted", "rejected"} =>
       check[p].count <= started[backend[p]][check[p].key][check[p].window]
  /\ check[p].pc = "rejected" => check[p].count > Limit[check[p].key]

\* A process's own counter says at least what it granted in its window, and at
\* most what was asked of it.
OwnCounter(p, k) ==
  /\ own[p][k].window <= Window(clock)
  /\ own[p][k].count <= started[p][k][own[p][k].window]
  /\ \A t \in Windows : t >= Window(clock) =>
       granted[p][k][t] <= IF own[p][k].window = t THEN own[p][k].count ELSE 0

\* The same of a Redis counter, which does not expire before its window ends.
RedisCounter(k, t) ==
  /\ t >= Window(clock) => granted[Shared][k][t] <= counts[k][t]
  /\ counts[k][t] + Cardinality(Stamped(k, t)) <= started[Shared][k][t]
  /\ ttl[k][t] # 0 => ttl[k][t] >= t * WindowTicks + WindowTicks

Counted ==
  /\ \A p \in Processes : CheckPlaced(p) /\ CheckBacked(p)
  /\ \A p \in Processes, k \in Keys : OwnCounter(p, k)
  /\ \A k \in Keys, t \in Windows : RedisCounter(k, t)
  /\ AdmittedWithinLimit
  /\ CountersExpire

IInv == TypeOK /\ Counted

-----------------------------------------------------------------------------
(* Windows and counters *)

\* A moment lies in its window.
LEMMA InWindow ==
  ASSUME NEW n \in Nat
  PROVE  /\ Window(n) \in Nat
         /\ Window(n) * WindowTicks <= n /\ n < Window(n) * WindowTicks + WindowTicks
BY LimiterAssumption DEF Window

\* Windows follow each other.
LEMMA WindowMonotonic ==
  ASSUME NEW m \in Nat, NEW n \in Nat, m <= n
  PROVE  Window(m) <= Window(n)
<1> DEFINE q == Window(m)
           r == Window(n)
<1>1. q \in Nat /\ q * WindowTicks <= m
  BY InWindow
<1>2. r \in Nat /\ n < r * WindowTicks + WindowTicks
  BY InWindow
<1>3. WindowTicks \in Nat \ {0}
  BY LimiterAssumption
<1> HIDE DEF q, r
<1>4. q * WindowTicks < r * WindowTicks + WindowTicks
  BY <1>1, <1>2, <1>3
<1>5. q <= r
  BY <1>1, <1>2, <1>3, <1>4
<1>6. QED
  BY <1>5 DEF q, r

\* The window the clock shows is one of the windows.
LEMMA WindowOfClock ==
  ASSUME clock \in 0..MaxClock
  PROVE  /\ Window(clock) \in Windows
         /\ \A t \in Windows : t \in Nat
BY LimiterAssumption, InWindow, WindowMonotonic DEF Windows

\* Bump adds one to one counter.
LEMMA Bumped ==
  ASSUME NEW f \in [Stores -> [Keys -> [Windows -> Nat]]],
         NEW s \in Stores, NEW k \in Keys, NEW t \in Windows
  PROVE  /\ Bump(f, s, k, t) \in [Stores -> [Keys -> [Windows -> Nat]]]
         /\ Bump(f, s, k, t)[s][k][t] = f[s][k][t] + 1
         /\ \A s2 \in Stores, k2 \in Keys, t2 \in Windows :
              s2 # s \/ k2 # k \/ t2 # t => Bump(f, s, k, t)[s2][k2][t2] = f[s2][k2][t2]
BY DEF Bump

\* What a grant does: at most one more for one counter, and only within the limit
\* and while the window lasts.
LEMMA Granted ==
  ASSUME TypeOK, NEW p \in Processes, backend[p] \in Stores,
         NEW k \in Keys, NEW t \in Windows, NEW count \in Nat, Grant(p, k, t, count)
  PROVE  /\ granted' \in [Stores -> [Keys -> [Windows -> Nat]]]
         /\ \A s2 \in Stores, k2 \in Keys, t2 \in Windows :
              s2 # backend[p] \/ k2 # k \/ t2 # t => granted'[s2][k2][t2] = granted[s2][k2][t2]
         /\ \/ granted'[backend[p]][k][t] = granted[backend[p]][k][t]
            \/ /\ granted'[backend[p]][k][t] = granted[backend[p]][k][t] + 1
               /\ count <= Limit[k] /\ t = Window(clock)
<1>1. CASE Admits(k, count) /\ t = Window(clock)
  <2>1. granted' = Bump(granted, backend[p], k, t)
    BY <1>1 DEF Grant
  <2>2. granted \in [Stores -> [Keys -> [Windows -> Nat]]]
    BY DEF TypeOK
  <2>3. granted'[backend[p]][k][t] = granted[backend[p]][k][t] + 1 /\ count <= Limit[k]
    BY <1>1, <2>1, <2>2, Bumped DEF Admits
  <2>4. granted' \in [Stores -> [Keys -> [Windows -> Nat]]]
    BY <2>1, <2>2, Bumped
  <2>5. ASSUME NEW s2 \in Stores, NEW k2 \in Keys, NEW t2 \in Windows,
               s2 # backend[p] \/ k2 # k \/ t2 # t
        PROVE  granted'[s2][k2][t2] = granted[s2][k2][t2]
    <3>1. Bump(granted, backend[p], k, t)[s2][k2][t2] = granted[s2][k2][t2]
      BY <2>2, <2>5 DEF Bump
    <3>2. QED
      BY <2>1, <3>1
  <2>6. QED
    BY <1>1, <2>3, <2>4, <2>5
<1>2. CASE ~(Admits(k, count) /\ t = Window(clock))
  BY <1>2 DEF Grant, TypeOK
<1>3. QED
  BY <1>1, <1>2

\* The store of a process that has chosen one is a store, and one of its own is its.
LEMMA StoreChosen ==
  ASSUME TypeOK, NEW p \in Processes, CheckPlaced(p)
  PROVE  /\ check[p].pc # "idle" => backend[p] \in Stores
         /\ check[p] \in [pc : Steps, key : Keys \cup {NoKey}, window : Windows, count : Nat]
BY DEF TypeOK, CheckPlaced

-----------------------------------------------------------------------------
(* Types *)

\* A verdict is a check.
LEMMA VerdictTyped ==
  ASSUME TypeOK, NEW p \in Processes, NEW k \in Keys, NEW t \in Windows, NEW count \in Nat,
         Verdict(p, k, t, count)
  PROVE  /\ check' \in [Processes -> [pc : Steps, key : Keys \cup {NoKey}, window : Windows, count : Nat]]
         /\ check'[p].pc \in {"admitted", "rejected"} /\ (check'[p].pc = "rejected" => count > Limit[k])
         /\ check'[p].key = k /\ check'[p].window = t /\ check'[p].count = count
         /\ \A q \in Processes : q # p => check'[q] = check[q]
<1> DEFINE verdict(pc) == [pc |-> pc, key |-> k, window |-> t, count |-> count]
<1>1. PICK pc \in {"admitted", "rejected"} :
        check' = [check EXCEPT ![p] = verdict(pc)] /\ (pc = "rejected" => ~Admits(k, count))
  BY DEF Verdict
<1>2. verdict(pc) \in [pc : Steps, key : Keys \cup {NoKey}, window : Windows, count : Nat]
  BY DEF Steps
<1>3. pc = "rejected" => count > Limit[k]
  BY <1>1, LimiterAssumption DEF Admits
<1>4. QED
  BY <1>1, <1>2, <1>3 DEF TypeOK

\* Every step keeps the types.
LEMMA TypeStep ==
  ASSUME TypeOK, \A p \in Processes : CheckPlaced(p), [Next]_vars
  PROVE  TypeOK'
<1> USE DEF TypeOK
<1>1. Window(clock) \in Windows /\ \A t \in Windows : t \in Nat
  BY WindowOfClock
<1>2. ASSUME NEW p \in Processes, Choose(p) PROVE TypeOK'
  BY <1>2 DEF Choose, Stores
<1>3. ASSUME NEW p \in Processes, NEW k \in Keys, CheckOwn(p, k) PROVE TypeOK'
  <2>1. PICK count \in Nat :
          /\ own' = [own EXCEPT ![p][k] = [window |-> Window(clock), count |-> count]]
          /\ Verdict(p, k, Window(clock), count) /\ Grant(p, k, Window(clock), count)
    <3> DEFINE position == IF own[p][k].window = Window(clock) THEN own[p][k].count + 1 ELSE 1
    <3>1. position \in Nat
      OBVIOUS
    <3>2. /\ own' = [own EXCEPT ![p][k] = [window |-> Window(clock), count |-> position]]
          /\ Verdict(p, k, Window(clock), position) /\ Grant(p, k, Window(clock), position)
      BY <1>3 DEF CheckOwn
    <3> HIDE DEF position
    <3>3. QED
      BY <3>1, <3>2
  <2>2. backend[p] \in Stores /\ p \in Stores
    BY <1>3 DEF CheckOwn, Stores
  <2>3. granted' \in [Stores -> [Keys -> [Windows -> Nat]]]
    BY <1>1, <2>1, <2>2, Granted
  <2>4. started' \in [Stores -> [Keys -> [Windows -> Nat]]]
    BY <1>1, <1>3, <2>2, Bumped DEF CheckOwn
  <2>5. check' \in [Processes -> [pc : Steps, key : Keys \cup {NoKey}, window : Windows, count : Nat]]
    BY <1>1, <2>1, VerdictTyped
  <2>6. own' \in [Processes -> [Keys -> [window : Windows, count : Nat]]]
    BY <1>1, <2>1
  <2>7. QED
    BY <1>3, <2>3, <2>4, <2>5, <2>6 DEF CheckOwn
<1>4. ASSUME NEW p \in Processes, NEW k \in Keys, Stamp(p, k) PROVE TypeOK'
  <2>1. started' \in [Stores -> [Keys -> [Windows -> Nat]]]
    BY <1>1, <1>4, Bumped DEF Stamp, Stores
  <2>2. [pc |-> "stamped", key |-> k, window |-> Window(clock), count |-> 0]
          \in [pc : Steps, key : Keys \cup {NoKey}, window : Windows, count : Nat]
    BY <1>1 DEF Steps
  <2>3. QED
    BY <1>4, <2>1, <2>2 DEF Stamp
<1>5. ASSUME NEW p \in Processes, Incr(p) PROVE TypeOK'
  <2> DEFINE k == check[p].key
             t == check[p].window
             count == counts[k][t] + 1
  <2>1. k \in Keys /\ t \in Windows /\ count \in Nat /\ backend[p] \in Stores
    BY <1>5, StoreChosen DEF Incr, CheckPlaced
  <2>2. counts' \in [Keys -> [Windows -> Nat]]
    BY <1>5, <2>1 DEF Incr
  <2>3. granted' \in [Stores -> [Keys -> [Windows -> Nat]]]
    BY <1>5, <2>1, Granted DEF Incr
  <2>4. check' \in [Processes -> [pc : Steps, key : Keys \cup {NoKey}, window : Windows, count : Nat]]
    <3>1. CASE count = 1
      <4>1. check' = [check EXCEPT ![p] = [check[p] EXCEPT !.pc = "counted", !.count = count]]
        BY <1>5, <3>1 DEF Incr
      <4>2. [check[p] EXCEPT !.pc = "counted", !.count = count]
              \in [pc : Steps, key : Keys \cup {NoKey}, window : Windows, count : Nat]
        BY <2>1 DEF Steps
      <4>3. QED
        BY <4>1, <4>2
    <3>2. CASE count # 1
      BY <1>5, <2>1, <3>2, VerdictTyped DEF Incr
    <3>3. QED
      BY <3>1, <3>2
  <2>5. QED
    BY <1>5, <2>2, <2>3, <2>4 DEF Incr
<1>6. ASSUME NEW p \in Processes, ExpireKey(p) PROVE TypeOK'
  <2>1. check[p].key \in Keys /\ check[p].window \in Windows /\ check[p].count \in Nat
    BY <1>6, StoreChosen DEF ExpireKey, CheckPlaced
  <2>2. ttl' \in [Keys -> [Windows -> 0..(MaxClock + WindowTicks)]]
    <3>1. clock + WindowTicks \in 0..(MaxClock + WindowTicks) /\ 0 \in 0..(MaxClock + WindowTicks)
      BY LimiterAssumption
    <3>2. QED
      BY <1>6, <2>1, <3>1 DEF ExpireKey
  <2>3. check' \in [Processes -> [pc : Steps, key : Keys \cup {NoKey}, window : Windows, count : Nat]]
    BY <1>6, <2>1, VerdictTyped DEF ExpireKey
  <2>4. QED
    BY <1>6, <2>2, <2>3 DEF ExpireKey
<1>7. ASSUME NEW p \in Processes, CommandFails(p) PROVE TypeOK'
  <2>1. check[p].key \in Keys /\ check[p].window \in Windows
    BY <1>7, StoreChosen DEF CommandFails, CheckPlaced
  <2>2. [check[p] EXCEPT !.pc = "failed"] \in [pc : Steps, key : Keys \cup {NoKey}, window : Windows, count : Nat]
    BY DEF Steps
  <2>3. QED
    BY <1>7, <2>1, <2>2 DEF CommandFails, OwesExpiry
<1>8. ASSUME NEW p \in Processes, Leave(p) PROVE TypeOK'
  <2>1. NoCheck \in [pc : Steps, key : Keys \cup {NoKey}, window : Windows, count : Nat]
    BY LimiterAssumption, InWindow DEF NoCheck, Steps, Windows
  <2>2. QED
    BY <1>8, <2>1 DEF Leave
<1>9. ASSUME NEW p \in Processes, Restart(p) PROVE TypeOK'
  <2>1. 0 \in Windows
    BY LimiterAssumption, InWindow DEF Windows
  <2>2. NoCheck \in [pc : Steps, key : Keys \cup {NoKey}, window : Windows, count : Nat]
    BY <2>1 DEF NoCheck, Steps
  <2>3. Zero \in [Keys -> [Windows -> Nat]]
    BY DEF Zero
  <2>4. OwesExpiry(p) \subseteq Keys \X Windows
    BY DEF OwesExpiry, CheckPlaced
  <2>5. [k \in Keys |-> [window |-> 0, count |-> 0]] \in [Keys -> [window : Windows, count : Nat]]
    BY <2>1
  <2>6. check' \in [Processes -> [pc : Steps, key : Keys \cup {NoKey}, window : Windows, count : Nat]]
    BY <1>9, <2>2 DEF Restart
  <2>7. own' \in [Processes -> [Keys -> [window : Windows, count : Nat]]]
    BY <1>9, <2>5 DEF Restart
  <2>8. /\ started' \in [Stores -> [Keys -> [Windows -> Nat]]]
        /\ granted' \in [Stores -> [Keys -> [Windows -> Nat]]]
    BY <1>9, <2>3 DEF Restart
  <2>9. QED
    BY <1>9, <2>4, <2>6, <2>7, <2>8 DEF Restart
<1>10. CASE Tick
  <2>1. counts' \in [Keys -> [Windows -> Nat]]
    BY <1>10 DEF Tick
  <2>2. ttl' \in [Keys -> [Windows -> 0..(MaxClock + WindowTicks)]]
    BY <1>10, LimiterAssumption DEF Tick
  <2>3. clock' \in 0..MaxClock
    BY <1>10, LimiterAssumption DEF Tick
  <2>4. QED
    BY <1>10, <2>1, <2>2, <2>3 DEF Tick
<1>11. CASE RedisGoesDown
  BY <1>11 DEF RedisGoesDown
<1>12. CASE RedisComesBack
  <2>1. Zero \in [Keys -> [Windows -> Nat]] /\ Zero \in [Keys -> [Windows -> 0..(MaxClock + WindowTicks)]]
    BY LimiterAssumption DEF Zero
  <2>2. QED
    BY <1>12, <2>1 DEF RedisComesBack
<1>13. CASE UNCHANGED vars
  BY <1>13 DEF vars
<1>14. QED
  BY <1>2, <1>3, <1>4, <1>5, <1>6, <1>7, <1>8, <1>9, <1>10, <1>11, <1>12, <1>13 DEF Next
-----------------------------------------------------------------------------
(* Counting *)

\* What the invariant says of one counter, its index in its range.
LEMMA Indexed ==
  ASSUME IInv
  PROVE  /\ Window(clock) \in Windows /\ \A t \in Windows : t \in Nat
         /\ \A p \in Processes : p \in Stores
         /\ Shared \in Stores
         /\ \A s \in Stores, k \in Keys, t \in Windows :
              started[s][k][t] \in Nat /\ granted[s][k][t] \in Nat
         /\ \A k \in Keys, t \in Windows : counts[k][t] \in Nat /\ ttl[k][t] \in Nat
         /\ \A k \in Keys : Limit[k] \in Nat \ {0}
         /\ \A p \in Processes, k \in Keys :
              own[p][k].window \in Windows /\ own[p][k].count \in Nat
         /\ \A p \in Processes :
              /\ check[p].window \in Windows /\ check[p].count \in Nat
              /\ check[p].pc # "idle" => backend[p] \in Stores /\ check[p].key \in Keys
BY WindowOfClock, LimiterAssumption DEF IInv, Counted, TypeOK, Stores, CheckPlaced

\* There are finitely many checks about to increment a counter.
LEMMA StampedFinite ==
  ASSUME NEW k, NEW t
  PROVE  IsFiniteSet(Stamped(k, t)) /\ Cardinality(Stamped(k, t)) \in Nat
<1>1. Stamped(k, t) \in SUBSET Processes
  BY DEF Stamped
<1>2. IsFiniteSet(Stamped(k, t))
  BY <1>1, LimiterAssumption, FS_Subset
<1>3. QED
  BY <1>2, FS_CardinalityType

\* A check that is given its position is backed by what was started before,
\* whatever else starts.
LEMMA StillBacked ==
  ASSUME IInv, NEW p \in Processes, CheckBacked(p), check'[p] = check[p], backend'[p] = backend[p],
         check[p].pc # "idle" =>
           started[backend[p]][check[p].key][check[p].window]
             <= started'[backend[p]][check[p].key][check[p].window],
         started' \in [Stores -> [Keys -> [Windows -> Nat]]]
  PROVE  CheckBacked(p)'
<1>1. check[p].pc # "idle" => backend[p] \in Stores /\ check[p].key \in Keys
  BY Indexed
<1>2. check[p].window \in Windows /\ check[p].count \in Nat
  BY Indexed
<1>3. CASE check[p].pc = "idle"
  BY <1>3 DEF CheckBacked
<1>4. CASE check[p].pc # "idle"
  <2> DEFINE before == started[backend[p]][check[p].key][check[p].window]
             after == started'[backend[p]][check[p].key][check[p].window]
  <2>1. before \in Nat /\ after \in Nat /\ before <= after
    BY <1>1, <1>2, <1>4, Indexed
  <2>2. check[p].pc \in {"counted", "admitted", "rejected"} => check[p].count <= before
    BY DEF CheckBacked
  <2>3. check[p].pc \in {"counted", "admitted", "rejected"} => check[p].count <= after
    BY <1>2, <2>1, <2>2
  <2>4. QED
    BY <2>3 DEF CheckBacked
<1>5. QED
  BY <1>3, <1>4

\* A check of a process's own counter keeps the counting straight.
LEMMA CheckOwnCounted ==
  ASSUME IInv, TypeOK', NEW p \in Processes, NEW k \in Keys, CheckOwn(p, k)
  PROVE  Counted'
<1> DEFINE w == Window(clock)
           count == IF own[p][k].window = w THEN own[p][k].count + 1 ELSE 1
<1>1. w \in Windows /\ w \in Nat /\ own[p][k].window \in Windows /\ own[p][k].count \in Nat /\ count \in Nat
  BY Indexed
<1>2. /\ backend[p] = p /\ p \in Stores /\ p # Shared /\ check[p].pc = "idle"
      /\ own' = [own EXCEPT ![p][k] = [window |-> w, count |-> count]]
      /\ Verdict(p, k, w, count) /\ Grant(p, k, w, count)
      /\ started' = Bump(started, p, k, w)
      /\ UNCHANGED <<clock, redisUp, backend, counts, ttl, orphaned>>
  BY LimiterAssumption DEF CheckOwn, Stores
<1>3. TypeOK /\ own \in [Processes -> [Keys -> [window : Windows, count : Nat]]]
  BY DEF IInv, TypeOK
<1> HIDE DEF count
<1>4. /\ check'[p].pc \in {"admitted", "rejected"} /\ (check'[p].pc = "rejected" => count > Limit[k])
      /\ check'[p].key = k /\ check'[p].window = w /\ check'[p].count = count
      /\ \A q \in Processes : q # p => check'[q] = check[q]
  BY <1>1, <1>2, <1>3, VerdictTyped
<1>5. /\ started'[p][k][w] = started[p][k][w] + 1
      /\ \A s \in Stores, k2 \in Keys, t \in Windows :
           s # p \/ k2 # k \/ t # w => started'[s][k2][t] = started[s][k2][t]
  BY <1>1, <1>2, <1>3 DEF TypeOK, Bump
<1>6. /\ \A s \in Stores, k2 \in Keys, t \in Windows :
           s # p \/ k2 # k \/ t # w => granted'[s][k2][t] = granted[s][k2][t]
      /\ \/ granted'[p][k][w] = granted[p][k][w]
         \/ granted'[p][k][w] = granted[p][k][w] + 1 /\ count <= Limit[k]
  BY <1>1, <1>2, <1>3, Granted
<1>7. /\ own'[p][k].window = w /\ own'[p][k].count = count
      /\ \A q \in Processes, k2 \in Keys : q # p \/ k2 # k => own'[q][k2] = own[q][k2]
  BY <1>2, <1>3
<1>8. OwnCounter(p, k) /\ started[p][k][w] \in Nat /\ granted[p][k][w] \in Nat
  BY <1>1, <1>2, Indexed DEF IInv, Counted
<1>9. count <= started'[p][k][w]
  BY <1>1, <1>5, <1>8 DEF count, OwnCounter
<1>10. granted[p][k][w] + 1 <= count
  BY <1>1, <1>8 DEF count, OwnCounter
<1>11. ASSUME NEW q \in Processes PROVE CheckPlaced(q)' /\ CheckBacked(q)'
  <2>1. CASE q = p
    BY <1>1, <1>2, <1>4, <1>9, <2>1, LimiterAssumption DEF CheckPlaced, CheckBacked
  <2>2. CASE q # p
    <3>1. check'[q] = check[q] /\ CheckPlaced(q) /\ CheckBacked(q)
      BY <1>4, <2>2 DEF IInv, Counted
    <3>2. check[q].pc # "idle" =>
            started[backend[q]][check[q].key][check[q].window]
              <= started'[backend[q]][check[q].key][check[q].window]
      BY <1>2, <1>5, Indexed
    <3>3. CheckBacked(q)'
      BY <1>2, <3>1, <3>2, StillBacked DEF TypeOK
    <3>4. QED
      BY <1>2, <3>1, <3>3 DEF CheckPlaced
  <2>3. QED
    BY <2>1, <2>2
<1>12. ASSUME NEW q \in Processes, NEW k2 \in Keys PROVE OwnCounter(q, k2)'
  <2>1. OwnCounter(q, k2) /\ q \in Stores /\ own[q][k2].window \in Windows
    BY Indexed DEF IInv, Counted
  <2>2. CASE q # p \/ k2 # k
    <3>1. own'[q][k2] = own[q][k2]
      BY <1>7, <2>2
    <3>2. \A t \in Windows : started'[q][k2][t] = started[q][k2][t] /\ granted'[q][k2][t] = granted[q][k2][t]
      BY <1>5, <1>6, <2>1, <2>2
    <3>3. QED
      BY <1>2, <2>1, <3>1, <3>2 DEF OwnCounter
  <2>3. CASE q = p /\ k2 = k
    <3>1. granted'[p][k][w] <= count
      BY <1>1, <1>6, <1>8, <1>10
    <3>2. ASSUME NEW t \in Windows, t >= w, t # w PROVE granted'[p][k][t] <= 0
      <4>1. t \in Nat /\ own[p][k].window \in Nat /\ own[p][k].window <= w
        BY <1>1, <1>8, Indexed DEF OwnCounter
      <4>2. own[p][k].window # t
        BY <1>1, <3>2, <4>1
      <4>3. granted[p][k][t] <= 0
        BY <1>8, <3>2, <4>2 DEF OwnCounter
      <4>4. granted'[p][k][t] = granted[p][k][t]
        BY <1>2, <1>6, <3>2
      <4>5. QED
        BY <4>3, <4>4
    <3>3. /\ (own[p][k].window <= Window(clock))'
          /\ (own[p][k].count <= started[p][k][own[p][k].window])'
      BY <1>1, <1>2, <1>7, <1>9
    <3>4. \A t \in Windows : t >= w => granted'[p][k][t] <= IF own'[p][k].window = t THEN own'[p][k].count ELSE 0
      BY <1>7, <3>1, <3>2
    <3>5. OwnCounter(p, k)'
      BY <1>2, <3>3, <3>4 DEF OwnCounter
    <3>6. QED
      BY <2>3, <3>5
  <2>4. QED
    BY <2>2, <2>3
<1>13. ASSUME NEW k2 \in Keys, NEW t \in Windows PROVE RedisCounter(k2, t)'
  <2>1. RedisCounter(k2, t)
    BY DEF IInv, Counted
  <2>2. Stamped(k2, t)' = Stamped(k2, t)
    BY <1>2, <1>4 DEF Stamped
  <2>3. QED
    BY <1>2, <1>5, <1>6, <2>1, <2>2, Indexed DEF RedisCounter
<1>14. AdmittedWithinLimit'
  <2>1. granted'[p][k][w] <= Limit[k]
    BY <1>1, <1>2, <1>6, <1>8, <1>10, Indexed DEF IInv, Counted, AdmittedWithinLimit
  <2>2. QED
    BY <1>6, <2>1 DEF IInv, Counted, AdmittedWithinLimit
<1>15. CountersExpire'
  <2>1. ASSUME NEW q \in Processes PROVE OwesExpiry(q) \subseteq OwesExpiry(q)'
    <3>1. CASE q = p
      BY <1>2, <3>1 DEF OwesExpiry
    <3>2. CASE q # p
      BY <1>4, <3>2 DEF OwesExpiry
    <3>3. QED
      BY <3>1, <3>2
  <2>2. CountersExpire
    BY DEF IInv, Counted
  <2>3. QED
    BY <1>2, <2>1, <2>2 DEF CountersExpire
<1>16. QED
  BY <1>11, <1>12, <1>13, <1>14, <1>15 DEF Counted
\* A counter nothing touches stays straight while checks leave it.
LEMMA RedisKept ==
  ASSUME IInv, NEW k \in Keys, NEW t \in Windows, clock' = clock,
         counts'[k][t] = counts[k][t], ttl'[k][t] = ttl[k][t],
         granted'[Shared][k][t] = granted[Shared][k][t],
         started'[Shared][k][t] = started[Shared][k][t],
         Stamped(k, t)' \subseteq Stamped(k, t)
  PROVE  RedisCounter(k, t)'
<1>1. RedisCounter(k, t)
  BY DEF IInv, Counted
<1>2. IsFiniteSet(Stamped(k, t)) /\ Cardinality(Stamped(k, t)) \in Nat
  BY StampedFinite
<1>3. IsFiniteSet(Stamped(k, t)') /\ Cardinality(Stamped(k, t)') <= Cardinality(Stamped(k, t))
  BY <1>2, FS_Subset
<1>4. Cardinality(Stamped(k, t)') \in Nat
  BY <1>3, FS_CardinalityType
<1>5. counts'[k][t] + Cardinality(Stamped(k, t)') <= started'[Shared][k][t]
  BY <1>1, <1>2, <1>3, <1>4, Indexed DEF RedisCounter
<1>6. QED
  BY <1>1, <1>5 DEF RedisCounter

\* The same of a process's own counter.
LEMMA OwnKept ==
  ASSUME IInv, NEW p \in Processes, NEW k \in Keys, clock' = clock, own'[p][k] = own[p][k],
         \A t \in Windows : started'[p][k][t] = started[p][k][t] /\ granted'[p][k][t] = granted[p][k][t]
  PROVE  OwnCounter(p, k)'
<1>1. OwnCounter(p, k) /\ own[p][k].window \in Windows
  BY Indexed DEF IInv, Counted
<1>2. QED
  BY <1>1 DEF OwnCounter

\* No counter loses its expiry while what is owed is paid, still owed or recorded.
LEMMA ExpiryKept ==
  ASSUME IInv, orphaned \subseteq orphaned',
         \A k \in Keys, t \in Windows : counts[k][t] # 0 /\ ttl[k][t] # 0 => ttl'[k][t] # 0,
         \A k \in Keys, t \in Windows : counts'[k][t] # 0 => counts[k][t] # 0,
         \A q \in Processes, k \in Keys, t \in Windows :
           /\ <<k, t>> \in OwesExpiry(q) /\ counts'[k][t] # 0
           => <<k, t>> \in OwesExpiry(q)' \cup orphaned' \/ ttl'[k][t] # 0
  PROVE  CountersExpire'
BY DEF IInv, Counted, CountersExpire

\* Choosing a store keeps the counting straight.
LEMMA ChooseCounted ==
  ASSUME IInv, TypeOK', NEW p \in Processes, Choose(p)
  PROVE  Counted'
<1>1. /\ check[p].pc = "idle" /\ backend'[p] \in {Shared, p}
      /\ \A q \in Processes : q # p => backend'[q] = backend[q]
      /\ UNCHANGED <<clock, redisUp, counts, ttl, own, check, started, granted, orphaned>>
  BY DEF Choose, IInv, TypeOK
<1>2. \A q \in Processes : CheckPlaced(q)' /\ CheckBacked(q)'
  BY <1>1 DEF IInv, Counted, CheckPlaced, CheckBacked
<1>3. \A q \in Processes, k \in Keys : OwnCounter(q, k)'
  BY <1>1 DEF IInv, Counted, OwnCounter
<1>4. \A k \in Keys, t \in Windows : RedisCounter(k, t)'
  BY <1>1, RedisKept DEF Stamped
<1>5. AdmittedWithinLimit' /\ CountersExpire'
  BY <1>1 DEF IInv, Counted, AdmittedWithinLimit, CountersExpire, OwesExpiry
<1>6. QED
  BY <1>2, <1>3, <1>4, <1>5 DEF Counted

\* Stamping a check keeps the counting straight.
LEMMA StampCounted ==
  ASSUME IInv, TypeOK', NEW p \in Processes, NEW k \in Keys, Stamp(p, k)
  PROVE  Counted'
<1>0. PICK w \in Windows : w = Window(clock)
  BY Indexed
<1>1. /\ backend[p] = Shared /\ check[p].pc = "idle"
      /\ started' = Bump(started, Shared, k, w)
      /\ UNCHANGED <<clock, redisUp, backend, counts, ttl, own, granted, orphaned>>
  BY <1>0 DEF Stamp
<1>2. /\ check'[p].pc = "stamped" /\ check'[p].key = k /\ check'[p].window = w
      /\ \A q \in Processes : q # p => check'[q] = check[q]
  BY <1>0 DEF Stamp, IInv, TypeOK
<1>3. w \in Windows /\ w \in Nat /\ w <= Window(clock) /\ Shared \in Stores /\ Shared \notin Processes
  BY <1>0, Indexed, LimiterAssumption
<1>4. /\ started'[Shared][k][w] = started[Shared][k][w] + 1
      /\ \A s \in Stores, k2 \in Keys, t \in Windows :
           s # Shared \/ k2 # k \/ t # w => started'[s][k2][t] = started[s][k2][t]
  BY <1>1, <1>3 DEF IInv, TypeOK, Bump
<1>5. ASSUME NEW s \in Stores, NEW k2 \in Keys, NEW t \in Windows
      PROVE  started[s][k2][t] <= started'[s][k2][t]
  <2>1. started[s][k2][t] \in Nat
    BY Indexed
  <2>2. started'[s][k2][t] \in {started[s][k2][t], started[s][k2][t] + 1}
    BY <1>4
  <2>3. QED
    BY <2>1, <2>2
<1>6. ASSUME NEW q \in Processes PROVE CheckPlaced(q)' /\ CheckBacked(q)'
  <2>1. CASE q = p
    BY <1>1, <1>2, <1>3, <2>1, LimiterAssumption DEF CheckPlaced, CheckBacked
  <2>2. CASE q # p
    <3>1. check'[q] = check[q] /\ CheckPlaced(q) /\ CheckBacked(q)
      BY <1>2, <2>2 DEF IInv, Counted
    <3>2. CheckBacked(q)'
      BY <1>1, <1>5, <3>1, Indexed, StillBacked DEF TypeOK
    <3>3. QED
      BY <1>1, <3>1, <3>2 DEF CheckPlaced
  <2>3. QED
    BY <2>1, <2>2
<1>7. ASSUME NEW q \in Processes, NEW k2 \in Keys PROVE OwnCounter(q, k2)'
  <2>1. q \in Stores /\ q # Shared
    BY <1>3, Indexed
  <2>2. QED
    BY <1>1, <1>4, <2>1, OwnKept
<1>8. ASSUME NEW k2 \in Keys, NEW t \in Windows PROVE RedisCounter(k2, t)'
  <2>1. CASE k2 = k /\ t = w
    <3>1. Stamped(k, w)' = Stamped(k, w) \cup {p} /\ p \notin Stamped(k, w)
      BY <1>1, <1>2 DEF Stamped
    <3>2. Cardinality(Stamped(k, w)') = Cardinality(Stamped(k, w)) + 1
      BY <3>1, StampedFinite, FS_AddElement
    <3>3. RedisCounter(k, w) /\ Cardinality(Stamped(k, w)) \in Nat
      BY <1>3, StampedFinite DEF IInv, Counted
    <3>4. counts[k][w] + Cardinality(Stamped(k, w)') <= started'[Shared][k][w]
      BY <1>3, <1>4, <3>2, <3>3, Indexed DEF RedisCounter
    <3>5. RedisCounter(k, w)'
      BY <1>1, <3>3, <3>4 DEF RedisCounter
    <3>6. QED
      BY <2>1, <3>5
  <2>2. CASE k2 # k \/ t # w
    <3>1. Stamped(k2, t)' \subseteq Stamped(k2, t)
      BY <1>2, <2>2 DEF Stamped
    <3>2. QED
      BY <1>1, <1>3, <1>4, <2>2, <3>1, RedisKept
  <2>3. QED
    BY <2>1, <2>2
<1>9. AdmittedWithinLimit'
  BY <1>1 DEF IInv, Counted, AdmittedWithinLimit
<1>10. CountersExpire'
  <2>1. \A q \in Processes : OwesExpiry(q) \subseteq OwesExpiry(q)'
    BY <1>1, <1>2 DEF OwesExpiry
  <2>2. QED
    BY <1>1, <2>1, ExpiryKept
<1>11. QED
  BY <1>6, <1>7, <1>8, <1>9, <1>10 DEF Counted

\* INCR keeps the counting straight: the check it counts was stamped, and the
\* position it gives out is the counter's new value.
LEMMA IncrCounted ==
  ASSUME IInv, TypeOK', NEW p \in Processes, Incr(p)
  PROVE  Counted'
<1>0. PICK k \in Keys, t \in Windows : k = check[p].key /\ t = check[p].window
  BY Indexed DEF Incr
<1>a. PICK count \in Nat : count = counts[k][t] + 1
  BY <1>0, Indexed
<1>1. /\ check[p].pc = "stamped" /\ backend[p] = Shared /\ Shared \in Stores
      /\ k \in Keys /\ t \in Windows /\ t \in Nat /\ count \in Nat /\ t <= Window(clock)
  BY <1>0, Indexed DEF Incr, IInv, Counted, CheckPlaced
<1>2. /\ counts' = [counts EXCEPT ![k][t] = count] /\ Grant(p, k, t, count)
      /\ UNCHANGED <<clock, redisUp, backend, ttl, own, started, orphaned>>
  BY <1>0, <1>a DEF Incr
<1>3. TypeOK
  BY DEF IInv
<1>4. /\ check'[p].key = k /\ check'[p].window = t /\ check'[p].count = count
      /\ check'[p].pc \in {"counted", "admitted", "rejected"}
      /\ count = 1 <=> check'[p].pc = "counted"
      /\ check'[p].pc = "rejected" => count > Limit[k]
      /\ \A q \in Processes : q # p => check'[q] = check[q]
  <2>1. CASE count = 1
    BY <1>0, <1>a, <1>1, <1>3, <2>1 DEF Incr, TypeOK
  <2>2. CASE count # 1
    <3>1. Verdict(p, k, t, count)
      BY <1>0, <1>a, <2>2 DEF Incr
    <3>2. QED
      BY <1>1, <1>3, <2>2, <3>1, VerdictTyped
  <2>3. QED
    BY <2>1, <2>2
<1>5. /\ counts'[k][t] = count
      /\ \A k2 \in Keys, t2 \in Windows : k2 # k \/ t2 # t => counts'[k2][t2] = counts[k2][t2]
  BY <1>1, <1>2, <1>3 DEF TypeOK
<1>6. /\ \A s \in Stores, k2 \in Keys, t2 \in Windows :
           s # Shared \/ k2 # k \/ t2 # t => granted'[s][k2][t2] = granted[s][k2][t2]
      /\ \/ granted'[Shared][k][t] = granted[Shared][k][t]
         \/ /\ granted'[Shared][k][t] = granted[Shared][k][t] + 1
            /\ count <= Limit[k] /\ t = Window(clock)
  BY <1>1, <1>2, <1>3, Granted
<1>7. /\ RedisCounter(k, t) /\ counts[k][t] \in Nat /\ granted[Shared][k][t] \in Nat
      /\ started[Shared][k][t] \in Nat /\ Limit[k] \in Nat
  BY <1>1, Indexed DEF IInv, Counted
<1>8. /\ Stamped(k, t)' = Stamped(k, t) \ {p} /\ p \in Stamped(k, t)
  BY <1>0, <1>1, <1>4 DEF Stamped
<1>9. /\ Cardinality(Stamped(k, t)) \in Nat /\ Cardinality(Stamped(k, t)') \in Nat
      /\ Cardinality(Stamped(k, t)') = Cardinality(Stamped(k, t)) - 1
  BY <1>8, StampedFinite, FS_RemoveElement, FS_CardinalityType
<1>10. count + Cardinality(Stamped(k, t)') <= started[Shared][k][t] /\ count = counts[k][t] + 1
  BY <1>a, <1>7, <1>9 DEF RedisCounter
<1>11. ASSUME NEW q \in Processes PROVE CheckPlaced(q)' /\ CheckBacked(q)'
  <2>1. CASE q = p
    <3>1. count <= started[Shared][k][t]
      BY <1>1, <1>7, <1>9, <1>10
    <3>2. CheckBacked(p)'
      BY <1>1, <1>2, <1>4, <3>1 DEF CheckBacked
    <3>3. CheckPlaced(p)'
      BY <1>1, <1>2, <1>4, LimiterAssumption DEF CheckPlaced
    <3>4. QED
      BY <2>1, <3>2, <3>3
  <2>2. CASE q # p
    BY <1>2, <1>4, <2>2 DEF IInv, Counted, CheckPlaced, CheckBacked
  <2>3. QED
    BY <2>1, <2>2
<1>12. ASSUME NEW q \in Processes, NEW k2 \in Keys PROVE OwnCounter(q, k2)'
  <2>1. q \in Stores /\ q # Shared
    BY Indexed, LimiterAssumption
  <2>2. QED
    BY <1>2, <1>6, <2>1, OwnKept
<1>13. ASSUME NEW k2 \in Keys, NEW t2 \in Windows PROVE RedisCounter(k2, t2)'
  <2>1. CASE k2 = k /\ t2 = t
    <3>1. t >= Window(clock) => granted'[Shared][k][t] <= count
      BY <1>6, <1>7, <1>10 DEF RedisCounter
    <3>2. RedisCounter(k, t)'
      BY <1>2, <1>5, <1>7, <1>10, <3>1 DEF RedisCounter
    <3>3. QED
      BY <2>1, <3>2
  <2>2. CASE k2 # k \/ t2 # t
    <3>1. Stamped(k2, t2)' \subseteq Stamped(k2, t2)
      BY <1>4, <2>2 DEF Stamped
    <3>2. QED
      BY <1>1, <1>2, <1>5, <1>6, <2>2, <3>1, RedisKept
  <2>3. QED
    BY <2>1, <2>2
<1>14. AdmittedWithinLimit'
  <2>1. granted[Shared][k][t] <= Limit[k]
    BY <1>1 DEF IInv, Counted, AdmittedWithinLimit
  <2>2. t = Window(clock) => granted[Shared][k][t] + 1 <= count
    BY <1>1, <1>7, <1>10 DEF RedisCounter
  <2>3. granted'[Shared][k][t] <= Limit[k]
    BY <1>1, <1>6, <1>7, <2>1, <2>2
  <2>4. QED
    BY <1>6, <2>3 DEF IInv, Counted, AdmittedWithinLimit
<1>15. CountersExpire'
  <2> SUFFICES ASSUME NEW k2 \in Keys, NEW t2 \in Windows, counts'[k2][t2] # 0
               PROVE  \/ ttl[k2][t2] # 0 \/ <<k2, t2>> \in orphaned
                      \/ \E q \in Processes : <<k2, t2>> \in OwesExpiry(q)'
    BY <1>2 DEF CountersExpire
  <2>1. CASE k2 = k /\ t2 = t /\ count = 1
    BY <1>4, <2>1 DEF OwesExpiry
  <2>2. CASE ~(k2 = k /\ t2 = t /\ count = 1)
    <3>1. counts[k2][t2] # 0
      BY <1>5, <1>7, <1>10, <2>2
    <3>2. \A q \in Processes : OwesExpiry(q) \subseteq OwesExpiry(q)'
      BY <1>1, <1>4 DEF OwesExpiry
    <3>3. QED
      BY <3>1, <3>2 DEF IInv, Counted, CountersExpire
  <2>3. QED
    BY <2>1, <2>2
<1>16. QED
  BY <1>11, <1>12, <1>13, <1>14, <1>15 DEF Counted
\* EXPIRE keeps the counting straight: the expiry it sets lies past the window,
\* however late it is sent.
LEMMA ExpireKeyCounted ==
  ASSUME IInv, TypeOK', NEW p \in Processes, ExpireKey(p)
  PROVE  Counted'
<1>0. PICK k \in Keys, t \in Windows, count \in Nat :
        k = check[p].key /\ t = check[p].window /\ count = check[p].count
  BY Indexed DEF ExpireKey
<1>1. /\ check[p].pc = "counted" /\ backend[p] = Shared /\ t \in Nat /\ t <= Window(clock)
      /\ count <= started[Shared][k][t]
  BY <1>0, Indexed DEF ExpireKey, IInv, Counted, CheckPlaced, CheckBacked
<1>2. /\ ttl' = [ttl EXCEPT ![k][t] = IF counts[k][t] = 0 THEN 0 ELSE clock + WindowTicks]
      /\ Verdict(p, k, t, count)
      /\ UNCHANGED <<clock, redisUp, backend, counts, own, started, granted, orphaned>>
  BY <1>0 DEF ExpireKey
<1>3. TypeOK
  BY DEF IInv
<1>4. /\ check'[p].key = k /\ check'[p].window = t /\ check'[p].count = count
      /\ check'[p].pc \in {"admitted", "rejected"} /\ (check'[p].pc = "rejected" => count > Limit[k])
      /\ \A q \in Processes : q # p => check'[q] = check[q]
  BY <1>2, <1>3, VerdictTyped
<1>5. /\ ttl'[k][t] = IF counts[k][t] = 0 THEN 0 ELSE clock + WindowTicks
      /\ \A k2 \in Keys, t2 \in Windows : k2 # k \/ t2 # t => ttl'[k2][t2] = ttl[k2][t2]
  BY <1>2, <1>3 DEF TypeOK
<1>6. clock \in Nat /\ WindowTicks \in Nat \ {0} /\ clock + WindowTicks >= t * WindowTicks + WindowTicks
  <2> DEFINE w == Window(clock)
  <2>1. clock \in Nat /\ WindowTicks \in Nat \ {0}
    BY <1>3, LimiterAssumption DEF TypeOK
  <2>2. w \in Nat /\ w * WindowTicks <= clock
    BY <2>1, InWindow
  <2>3. t <= w
    BY <1>1
  <2> HIDE DEF w
  <2>4. t * WindowTicks <= w * WindowTicks
    BY <1>1, <2>1, <2>2, <2>3
  <2>5. t * WindowTicks \in Nat /\ w * WindowTicks \in Nat
    BY <1>1, <2>1, <2>2
  <2>6. QED
    BY <2>1, <2>2, <2>4, <2>5
<1>7. ASSUME NEW q \in Processes PROVE CheckPlaced(q)' /\ CheckBacked(q)'
  <2>1. CASE q = p
    BY <1>1, <1>2, <1>4, <2>1, LimiterAssumption DEF CheckPlaced, CheckBacked
  <2>2. CASE q # p
    BY <1>2, <1>4, <2>2 DEF IInv, Counted, CheckPlaced, CheckBacked
  <2>3. QED
    BY <2>1, <2>2
<1>8. ASSUME NEW q \in Processes, NEW k2 \in Keys PROVE OwnCounter(q, k2)'
  BY <1>2, OwnKept
<1>9. ASSUME NEW k2 \in Keys, NEW t2 \in Windows PROVE RedisCounter(k2, t2)'
  <2>1. Stamped(k2, t2)' = Stamped(k2, t2)
    BY <1>1, <1>2, <1>4 DEF Stamped
  <2>2. RedisCounter(k2, t2)
    BY DEF IInv, Counted
  <2>3. ttl'[k2][t2] # 0 => ttl'[k2][t2] >= t2 * WindowTicks + WindowTicks
    BY <1>5, <1>6, <2>2 DEF RedisCounter
  <2>4. QED
    BY <1>2, <2>1, <2>2, <2>3 DEF RedisCounter
<1>10. AdmittedWithinLimit'
  BY <1>2 DEF IInv, Counted, AdmittedWithinLimit
<1>11. CountersExpire'
  <2>1. counts[k][t] # 0 => ttl'[k][t] # 0
    BY <1>5, <1>6
  <2>2. \A k2 \in Keys, t2 \in Windows : counts[k2][t2] # 0 /\ ttl[k2][t2] # 0 => ttl'[k2][t2] # 0
    BY <1>5, <2>1
  <2>3. ASSUME NEW q \in Processes, NEW k2 \in Keys, NEW t2 \in Windows,
               <<k2, t2>> \in OwesExpiry(q), counts[k2][t2] # 0
        PROVE  <<k2, t2>> \in OwesExpiry(q)' \/ ttl'[k2][t2] # 0
    <3>1. CASE q = p
      BY <1>0, <2>1, <2>3, <3>1 DEF OwesExpiry
    <3>2. CASE q # p
      BY <1>4, <2>3, <3>2 DEF OwesExpiry
    <3>3. QED
      BY <3>1, <3>2
  <2>4. QED
    BY <1>2, <2>2, <2>3, ExpiryKept
<1>12. QED
  BY <1>7, <1>8, <1>9, <1>10, <1>11 DEF Counted

\* A command that fails keeps the counting straight, and what is owed is recorded.
LEMMA CommandFailsCounted ==
  ASSUME IInv, TypeOK', NEW p \in Processes, CommandFails(p)
  PROVE  Counted'
<1>1. /\ check[p].pc \in {"stamped", "counted"} /\ check'[p].pc = "failed"
      /\ check'[p].key = check[p].key /\ check'[p].window = check[p].window
      /\ \A q \in Processes : q # p => check'[q] = check[q]
      /\ orphaned' = orphaned \cup OwesExpiry(p)
      /\ UNCHANGED <<clock, redisUp, backend, counts, ttl, own, started, granted>>
  BY DEF CommandFails, IInv, TypeOK
<1>2. \A q \in Processes : CheckPlaced(q)' /\ CheckBacked(q)'
  BY <1>1 DEF IInv, Counted, CheckPlaced, CheckBacked
<1>3. \A q \in Processes, k \in Keys : OwnCounter(q, k)'
  BY <1>1, OwnKept
<1>4. \A k \in Keys, t \in Windows : RedisCounter(k, t)'
  BY <1>1, RedisKept DEF Stamped
<1>5. AdmittedWithinLimit'
  BY <1>1 DEF IInv, Counted, AdmittedWithinLimit
<1>6. CountersExpire'
  <2>1. \A q \in Processes : OwesExpiry(q) \subseteq OwesExpiry(q)' \cup orphaned'
    BY <1>1 DEF OwesExpiry
  <2>2. QED
    BY <1>1, <2>1, ExpiryKept
<1>7. QED
  BY <1>2, <1>3, <1>4, <1>5, <1>6 DEF Counted

\* So does a response.
LEMMA LeaveCounted ==
  ASSUME IInv, TypeOK', NEW p \in Processes, Leave(p)
  PROVE  Counted'
<1>1. /\ check[p].pc \in {"admitted", "rejected", "failed"}
      /\ check'[p].pc = "idle" /\ check'[p].window = 0
      /\ \A q \in Processes : q # p => check'[q] = check[q]
      /\ UNCHANGED <<clock, redisUp, backend, counts, ttl, own, started, granted, orphaned>>
  BY DEF Leave, NoCheck, IInv, TypeOK
<1>2. Window(clock) \in Nat
  BY Indexed
<1>3. \A q \in Processes : CheckPlaced(q)' /\ CheckBacked(q)'
  BY <1>1, <1>2 DEF IInv, Counted, CheckPlaced, CheckBacked
<1>4. \A q \in Processes, k \in Keys : OwnCounter(q, k)'
  BY <1>1, OwnKept
<1>5. \A k \in Keys, t \in Windows : RedisCounter(k, t)'
  BY <1>1, RedisKept DEF Stamped
<1>6. AdmittedWithinLimit'
  BY <1>1 DEF IInv, Counted, AdmittedWithinLimit
<1>7. CountersExpire'
  <2>1. \A q \in Processes : OwesExpiry(q) \subseteq OwesExpiry(q)'
    BY <1>1 DEF OwesExpiry
  <2>2. QED
    BY <1>1, <2>1, ExpiryKept
<1>8. QED
  BY <1>3, <1>4, <1>5, <1>6, <1>7 DEF Counted

\* A restart loses the process's own counter together with what it granted.
LEMMA RestartCounted ==
  ASSUME IInv, TypeOK', NEW p \in Processes, Restart(p)
  PROVE  Counted'
<1>1. /\ backend'[p] = NoStore /\ \A q \in Processes : q # p => backend'[q] = backend[q]
      /\ check'[p].pc = "idle" /\ check'[p].window = 0
      /\ \A q \in Processes : q # p => check'[q] = check[q]
      /\ orphaned' = orphaned \cup OwesExpiry(p)
      /\ UNCHANGED <<clock, redisUp, counts, ttl>>
  BY DEF Restart, NoCheck, IInv, TypeOK
<1>2. /\ \A k \in Keys : own'[p][k].window = 0 /\ own'[p][k].count = 0
      /\ \A q \in Processes, k \in Keys : q # p => own'[q][k] = own[q][k]
  BY DEF Restart, IInv, TypeOK
<1>3. p \in Stores /\ p # Shared /\ Shared \in Stores /\ Window(clock) \in Nat /\ 0 \in Windows
  BY Indexed, InWindow, LimiterAssumption DEF Windows
<1>4. /\ \A k \in Keys, t \in Windows : started'[p][k][t] = 0 /\ granted'[p][k][t] = 0
      /\ \A s \in Stores : s # p => started'[s] = started[s] /\ granted'[s] = granted[s]
  BY <1>3 DEF Restart, Zero, IInv, TypeOK
<1>5. ASSUME NEW q \in Processes PROVE CheckPlaced(q)' /\ CheckBacked(q)'
  <2>1. CASE q = p
    BY <1>1, <1>3, <2>1 DEF CheckPlaced, CheckBacked
  <2>2. CASE q # p
    <3>1. check'[q] = check[q] /\ backend'[q] = backend[q] /\ CheckPlaced(q) /\ CheckBacked(q)
      BY <1>1, <2>2 DEF IInv, Counted
    <3>2. check[q].pc # "idle" => backend[q] \in Stores /\ backend[q] # p
      BY <2>2, <1>3, <3>1, Indexed DEF CheckPlaced
    <3>3. CheckBacked(q)'
      BY <1>4, <3>1, <3>2 DEF CheckBacked
    <3>4. QED
      BY <1>1, <3>1, <3>3 DEF CheckPlaced
  <2>3. QED
    BY <2>1, <2>2
<1>6. ASSUME NEW q \in Processes, NEW k \in Keys PROVE OwnCounter(q, k)'
  <2>1. CASE q = p
    BY <1>1, <1>2, <1>3, <1>4, <2>1 DEF OwnCounter
  <2>2. CASE q # p
    BY <1>1, <1>2, <1>4, <2>2, Indexed, OwnKept
  <2>3. QED
    BY <2>1, <2>2
<1>7. \A k \in Keys, t \in Windows : RedisCounter(k, t)'
  BY <1>1, <1>3, <1>4, RedisKept DEF Stamped
<1>8. AdmittedWithinLimit'
  BY <1>3, <1>4, Indexed DEF IInv, Counted, AdmittedWithinLimit
<1>9. CountersExpire'
  <2>1. \A q \in Processes : OwesExpiry(q) \subseteq OwesExpiry(q)' \cup orphaned'
    BY <1>1 DEF OwesExpiry
  <2>2. QED
    BY <1>1, <2>1, ExpiryKept
<1>10. QED
  BY <1>5, <1>6, <1>7, <1>8, <1>9 DEF Counted
\* Time passes: Redis drops no counter whose window the clock still shows.
LEMMA TickCounted ==
  ASSUME IInv, TypeOK', Tick
  PROVE  Counted'
<1> DEFINE Gone(k, t) == ttl[k][t] # 0 /\ ttl[k][t] <= clock'
<1>1. /\ clock \in Nat /\ clock' = clock + 1 /\ WindowTicks \in Nat \ {0}
      /\ \A k \in Keys, t \in Windows :
           /\ counts'[k][t] = IF Gone(k, t) THEN 0 ELSE counts[k][t]
           /\ ttl'[k][t] = IF Gone(k, t) THEN 0 ELSE ttl[k][t]
      /\ UNCHANGED <<redisUp, backend, own, check, started, granted, orphaned>>
  BY LimiterAssumption DEF Tick, IInv, TypeOK
<1>2. Window(clock) \in Nat /\ Window(clock') \in Nat /\ Window(clock) <= Window(clock')
  <2>1. clock' \in Nat /\ clock <= clock'
    BY <1>1
  <2>2. QED
    BY <1>1, <2>1, InWindow, WindowMonotonic
<1>3. ASSUME NEW q \in Processes PROVE CheckPlaced(q)' /\ CheckBacked(q)'
  <2>1. check[q].window \in Nat
    BY Indexed
  <2>2. QED
    BY <1>1, <1>2, <2>1 DEF IInv, Counted, CheckPlaced, CheckBacked, Window
<1>4. ASSUME NEW q \in Processes, NEW k \in Keys PROVE OwnCounter(q, k)'
  <2>1. OwnCounter(q, k) /\ own[q][k].window \in Nat
    BY Indexed DEF IInv, Counted
  <2>2. \A t \in Windows : t >= Window(clock') => t >= Window(clock)
    BY <1>2, Indexed
  <2>3. own[q][k].window <= Window(clock')
    BY <1>2, <2>1 DEF OwnCounter
  <2>4. QED
    BY <1>1, <2>1, <2>2, <2>3 DEF OwnCounter, Window
<1>5. ASSUME NEW k \in Keys, NEW t \in Windows PROVE RedisCounter(k, t)'
  <2>1. /\ RedisCounter(k, t) /\ t \in Nat /\ ttl[k][t] \in Nat /\ counts[k][t] \in Nat
        /\ started[Shared][k][t] \in Nat
    BY Indexed DEF IInv, Counted
  <2>2. Stamped(k, t)' = Stamped(k, t) /\ Cardinality(Stamped(k, t)) \in Nat
    <3>1. Stamped(k, t)' = Stamped(k, t)
      BY <1>1 DEF Stamped
    <3>2. QED
      BY <3>1, StampedFinite
  <2>3. counts'[k][t] + Cardinality(Stamped(k, t)) <= started[Shared][k][t]
    <3>1. counts'[k][t] \in {0, counts[k][t]}
      BY <1>1
    <3>2. QED
      BY <2>1, <2>2, <3>1 DEF RedisCounter
  <2>4. ttl'[k][t] # 0 => ttl'[k][t] >= t * WindowTicks + WindowTicks
    BY <1>1, <2>1 DEF RedisCounter
  <2>5. ASSUME t >= Window(clock') PROVE granted[Shared][k][t] <= counts'[k][t]
    <3> DEFINE w == Window(clock')
    <3>1. w \in Nat /\ clock' < w * WindowTicks + WindowTicks /\ w <= t
      BY <1>1, <2>1, <2>5, InWindow
    <3> HIDE DEF w
    <3>2. w * WindowTicks <= t * WindowTicks /\ w * WindowTicks \in Nat /\ t * WindowTicks \in Nat
      BY <1>1, <2>1, <3>1
    <3>3. ~Gone(k, t)
      BY <1>1, <2>1, <3>1, <3>2 DEF RedisCounter
    <3>4. t >= Window(clock)
      BY <1>2, <2>1, <2>5
    <3>5. QED
      BY <1>1, <2>1, <3>3, <3>4 DEF RedisCounter
  <2>6. QED
    BY <1>1, <2>2, <2>3, <2>4, <2>5 DEF RedisCounter, Window
<1>6. AdmittedWithinLimit'
  BY <1>1 DEF IInv, Counted, AdmittedWithinLimit
<1>7. CountersExpire'
  <2> HIDE DEF Gone
  <2> SUFFICES ASSUME NEW k \in Keys, NEW t \in Windows, counts'[k][t] # 0
               PROVE  \/ ttl'[k][t] # 0 \/ <<k, t>> \in orphaned
                      \/ \E p \in Processes : <<k, t>> \in OwesExpiry(p)
    <3>1. \A p \in Processes : OwesExpiry(p)' = OwesExpiry(p)
      BY <1>1 DEF OwesExpiry
    <3>2. orphaned' = orphaned
      BY <1>1
    <3>3. QED
      BY <3>1, <3>2 DEF CountersExpire
  <2>1. counts[k][t] # 0 /\ ttl'[k][t] = ttl[k][t]
    BY <1>1
  <2>2. QED
    BY <2>1 DEF IInv, Counted, CountersExpire
<1>8. QED
  BY <1>3, <1>4, <1>5, <1>6, <1>7 DEF Counted

\* A step that touches no counter, check or clock keeps the counting straight.
LEMMA StutterCounted ==
  ASSUME IInv, UNCHANGED <<clock, backend, counts, ttl, own, check, started, granted, orphaned>>
  PROVE  Counted'
<1>1. \A q \in Processes : CheckPlaced(q)' /\ CheckBacked(q)'
  BY DEF IInv, Counted, CheckPlaced, CheckBacked
<1>2. \A q \in Processes, k \in Keys : OwnCounter(q, k)'
  BY OwnKept
<1>3. \A k \in Keys, t \in Windows : RedisCounter(k, t)'
  BY RedisKept DEF Stamped
<1>4. AdmittedWithinLimit' /\ CountersExpire'
  BY DEF IInv, Counted, AdmittedWithinLimit, CountersExpire, OwesExpiry
<1>5. QED
  BY <1>1, <1>2, <1>3, <1>4 DEF Counted

\* Redis returns with its counters, or without them: then it counts, and grants,
\* from the beginning.
LEMMA RedisComesBackCounted ==
  ASSUME IInv, TypeOK', RedisComesBack
  PROVE  Counted'
<1>1. CASE UNCHANGED <<counts, ttl, granted, orphaned>>
  <2>1. UNCHANGED <<clock, backend, counts, ttl, own, check, started, granted, orphaned>>
    BY <1>1 DEF RedisComesBack
  <2>2. QED
    BY <2>1, StutterCounted
<1>2. ASSUME counts' = Zero, ttl' = Zero, granted' = [granted EXCEPT ![Shared] = Zero], orphaned' = {}
      PROVE  Counted'
  <2>1. UNCHANGED <<clock, backend, own, check, started>>
    BY DEF RedisComesBack
  <2>2. /\ \A k \in Keys, t \in Windows :
             counts'[k][t] = 0 /\ ttl'[k][t] = 0 /\ granted'[Shared][k][t] = 0
        /\ \A s \in Stores : s # Shared => granted'[s] = granted[s]
    BY <1>2, Indexed DEF Zero, IInv, TypeOK
  <2>3. \A q \in Processes : CheckPlaced(q)' /\ CheckBacked(q)'
    BY <2>1 DEF IInv, Counted, CheckPlaced, CheckBacked
  <2>4. \A q \in Processes, k \in Keys : OwnCounter(q, k)'
    BY <2>1, <2>2, Indexed, LimiterAssumption, OwnKept
  <2>5. ASSUME NEW k \in Keys, NEW t \in Windows PROVE RedisCounter(k, t)'
    <3>1. Stamped(k, t)' = Stamped(k, t) /\ Cardinality(Stamped(k, t)) \in Nat
      <4>1. Stamped(k, t)' = Stamped(k, t)
        BY <2>1 DEF Stamped
      <4>2. QED
        BY <4>1, StampedFinite
    <3>2. RedisCounter(k, t) /\ counts[k][t] \in Nat /\ started[Shared][k][t] \in Nat
      BY Indexed DEF IInv, Counted
    <3>3. QED
      BY <2>1, <2>2, <3>1, <3>2 DEF RedisCounter
  <2>6. AdmittedWithinLimit'
    BY <2>2, Indexed DEF IInv, Counted, AdmittedWithinLimit
  <2>7. CountersExpire'
    BY <2>2 DEF CountersExpire
  <2>8. QED
    BY <2>3, <2>4, <2>5, <2>6, <2>7 DEF Counted
<1>3. QED
  BY <1>1, <1>2 DEF RedisComesBack

-----------------------------------------------------------------------------
(* The theorems *)

\* Before the first request nothing is counted.
LEMMA InitCounted ==
  ASSUME Init
  PROVE  IInv
<1>1. /\ 0 \in Windows /\ 0 \in Nat /\ Window(clock) \in Nat
      /\ \A t \in Windows : t \in Nat
      /\ Zero \in [Keys -> [Windows -> Nat]]
      /\ Zero \in [Keys -> [Windows -> 0..(MaxClock + WindowTicks)]]
  BY LimiterAssumption, InWindow DEF Init, Windows, Zero
<1>2. TypeOK
  BY <1>1, LimiterAssumption DEF Init, TypeOK, Stores, Steps, NoCheck
<1>3. \A p \in Processes : CheckPlaced(p) /\ CheckBacked(p)
  BY <1>1 DEF Init, NoCheck, CheckPlaced, CheckBacked
<1>4. \A p \in Processes, k \in Keys : OwnCounter(p, k)
  BY <1>1 DEF Init, Zero, OwnCounter, Stores
<1>5. ASSUME NEW k \in Keys, NEW t \in Windows PROVE RedisCounter(k, t)
  <2>1. Stamped(k, t) = {}
    BY DEF Init, NoCheck, Stamped
  <2>2. Cardinality(Stamped(k, t)) = 0
    BY <2>1, FS_EmptySet
  <2>3. QED
    BY <2>2 DEF Init, Zero, RedisCounter, Stores
<1>6. AdmittedWithinLimit
  BY LimiterAssumption DEF Init, Zero, AdmittedWithinLimit
<1>7. CountersExpire
  BY DEF Init, Zero, CountersExpire
<1>8. QED
  BY <1>2, <1>3, <1>4, <1>5, <1>6, <1>7 DEF IInv, Counted

\* The counters, the checks and what was granted stay related.
THEOREM Inductive == Spec => []IInv
<1>1. IInv /\ [Next]_vars => IInv'
  <2> SUFFICES ASSUME IInv, [Next]_vars PROVE IInv'
    OBVIOUS
  <2>1. TypeOK'
    BY TypeStep DEF IInv, Counted
  <2>2. ASSUME NEW p \in Processes, NEW k \in Keys, CheckOwn(p, k) PROVE Counted'
    BY <2>1, <2>2, CheckOwnCounted
  <2>3. ASSUME NEW p \in Processes, NEW k \in Keys, Stamp(p, k) PROVE Counted'
    BY <2>1, <2>3, StampCounted
  <2>4. ASSUME NEW p \in Processes, Choose(p) PROVE Counted'
    BY <2>1, <2>4, ChooseCounted
  <2>5. ASSUME NEW p \in Processes, Incr(p) PROVE Counted'
    BY <2>1, <2>5, IncrCounted
  <2>6. ASSUME NEW p \in Processes, ExpireKey(p) PROVE Counted'
    BY <2>1, <2>6, ExpireKeyCounted
  <2>7. ASSUME NEW p \in Processes, CommandFails(p) PROVE Counted'
    BY <2>1, <2>7, CommandFailsCounted
  <2>8. ASSUME NEW p \in Processes, Leave(p) PROVE Counted'
    BY <2>1, <2>8, LeaveCounted
  <2>9. ASSUME NEW p \in Processes, Restart(p) PROVE Counted'
    BY <2>1, <2>9, RestartCounted
  <2>10. CASE Tick
    BY <2>1, <2>10, TickCounted DEF IInv
  <2>11. CASE RedisGoesDown
    BY <2>1, <2>11, StutterCounted DEF IInv, RedisGoesDown
  <2>12. CASE RedisComesBack
    BY <2>1, <2>12, RedisComesBackCounted DEF IInv
  <2>13. CASE UNCHANGED vars
    BY <2>1, <2>13, StutterCounted DEF IInv, vars
  <2>14. QED
    BY <2>1, <2>2, <2>3, <2>4, <2>5, <2>6, <2>7, <2>8, <2>9, <2>10, <2>11, <2>12, <2>13 DEF Next, IInv
<1>2. QED
  BY InitCounted, <1>1, PTL DEF Spec

\* Every reachable state of the limiter is well typed.
THEOREM TypeCorrect == Spec => []TypeOK
<1>1. IInv => TypeOK
  BY DEF IInv
<1>2. QED
  BY <1>1, Inductive, PTL

\* No store ever admits more than the limit of a key while a window lasts, in
\* any interleaving of the processes' Redis commands, with any failures of
\* Redis and any restarts (RedisRateLimiter.check, InMemoryRateLimiter.check).
THEOREM WithinLimit == Spec => []AdmittedWithinLimit
<1>1. IInv => AdmittedWithinLimit
  BY DEF IInv, Counted
<1>2. QED
  BY <1>1, Inductive, PTL

\* A rejected request has a full limit of requests of its key and window
\* before it.
THEOREM Deserved == Spec => []RejectionDeserved
<1>1. ASSUME IInv PROVE RejectionDeserved
  <2> SUFFICES ASSUME NEW p \in Processes, check[p].pc = "rejected"
               PROVE  started[backend[p]][check[p].key][check[p].window] > Limit[check[p].key]
    BY DEF RejectionDeserved
  <2>1. backend[p] \in Stores /\ check[p].key \in Keys
    BY <1>1, Indexed
  <2>2. check[p].window \in Windows /\ check[p].count \in Nat
    BY <1>1, Indexed
  <2> DEFINE before == started[backend[p]][check[p].key][check[p].window]
             limit == Limit[check[p].key]
  <2>3. before \in Nat /\ limit \in Nat
    BY <1>1, <2>1, <2>2, Indexed
  <2>4. check[p].count <= before /\ check[p].count > limit
    BY <1>1 DEF IInv, Counted, CheckBacked
  <2> HIDE DEF before, limit
  <2>5. before > limit
    BY <2>2, <2>3, <2>4
  <2>6. QED
    BY <2>5 DEF before, limit
<1>2. QED
  BY <1>1, Inductive, PTL

\* A Redis counter without an expiry is one whose creator is about to set it, or
\* failed between INCR and EXPIRE.
THEOREM Expiring == Spec => []CountersExpire
<1>1. IInv => CountersExpire
  BY DEF IInv, Counted
<1>2. QED
  BY <1>1, Inductive, PTL
=============================================================================
