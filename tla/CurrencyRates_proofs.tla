------------------------ MODULE CurrencyRates_proofs ------------------------
(***************************************************************************)
(* Proofs about CurrencyRates, for any number of threads and processes,    *)
(* any number of retries and any published days.                           *)
(*                                                                         *)
(* What a request delivers is decided steps after it was fetched or given  *)
(* up, so the invariant says what each step of a request knows: that a     *)
(* snapshot it is about to store was published, and that it falls back     *)
(* only when its attempts are used up.  Which store a request writes to is *)
(* fixed while the request lasts; without that, a worker between its two   *)
(* writes would not back the store it has written to.                      *)
(***************************************************************************)
EXTENDS CurrencyRates, TLAPS

\* What a request that has come this far may hold.
Sound(r) ==
  /\ r.pc \in {"idle", "asked", "fetching", "storing", "storing_copy"} => r.attempts < MaxRetries
  /\ r.pc = "falling_back" => r.attempts = MaxRetries
  /\ r.pc \in {"storing", "storing_copy"} => r.snapshot \in 1..published
  /\ r.pc # "done" => r.outcome = "none"
  /\ r.outcome \in {"rates", "converted"} =>
       r.snapshot \in 1..published /\ (r.marked = TRUE <=> r.attempts = MaxRetries)

\* A store holds what was published.
StoreSound(s) == fresh[s] <= published /\ stale[s] <= published

\* A request has a store, and a process uses Redis or its own.
Placed(w) == worker[w].pc # "idle" => StoreOf(w) # NoStore
ProcessPlaced(p) == backend[p] \in {NoStore, Shared, p}

IInv ==
  /\ TypeOK
  /\ \A s \in Stores : StoreSound(s)
  /\ \A p \in Processes : ProcessPlaced(p)
  /\ \A w \in Workers : Sound(worker[w]) /\ Placed(w)
  /\ FreshIsBacked

-----------------------------------------------------------------------------
(* One request *)

\* What the invariant says of one worker and its store, in their ranges.
LEMMA Ranges ==
  ASSUME IInv, NEW w \in Workers
  PROVE  /\ worker[w] \in Worker /\ Sound(worker[w]) /\ ProcessOf[w] \in Processes
         /\ worker[w].pc # "idle" => StoreOf(w) \in Stores
         /\ published \in 1..MaxDay
         /\ \A s \in Stores : /\ fresh[s] \in Snapshot /\ stale[s] \in Snapshot
                              /\ fresh[s] # 0 => fresh[s] \in 1..published
                              /\ stale[s] # 0 => stale[s] \in 1..published
<1>1. /\ worker[w] \in Worker /\ Sound(worker[w]) /\ ProcessOf[w] \in Processes
      /\ worker[w].pc # "idle" => StoreOf(w) \in Stores
  BY RatesAssumption DEF IInv, TypeOK, Placed, StoreOf
<1>2. published \in 1..MaxDay /\ published \in Nat /\ MaxDay \in Nat
  BY RatesAssumption DEF IInv, TypeOK
<1>3. ASSUME NEW s \in Stores
      PROVE  /\ fresh[s] \in Snapshot /\ stale[s] \in Snapshot
             /\ fresh[s] # 0 => fresh[s] \in 1..published
             /\ stale[s] # 0 => stale[s] \in 1..published
  <2>1. fresh[s] \in Snapshot /\ stale[s] \in Snapshot /\ fresh[s] <= published /\ stale[s] <= published
    BY DEF IInv, TypeOK, StoreSound
  <2>2. QED
    BY <1>2, <2>1 DEF Snapshot
<1>4. QED
  BY <1>1, <1>2, <1>3

\* A worker without a request is one, and holds nothing.
LEMMA IdleSound ==
  /\ IdleWorker \in Worker /\ IdleWorker.pc = "idle"
  /\ Sound(IdleWorker)
BY RatesAssumption DEF IdleWorker, Worker, Steps, Kinds, Outcomes, Snapshot, Sound

\* A step of one request that changes nothing else.
LEMMA QuietStep ==
  ASSUME IInv, NEW w \in Workers, NEW r \in Worker, worker' = [worker EXCEPT ![w] = r],
         Sound(r), worker[w].pc # "storing_copy", worker[w].pc # "idle",
         UNCHANGED <<published, redisUp, backend, fresh, stale, torn>>
  PROVE  IInv'
<1>1. /\ worker' \in [Workers -> Worker] /\ worker'[w] = r
      /\ \A v \in Workers : v # w => worker'[v] = worker[v]
  BY DEF IInv, TypeOK
<1>2. TypeOK'
  BY <1>1 DEF IInv, TypeOK
<1>3. \A s \in Stores : StoreSound(s)'
  BY DEF IInv, StoreSound
<1>4. \A p \in Processes : ProcessPlaced(p)'
  BY DEF IInv, ProcessPlaced
<1>5. \A v \in Workers : Sound(worker[v])' /\ Placed(v)'
  BY <1>1 DEF IInv, Sound, Placed, StoreOf
<1>6. FreshIsBacked'
  BY <1>1 DEF IInv, FreshIsBacked, StoreOf
<1>7. QED
  BY <1>2, <1>3, <1>4, <1>5, <1>6 DEF IInv

\* How a request ends.
LEMMA Finished ==
  ASSUME IInv, NEW w \in Workers, NEW outcome \in Outcomes, NEW snapshot \in Snapshot, NEW marked \in BOOLEAN,
         Finish(w, outcome, snapshot, marked),
         outcome \in {"rates", "converted"} =>
           snapshot \in 1..published /\ (marked = TRUE <=> worker[w].attempts = MaxRetries)
  PROVE  \E r \in Worker : /\ worker' = [worker EXCEPT ![w] = r] /\ r.pc = "done" /\ Sound(r)
<1> DEFINE r == [worker[w] EXCEPT !.pc = "done", !.outcome = outcome, !.snapshot = snapshot, !.marked = marked]
<1>1. worker' = [worker EXCEPT ![w] = r]
  BY DEF Finish, IInv, TypeOK
<1>2. /\ r \in Worker /\ r.pc = "done" /\ r.outcome = outcome /\ r.snapshot = snapshot
      /\ r.marked = marked /\ r.attempts = worker[w].attempts
  BY Ranges DEF Worker, Steps
<1> HIDE DEF r
<1>3. Sound(r)
  BY <1>2 DEF Sound
<1>4. QED
  BY <1>1, <1>2, <1>3

\* A snapshot that was published is delivered, marked when the attempts are used up.
LEMMA Delivering ==
  ASSUME IInv, NEW w \in Workers, NEW snapshot \in 1..published, NEW marked \in BOOLEAN,
         marked = TRUE <=> worker[w].attempts = MaxRetries, Deliver(w, snapshot, marked)
  PROVE  \E r \in Worker : /\ worker' = [worker EXCEPT ![w] = r] /\ r.pc = "done" /\ Sound(r)
<1>1. PICK outcome \in Outcomes : Finish(w, outcome, snapshot, marked)
  BY DEF Deliver, Outcomes
<1>2. snapshot \in Snapshot
  BY Ranges, RatesAssumption DEF Snapshot
<1>3. outcome \in {"rates", "converted"} =>
        snapshot \in 1..published /\ (marked = TRUE <=> worker[w].attempts = MaxRetries)
  OBVIOUS
<1>4. QED
  BY <1>1, <1>2, <1>3, Finished DEF Finish

\* A request that is refused or broken off delivers nothing.
LEMMA Refusing ==
  ASSUME IInv, NEW w \in Workers, Refuse(w) \/ Break(w)
  PROVE  \E r \in Worker : /\ worker' = [worker EXCEPT ![w] = r] /\ r.pc = "done" /\ Sound(r)
<1>1. PICK outcome \in {"unavailable", "native", "server_error"} : Finish(w, outcome, 0, FALSE)
  BY DEF Refuse, Break
<1>2. 0 \in Snapshot /\ outcome \in Outcomes
  BY RatesAssumption DEF Snapshot, Outcomes
<1>3. QED
  BY <1>1, <1>2, Finished
-----------------------------------------------------------------------------
(* Steps *)

\* A request arrives; the first one of its process chooses the store.
LEMMA AskStep ==
  ASSUME IInv, NEW w \in Workers, NEW kind \in Kinds, Ask(w, kind)
  PROVE  IInv'
<1>1. /\ worker[w].pc = "idle" /\ UNCHANGED <<published, redisUp, fresh, stale, torn>>
  BY DEF Ask
<1>2. PICK p \in Processes : p = ProcessOf[w]
  BY Ranges
<1>3. PICK store \in {Shared, p} :
        backend' = [backend EXCEPT ![p] = IF @ # NoStore THEN @ ELSE store]
  BY <1>2 DEF Ask
<1>4. store \in Stores /\ store # NoStore /\ Shared # NoStore /\ p # NoStore
  BY RatesAssumption DEF Stores
<1>5. PICK r \in Worker : /\ worker' = [worker EXCEPT ![w] = r] /\ r.pc = "asked"
                         /\ r.attempts = worker[w].attempts /\ r.outcome = worker[w].outcome
  <2> DEFINE r == [worker[w] EXCEPT !.pc = "asked", !.kind = kind]
  <2>1. worker' = [worker EXCEPT ![w] = r]
    BY DEF Ask, IInv, TypeOK
  <2>2. r \in Worker /\ r.pc = "asked" /\ r.attempts = worker[w].attempts /\ r.outcome = worker[w].outcome
    BY Ranges DEF Worker, Steps
  <2> HIDE DEF r
  <2>3. QED
    BY <2>1, <2>2
<1>6. /\ worker' \in [Workers -> Worker] /\ worker'[w] = r
      /\ \A v \in Workers : v # w => worker'[v] = worker[v]
  BY <1>1, <1>5 DEF IInv, TypeOK
<1>7. /\ backend' \in [Processes -> Stores \cup {NoStore}] /\ backend'[p] # NoStore
      /\ \A q \in Processes : backend[q] # NoStore \/ q # p => backend'[q] = backend[q]
      /\ backend'[p] \in {Shared, p}
  BY <1>3, <1>4 DEF IInv, TypeOK, ProcessPlaced
<1>8. TypeOK'
  BY <1>1, <1>6, <1>7 DEF IInv, TypeOK
<1>9. \A s \in Stores : StoreSound(s)'
  BY <1>1 DEF IInv, StoreSound
<1>10. \A q \in Processes : ProcessPlaced(q)'
  BY <1>7 DEF IInv, ProcessPlaced
<1>11. Sound(r)'
  <2>1. worker[w].attempts < MaxRetries /\ worker[w].outcome = "none"
    BY <1>1, Ranges DEF Sound
  <2>2. QED
    BY <1>5, <2>1 DEF Sound
<1>12. ASSUME NEW v \in Workers PROVE Sound(worker[v])' /\ Placed(v)'
  <2>1. CASE v = w
    BY <1>2, <1>6, <1>7, <1>11, <2>1 DEF Placed, StoreOf
  <2>2. CASE v # w
    <3>1. worker'[v] = worker[v] /\ Sound(worker[v]) /\ Placed(v) /\ ProcessOf[v] \in Processes
      BY <1>6, <2>2, Ranges DEF IInv
    <3>2. QED
      BY <1>1, <1>7, <3>1 DEF Sound, Placed, StoreOf
  <2>3. QED
    BY <2>1, <2>2
<1>13. FreshIsBacked'
  <2>1. ASSUME NEW s \in Stores, NEW v \in Workers, StoreOf(v) = s, worker[v].pc = "storing_copy"
        PROVE  StoreOf(v)' = s /\ worker'[v].pc = "storing_copy"
    <3>1. v # w /\ ProcessOf[v] \in Processes /\ backend[ProcessOf[v]] # NoStore
      BY <1>1, <2>1, Ranges DEF IInv, Placed, StoreOf
    <3>2. QED
      BY <1>6, <1>7, <2>1, <3>1 DEF StoreOf
  <2>2. QED
    BY <1>1, <2>1 DEF IInv, FreshIsBacked
<1>14. QED
  BY <1>8, <1>9, <1>10, <1>12, <1>13 DEF IInv

\* A request that ends without a write: a hit, a fallback.
LEMMA HitStep ==
  ASSUME IInv, NEW w \in Workers, Hit(w)
  PROVE  IInv'
<1>1. /\ worker[w].pc = "asked" /\ fresh[StoreOf(w)] # 0 /\ Deliver(w, fresh[StoreOf(w)], FALSE)
      /\ UNCHANGED <<published, redisUp, backend, fresh, stale, torn>>
  BY DEF Hit
<1>2. PICK snapshot \in 1..published : snapshot = fresh[StoreOf(w)]
  BY <1>1, Ranges
<1>3. worker[w].attempts # MaxRetries
  <2>1. worker[w].attempts \in 0..MaxRetries /\ worker[w].attempts < MaxRetries
    BY <1>1, Ranges DEF Sound, Worker
  <2>2. QED
    BY <2>1, RatesAssumption
<1>4. PICK r \in Worker : worker' = [worker EXCEPT ![w] = r] /\ Sound(r)
  BY <1>1, <1>2, <1>3, Delivering
<1>5. QED
  BY <1>1, <1>4, QuietStep

LEMMA FallBackStep ==
  ASSUME IInv, NEW w \in Workers, FallBack(w)
  PROVE  IInv'
<1>1. /\ worker[w].pc = "falling_back" /\ UNCHANGED <<published, redisUp, backend, fresh, stale, torn>>
      /\ IF stale[StoreOf(w)] # 0 THEN Deliver(w, stale[StoreOf(w)], TRUE) ELSE Refuse(w)
  BY DEF FallBack
<1>2. \E r \in Worker : worker' = [worker EXCEPT ![w] = r] /\ Sound(r)
  <2>1. CASE stale[StoreOf(w)] # 0
    <3>1. PICK snapshot \in 1..published : snapshot = stale[StoreOf(w)]
      BY <1>1, <2>1, Ranges
    <3>2. TRUE = TRUE <=> worker[w].attempts = MaxRetries
      BY <1>1, Ranges DEF Sound
    <3>3. QED
      BY <1>1, <2>1, <3>1, <3>2, Delivering
  <2>2. CASE stale[StoreOf(w)] = 0
    BY <1>1, <2>2, Refusing
  <2>3. QED
    BY <2>1, <2>2
<1>3. QED
  BY <1>1, <1>2, QuietStep

\* The live fetch: a miss, an answer of the source, a failed attempt.
LEMMA FetchStep ==
  ASSUME IInv, NEW w \in Workers, Miss(w) \/ FetchSucceeds(w) \/ FetchFails(w)
  PROVE  IInv'
<1>1. UNCHANGED <<published, redisUp, backend, fresh, stale, torn>>
  BY DEF Miss, FetchSucceeds, FetchFails
<1>2. /\ worker[w] \in Worker /\ Sound(worker[w]) /\ published \in 1..MaxDay
      /\ worker[w].attempts \in 0..MaxRetries /\ MaxRetries \in Nat \ {0}
  BY Ranges, RatesAssumption DEF Worker
<1>3. \E r \in Worker : /\ worker' = [worker EXCEPT ![w] = r] /\ Sound(r)
                        /\ worker[w].pc \in {"asked", "fetching"}
  <2>1. CASE Miss(w)
    <3> DEFINE r == [worker[w] EXCEPT !.pc = "fetching"]
    <3>1. worker' = [worker EXCEPT ![w] = r] /\ worker[w].pc = "asked"
      BY <2>1 DEF Miss, IInv, TypeOK
    <3>2. /\ r \in Worker /\ r.pc = "fetching" /\ r.attempts = worker[w].attempts
          /\ r.outcome = worker[w].outcome
      BY <1>2 DEF Worker, Steps
    <3> HIDE DEF r
    <3>3. QED
      BY <1>2, <3>1, <3>2 DEF Sound
  <2>2. CASE FetchSucceeds(w)
    <3> DEFINE r == [worker[w] EXCEPT !.pc = "storing", !.snapshot = published]
    <3>1. worker' = [worker EXCEPT ![w] = r] /\ worker[w].pc = "fetching"
      BY <2>2 DEF FetchSucceeds, IInv, TypeOK
    <3>2. /\ r \in Worker /\ r.pc = "storing" /\ r.attempts = worker[w].attempts
          /\ r.outcome = worker[w].outcome /\ r.snapshot = published
      <4>1. published \in Snapshot
        BY <1>2, RatesAssumption DEF Snapshot
      <4>2. QED
        BY <1>2, <4>1 DEF Worker, Steps
    <3> HIDE DEF r
    <3>3. r.snapshot \in 1..published
      BY <1>2, <3>2, RatesAssumption
    <3>4. QED
      BY <1>2, <3>1, <3>2, <3>3 DEF Sound
  <2>3. CASE FetchFails(w)
    <3>1. PICK n \in 1..MaxRetries, pc \in {"falling_back", "fetching"} :
            /\ worker' = [worker EXCEPT ![w].attempts = n, ![w].pc = pc]
            /\ worker[w].pc = "fetching"
            /\ pc = "falling_back" <=> n = MaxRetries
      <4>1. worker[w].pc = "fetching" /\ worker[w].attempts + 1 \in 1..MaxRetries
        BY <1>2, <2>3 DEF FetchFails, Sound
      <4> DEFINE n == worker[w].attempts + 1
                 pc == IF n = MaxRetries THEN "falling_back" ELSE "fetching"
      <4>2. worker' = [worker EXCEPT ![w].attempts = n, ![w].pc = pc]
        BY <2>3 DEF FetchFails, IInv, TypeOK
      <4>3. QED
        BY <4>1, <4>2
    <3> DEFINE r == [worker[w] EXCEPT !.attempts = n, !.pc = pc]
    <3>2. worker' = [worker EXCEPT ![w] = r]
      BY <3>1 DEF IInv, TypeOK
    <3>3. /\ r \in Worker /\ r.pc = pc /\ r.attempts = n
          /\ r.outcome = worker[w].outcome
      <4>1. n \in 0..MaxRetries /\ pc \in Steps
        BY <1>2 DEF Steps
      <4>2. QED
        BY <1>2, <4>1 DEF Worker
    <3> HIDE DEF r
    <3>4. Sound(r)
      BY <1>2, <3>1, <3>3 DEF Sound
    <3>5. QED
      BY <3>1, <3>2, <3>3, <3>4
  <2>4. QED
    BY <2>1, <2>2, <2>3
<1>4. QED
  BY <1>1, <1>3, QuietStep
\* The first of the two writes: the store is fresh, and its writer owes the copy.
LEMMA StoreFreshStep ==
  ASSUME IInv, NEW w \in Workers, StoreFresh(w)
  PROVE  IInv'
<1>1. /\ worker[w].pc = "storing" /\ UNCHANGED <<published, redisUp, backend, stale, torn>>
      /\ fresh' = [fresh EXCEPT ![StoreOf(w)] = worker[w].snapshot]
  BY DEF StoreFresh
<1>2. PICK store \in Stores : store = StoreOf(w)
  BY <1>1, Ranges
<1>3. worker[w].snapshot \in 1..published /\ worker[w].snapshot \in Snapshot /\ worker[w] \in Worker
  BY <1>1, Ranges DEF Sound, Worker
<1>4. PICK r \in Worker : /\ worker' = [worker EXCEPT ![w] = r] /\ r.pc = "storing_copy"
                         /\ r.attempts = worker[w].attempts /\ r.outcome = worker[w].outcome
                         /\ r.snapshot = worker[w].snapshot
  <2> DEFINE r == [worker[w] EXCEPT !.pc = "storing_copy"]
  <2>1. worker' = [worker EXCEPT ![w] = r]
    BY DEF StoreFresh, IInv, TypeOK
  <2>2. /\ r \in Worker /\ r.pc = "storing_copy" /\ r.attempts = worker[w].attempts
        /\ r.outcome = worker[w].outcome /\ r.snapshot = worker[w].snapshot
    BY <1>3 DEF Worker, Steps
  <2> HIDE DEF r
  <2>3. QED
    BY <2>1, <2>2
<1>5. /\ worker' \in [Workers -> Worker] /\ worker'[w] = r
      /\ \A v \in Workers : v # w => worker'[v] = worker[v]
  BY <1>4 DEF IInv, TypeOK
<1>6. /\ fresh' \in [Stores -> Snapshot] /\ fresh'[store] = worker[w].snapshot
      /\ \A s \in Stores : s # store => fresh'[s] = fresh[s]
  BY <1>1, <1>2, <1>3 DEF IInv, TypeOK
<1>7. TypeOK'
  BY <1>1, <1>5, <1>6 DEF IInv, TypeOK
<1>8. \A s \in Stores : StoreSound(s)'
  BY <1>1, <1>3, <1>6 DEF IInv, StoreSound
<1>9. \A p \in Processes : ProcessPlaced(p)'
  BY <1>1 DEF IInv, ProcessPlaced
<1>10. Sound(r)
  BY <1>1, <1>3, <1>4, Ranges DEF Sound
<1>11. ASSUME NEW v \in Workers PROVE Sound(worker[v])' /\ Placed(v)'
  <2>1. StoreOf(v)' = StoreOf(v) /\ published' = published
    BY <1>1 DEF StoreOf
  <2>2. CASE v = w
    BY <1>1, <1>5, <1>10, <2>1, <2>2 DEF IInv, Sound, Placed
  <2>3. CASE v # w
    BY <1>5, <2>1, <2>3 DEF IInv, Sound, Placed
  <2>4. QED
    BY <2>2, <2>3
<1>12. FreshIsBacked'
  <2>1. \A v \in Workers : StoreOf(v)' = StoreOf(v) /\ (worker[v].pc = "storing_copy" => worker'[v].pc = "storing_copy")
    BY <1>1, <1>4, <1>5 DEF StoreOf
  <2>2. StoreOf(w)' = store /\ worker'[w].pc = "storing_copy"
    BY <1>2, <1>4, <1>5, <2>1
  <2>3. QED
    BY <1>1, <1>6, <2>1, <2>2 DEF IInv, FreshIsBacked
<1>13. QED
  BY <1>7, <1>8, <1>9, <1>11, <1>12 DEF IInv

\* The second write: the store has a copy of what was published, for all its readers.
LEMMA StoreCopyStep ==
  ASSUME IInv, NEW w \in Workers, StoreCopy(w)
  PROVE  IInv'
<1>1. /\ worker[w].pc = "storing_copy" /\ UNCHANGED <<published, redisUp, backend, fresh, torn>>
      /\ stale' = [stale EXCEPT ![StoreOf(w)] = worker[w].snapshot]
      /\ Deliver(w, worker[w].snapshot, FALSE)
  BY DEF StoreCopy
<1>2. PICK store \in Stores : store = StoreOf(w)
  BY <1>1, Ranges
<1>3. PICK snapshot \in 1..published : snapshot = worker[w].snapshot /\ snapshot \in Snapshot
  BY <1>1, Ranges DEF Sound, Worker
<1>4. worker[w].attempts # MaxRetries
  <2>1. worker[w].attempts \in 0..MaxRetries /\ worker[w].attempts < MaxRetries
    BY <1>1, Ranges DEF Sound, Worker
  <2>2. QED
    BY <2>1, RatesAssumption
<1>5. PICK r \in Worker : worker' = [worker EXCEPT ![w] = r] /\ Sound(r)
  BY <1>1, <1>3, <1>4, Delivering
<1>6. /\ worker' \in [Workers -> Worker] /\ worker'[w] = r
      /\ \A v \in Workers : v # w => worker'[v] = worker[v]
  BY <1>5 DEF IInv, TypeOK
<1>7. /\ stale' \in [Stores -> Snapshot] /\ stale'[store] = snapshot /\ snapshot # 0
      /\ \A s \in Stores : s # store => stale'[s] = stale[s]
  BY <1>1, <1>2, <1>3 DEF IInv, TypeOK
<1>8. TypeOK'
  BY <1>1, <1>6, <1>7 DEF IInv, TypeOK
<1>9. \A s \in Stores : StoreSound(s)'
  BY <1>1, <1>3, <1>7 DEF IInv, StoreSound
<1>10. \A p \in Processes : ProcessPlaced(p)'
  BY <1>1 DEF IInv, ProcessPlaced
<1>11. ASSUME NEW v \in Workers PROVE Sound(worker[v])' /\ Placed(v)'
  <2>1. StoreOf(v)' = StoreOf(v) /\ published' = published
    BY <1>1 DEF StoreOf
  <2>2. CASE v = w
    BY <1>1, <1>5, <1>6, <2>1, <2>2 DEF IInv, Sound, Placed
  <2>3. CASE v # w
    BY <1>6, <2>1, <2>3 DEF IInv, Sound, Placed
  <2>4. QED
    BY <2>2, <2>3
<1>12. FreshIsBacked'
  <2>1. \A v \in Workers : StoreOf(v)' = StoreOf(v)
    BY <1>1 DEF StoreOf
  <2>2. \A v \in Workers : worker[v].pc = "storing_copy" /\ StoreOf(v) # store => worker'[v].pc = "storing_copy"
    BY <1>2, <1>6
  <2>3. QED
    BY <1>1, <1>7, <2>1, <2>2 DEF IInv, FreshIsBacked
<1>13. QED
  BY <1>8, <1>9, <1>10, <1>11, <1>12 DEF IInv

\* A Redis command raises; a writer that was between its two writes leaves the
\* store torn.
LEMMA RedisCommandFailsStep ==
  ASSUME IInv, NEW w \in Workers, RedisCommandFails(w)
  PROVE  IInv'
<1>1. /\ worker[w].pc \in {"asked", "storing", "storing_copy", "falling_back"} /\ Break(w)
      /\ torn' = [torn EXCEPT ![StoreOf(w)] = @ \/ worker[w].pc = "storing_copy"]
      /\ UNCHANGED <<published, redisUp, backend, fresh, stale>>
  BY DEF RedisCommandFails
<1>2. PICK store \in Stores : store = StoreOf(w)
  BY <1>1, Ranges
<1>3. PICK r \in Worker : worker' = [worker EXCEPT ![w] = r] /\ Sound(r)
  BY <1>1, Refusing
<1>4. /\ worker' \in [Workers -> Worker] /\ worker'[w] = r
      /\ \A v \in Workers : v # w => worker'[v] = worker[v]
  BY <1>3 DEF IInv, TypeOK
<1>5. /\ torn' \in [Stores -> BOOLEAN] /\ \A s \in Stores : torn[s] => torn'[s]
      /\ worker[w].pc = "storing_copy" => torn'[store]
  <2>1. torn \in [Stores -> BOOLEAN]
    BY DEF IInv, TypeOK
  <2>2. torn' = [torn EXCEPT ![store] = @ \/ worker[w].pc = "storing_copy"]
    BY <1>1, <1>2
  <2>3. QED
    BY <2>1, <2>2
<1>6. TypeOK'
  BY <1>1, <1>4, <1>5 DEF IInv, TypeOK
<1>7. \A s \in Stores : StoreSound(s)'
  BY <1>1 DEF IInv, StoreSound
<1>8. \A p \in Processes : ProcessPlaced(p)'
  BY <1>1 DEF IInv, ProcessPlaced
<1>9. ASSUME NEW v \in Workers PROVE Sound(worker[v])' /\ Placed(v)'
  <2>1. StoreOf(v)' = StoreOf(v) /\ published' = published
    BY <1>1 DEF StoreOf
  <2>2. CASE v = w
    BY <1>1, <1>3, <1>4, <2>1, <2>2 DEF IInv, Sound, Placed
  <2>3. CASE v # w
    BY <1>4, <2>1, <2>3 DEF IInv, Sound, Placed
  <2>4. QED
    BY <2>2, <2>3
<1>10. FreshIsBacked'
  <2>1. \A v \in Workers : StoreOf(v)' = StoreOf(v) /\ (v # w => worker'[v] = worker[v])
    BY <1>1, <1>4 DEF StoreOf
  <2>2. ASSUME NEW s \in Stores, fresh[s] # 0, stale[s] = 0, ~torn'[s]
        PROVE  \E v \in Workers : StoreOf(v)' = s /\ worker'[v].pc = "storing_copy"
    <3>1. ~torn[s]
      BY <1>5, <2>2
    <3>2. PICK v \in Workers : StoreOf(v) = s /\ worker[v].pc = "storing_copy"
      BY <2>2, <3>1 DEF IInv, FreshIsBacked
    <3>3. v # w
      BY <1>2, <1>5, <2>2, <3>2
    <3>4. QED
      BY <2>1, <3>2, <3>3
  <2>3. QED
    BY <1>1, <2>2 DEF FreshIsBacked
<1>11. QED
  BY <1>6, <1>7, <1>8, <1>9, <1>10 DEF IInv
\* The answer leaves the server.
LEMMA AnsweredStep ==
  ASSUME IInv, NEW w \in Workers, Answered(w)
  PROVE  IInv'
<1>1. /\ worker[w].pc = "done" /\ worker' = [worker EXCEPT ![w] = IdleWorker]
      /\ UNCHANGED <<published, redisUp, backend, fresh, stale, torn>>
  BY DEF Answered
<1>2. QED
  BY <1>1, IdleSound, QuietStep

\* A process is replaced: a writer that was between its two writes leaves Redis
\* torn, and the process's own store is gone with what it lacked.
LEMMA RestartStep ==
  ASSUME IInv, NEW p \in Processes, Restart(p)
  PROVE  IInv'
<1>1. /\ backend' = [backend EXCEPT ![p] = NoStore]
      /\ worker' = [w \in Workers |-> IF ProcessOf[w] = p THEN IdleWorker ELSE worker[w]]
      /\ fresh' = [fresh EXCEPT ![p] = 0]
      /\ stale' = [stale EXCEPT ![p] = 0]
      /\ UNCHANGED <<published, redisUp>>
  BY DEF Restart
<1>2. /\ p \in Stores /\ 0 \in Snapshot /\ 0 <= published
      /\ NoStore \notin Stores
  BY RatesAssumption DEF Stores, Snapshot, IInv, TypeOK
<1>3. /\ worker' \in [Workers -> Worker]
      /\ \A w \in Workers : worker'[w] = IF ProcessOf[w] = p THEN IdleWorker ELSE worker[w]
  BY <1>1, IdleSound DEF IInv, TypeOK
<1>4. /\ backend' \in [Processes -> Stores \cup {NoStore}] /\ backend'[p] = NoStore
      /\ \A q \in Processes : q # p => backend'[q] = backend[q]
  BY <1>1 DEF IInv, TypeOK
<1>5. /\ fresh' \in [Stores -> Snapshot] /\ fresh'[p] = 0 /\ stale' \in [Stores -> Snapshot] /\ stale'[p] = 0
      /\ \A s \in Stores : s # p => fresh'[s] = fresh[s] /\ stale'[s] = stale[s]
  BY <1>1, <1>2 DEF IInv, TypeOK
<1>6. torn' \in [Stores -> BOOLEAN]
  BY Zenon DEF Restart
<1>7. \A s \in Stores :
        /\ s # p
        /\ torn[s] \/ \E w \in Workers : ProcessOf[w] = p /\ StoreOf(w) = s /\ worker[w].pc = "storing_copy"
        => torn'[s]
  BY Zenon DEF Restart
<1>8. TypeOK'
  BY <1>1, <1>3, <1>4, <1>5, <1>6 DEF IInv, TypeOK
<1>9. \A s \in Stores : StoreSound(s)'
  BY <1>1, <1>2, <1>5 DEF IInv, StoreSound
<1>10. \A q \in Processes : ProcessPlaced(q)'
  BY <1>4 DEF IInv, ProcessPlaced
<1>11. ASSUME NEW w \in Workers PROVE Sound(worker[w])' /\ Placed(w)'
  <2>1. CASE ProcessOf[w] = p
    BY <1>1, <1>3, <2>1, IdleSound DEF Sound, Placed
  <2>2. CASE ProcessOf[w] # p
    <3>1. worker'[w] = worker[w] /\ StoreOf(w)' = StoreOf(w) /\ published' = published
      BY <1>1, <1>3, <1>4, <2>2, RatesAssumption DEF StoreOf
    <3>2. QED
      BY <3>1 DEF IInv, Sound, Placed
  <2>3. QED
    BY <2>1, <2>2
<1>12. FreshIsBacked'
  <2>1. ASSUME NEW s \in Stores, fresh'[s] # 0, stale'[s] = 0, ~torn'[s]
        PROVE  \E w \in Workers : StoreOf(w)' = s /\ worker'[w].pc = "storing_copy"
    <3>1. s # p /\ fresh[s] # 0 /\ stale[s] = 0
      BY <1>5, <2>1
    <3>2. ~torn[s]
      BY <1>7, <2>1, <3>1
    <3>3. PICK w \in Workers : StoreOf(w) = s /\ worker[w].pc = "storing_copy"
      BY <3>1, <3>2 DEF IInv, FreshIsBacked
    <3>4. ProcessOf[w] # p
      BY <1>7, <2>1, <3>1, <3>3
    <3>5. worker'[w] = worker[w] /\ StoreOf(w)' = StoreOf(w)
      BY <1>3, <1>4, <3>4, RatesAssumption DEF StoreOf
    <3>6. QED
      BY <3>3, <3>5
  <2>2. QED
    BY <2>1 DEF FreshIsBacked
<1>13. QED
  BY <1>8, <1>9, <1>10, <1>11, <1>12 DEF IInv

\* A step of the surroundings: the stores may lose what they hold, together with
\* being torn, and the source may publish.
LEMMA SurroundingsStep ==
  ASSUME IInv, published' \in published..MaxDay, redisUp' \in BOOLEAN, UNCHANGED <<backend, worker>>,
         fresh' \in [Stores -> Snapshot], stale' \in [Stores -> Snapshot], torn' \in [Stores -> BOOLEAN],
         \A s \in Stores : /\ fresh'[s] \in {0, fresh[s]} /\ stale'[s] \in {0, stale[s]}
                           /\ \/ stale'[s] = stale[s] /\ torn'[s] = torn[s]
                              \/ fresh'[s] = 0
  PROVE  IInv'
<1>1. published \in 1..MaxDay /\ published' \in 1..MaxDay /\ published <= published' /\ MaxDay \in Nat
  BY RatesAssumption DEF IInv, TypeOK
<1>2. TypeOK'
  BY <1>1 DEF IInv, TypeOK
<1>3. ASSUME NEW s \in Stores PROVE StoreSound(s)'
  <2>1. fresh[s] \in Snapshot /\ stale[s] \in Snapshot /\ fresh[s] <= published /\ stale[s] <= published
    BY DEF IInv, TypeOK, StoreSound
  <2>2. fresh'[s] \in {0, fresh[s]} /\ stale'[s] \in {0, stale[s]}
    OBVIOUS
  <2>3. fresh'[s] <= published' /\ stale'[s] <= published'
    BY <1>1, <2>1, <2>2 DEF Snapshot
  <2>4. QED
    BY <2>3 DEF StoreSound
<1>4. \A p \in Processes : ProcessPlaced(p)'
  BY DEF IInv, ProcessPlaced
<1>5. ASSUME NEW w \in Workers PROVE Sound(worker[w])' /\ Placed(w)'
  <2>1. \A day \in 1..published : day \in 1..published'
    BY <1>1
  <2>2. Sound(worker[w]) /\ Placed(w)
    BY DEF IInv
  <2>3. QED
    BY <2>1, <2>2 DEF Sound, Placed, StoreOf
<1>6. FreshIsBacked'
  BY DEF IInv, FreshIsBacked, StoreOf
<1>7. QED
  BY <1>2, <1>3, <1>4, <1>5, <1>6 DEF IInv

-----------------------------------------------------------------------------
(* The theorems *)

\* Before the first request nothing is stored or asked.
LEMMA InitSound ==
  ASSUME Init
  PROVE  IInv
<1>1. 0 \in Snapshot /\ 1 \in 1..MaxDay
  BY RatesAssumption DEF Snapshot
<1>2. TypeOK
  BY <1>1, IdleSound DEF Init, TypeOK
<1>3. \A w \in Workers : Sound(worker[w]) /\ Placed(w)
  BY IdleSound DEF Init, Placed
<1>4. (\A s \in Stores : StoreSound(s)) /\ (\A p \in Processes : ProcessPlaced(p)) /\ FreshIsBacked
  BY DEF Init, StoreSound, ProcessPlaced, FreshIsBacked
<1>5. QED
  BY <1>2, <1>3, <1>4 DEF IInv

\* Every step keeps what requests and stores hold sound.
LEMMA StepSound ==
  ASSUME IInv, [Next]_vars
  PROVE  IInv'
<1>1. /\ published \in published..MaxDay /\ fresh \in [Stores -> Snapshot] /\ stale \in [Stores -> Snapshot]
      /\ torn \in [Stores -> BOOLEAN] /\ redisUp \in BOOLEAN /\ 0 \in Snapshot
  BY RatesAssumption DEF IInv, TypeOK, Snapshot
<1>2. ASSUME NEW w \in Workers, NEW kind \in Kinds, Ask(w, kind) PROVE IInv'
  BY <1>2, AskStep
<1>3. ASSUME NEW w \in Workers, Serve(w) PROVE IInv'
  BY <1>3, HitStep, FallBackStep, FetchStep, StoreFreshStep, StoreCopyStep, RedisCommandFailsStep,
     AnsweredStep DEF Serve
<1>4. ASSUME NEW p \in Processes, Restart(p) PROVE IInv'
  BY <1>4, RestartStep
<1>5. ASSUME NEW s \in Stores, Expire(s) PROVE IInv'
  <2>1. /\ fresh' = [fresh EXCEPT ![s] = 0]
        /\ UNCHANGED <<published, redisUp, backend, stale, torn, worker>>
    BY <1>5 DEF Expire
  <2>2. fresh' \in [Stores -> Snapshot] /\ \A z \in Stores : fresh'[z] = IF z = s THEN 0 ELSE fresh[z]
    BY <1>1, <2>1
  <2>3. QED
    BY <1>1, <2>1, <2>2, SurroundingsStep
<1>6. CASE Publish
  <2>1. /\ published' \in published..MaxDay
        /\ UNCHANGED <<redisUp, backend, fresh, stale, torn, worker>>
    BY <1>6, RatesAssumption DEF Publish, IInv, TypeOK
  <2>2. QED
    BY <1>1, <2>1, SurroundingsStep
<1>7. CASE RedisGoesDown
  BY <1>1, <1>7, SurroundingsStep DEF RedisGoesDown
<1>8. CASE RedisComesBack
  <2>1. redisUp' = TRUE /\ UNCHANGED <<published, backend, worker>>
    BY <1>8 DEF RedisComesBack
  <2>2. CASE UNCHANGED <<fresh, stale, torn>>
    BY <1>1, <2>1, <2>2, SurroundingsStep
  <2>3. CASE /\ fresh' = [fresh EXCEPT ![Shared] = 0]
             /\ stale' = [stale EXCEPT ![Shared] = 0]
             /\ torn' = [torn EXCEPT ![Shared] = FALSE]
    <3>1. /\ fresh' \in [Stores -> Snapshot] /\ stale' \in [Stores -> Snapshot] /\ torn' \in [Stores -> BOOLEAN]
          /\ \A s \in Stores : s # Shared => fresh'[s] = fresh[s] /\ stale'[s] = stale[s] /\ torn'[s] = torn[s]
      BY <1>1, <2>3
    <3>2. fresh'[Shared] = 0 /\ stale'[Shared] = 0
      BY <1>1, <2>3 DEF Stores
    <3>3. QED
      BY <1>1, <2>1, <3>1, <3>2, SurroundingsStep
  <2>4. QED
    BY <1>8, <2>2, <2>3 DEF RedisComesBack
<1>9. CASE UNCHANGED vars
  BY <1>1, <1>9, SurroundingsStep DEF vars
<1>10. QED
  BY <1>2, <1>3, <1>4, <1>5, <1>6, <1>7, <1>8, <1>9 DEF Next

\* What requests and stores hold is always sound.
THEOREM Inductive == Spec => []IInv
BY InitSound, StepSound, PTL DEF Spec

\* Every reachable state of the rates is well typed.
THEOREM TypeCorrect == Spec => []TypeOK
<1>1. IInv => TypeOK
  BY DEF IInv
<1>2. QED
  BY <1>1, Inductive, PTL

\* No rate is served that the source did not publish, and a marked one follows
\* as many failed attempts as the client makes (get_rates).
THEOREM Published == Spec => []NeverFabricated
<1>1. ASSUME IInv, NEW w \in Workers, Delivered(w)
      PROVE  worker[w].snapshot \in 1..published /\ (worker[w].marked <=> worker[w].attempts = MaxRetries)
  <2>1. /\ worker[w].snapshot \in 1..published
        /\ worker[w].marked = TRUE <=> worker[w].attempts = MaxRetries
    BY <1>1 DEF IInv, Sound, Delivered
  <2>2. worker[w].marked \in BOOLEAN
    BY <1>1 DEF IInv, TypeOK, Worker
  <2>3. QED
    BY <2>1, <2>2
<1>2. IInv => NeverFabricated
  BY <1>1 DEF NeverFabricated
<1>3. QED
  BY <1>2, Inductive, PTL

\* What a request can hit has a copy that does not expire, unless its writer has
\* not written it yet or died (CurrencyRateCache.set, get_stale).
THEOREM Backed == Spec => []FreshIsBacked
<1>1. IInv => FreshIsBacked
  BY DEF IInv
<1>2. QED
  BY <1>1, Inductive, PTL

\* Only the loss of its store removes the copy of last resort.
THEOREM CopyKept == Spec => CopySurvives
<1>1. ASSUME IInv, [Next]_vars, NEW s \in Stores, stale[s] # 0, stale'[s] = 0
      PROVE  \/ s = Shared /\ ~redisUp /\ redisUp'
             \/ s \in Processes /\ \A w \in Workers : ProcessOf[w] = s => worker'[w] = IdleWorker
  <2>1. stale' # stale
    BY <1>1
  <2>2. ASSUME NEW w \in Workers, StoreCopy(w) PROVE FALSE
    <3>1. worker[w].snapshot \in 1..published /\ stale' = [stale EXCEPT ![StoreOf(w)] = worker[w].snapshot]
      BY <1>1, <2>2, Ranges DEF StoreCopy, Sound
    <3>2. worker[w].snapshot # 0
      BY <3>1
    <3>3. stale'[s] \in {stale[s], worker[w].snapshot}
      BY <1>1, <3>1 DEF IInv, TypeOK
    <3>4. QED
      BY <1>1, <3>2, <3>3
  <2>3. ASSUME NEW p \in Processes, Restart(p)
        PROVE  s \in Processes /\ \A w \in Workers : ProcessOf[w] = s => worker'[w] = IdleWorker
    <3>1. s = p
      BY <1>1, <2>3 DEF Restart, IInv, TypeOK
    <3>2. QED
      BY <2>3, <3>1 DEF Restart
  <2>4. ASSUME RedisComesBack PROVE s = Shared /\ ~redisUp /\ redisUp'
    BY <1>1, <2>1, <2>4 DEF RedisComesBack, IInv, TypeOK
  <2>5. ASSUME NEW w \in Workers,
               \/ Hit(w) \/ Miss(w) \/ FetchSucceeds(w) \/ FetchFails(w) \/ StoreFresh(w) \/ FallBack(w)
               \/ RedisCommandFails(w) \/ Answered(w) \/ \E kind \in Kinds : Ask(w, kind)
        PROVE  FALSE
    BY <2>1, <2>5 DEF Hit, Miss, FetchSucceeds, FetchFails, StoreFresh, FallBack, RedisCommandFails,
                      Answered, Ask
  <2>6. ~Publish /\ ~RedisGoesDown /\ ~UNCHANGED vars /\ \A z \in Stores : ~Expire(z)
    BY <2>1 DEF Publish, RedisGoesDown, vars, Expire
  <2>7. QED
    BY <1>1, <2>2, <2>3, <2>4, <2>5, <2>6 DEF Next, Serve
<1>2. IInv /\ [Next]_vars =>
        [\A s \in Stores :
           (stale[s] # 0 /\ stale'[s] = 0) =>
              \/ s = Shared /\ ~redisUp /\ redisUp'
              \/ s \in Processes /\ \A w \in Workers : ProcessOf[w] = s => worker'[w] = IdleWorker]_vars
  BY <1>1
<1>3. QED
  BY <1>2, Inductive, PTL DEF Spec, CopySurvives
=============================================================================
