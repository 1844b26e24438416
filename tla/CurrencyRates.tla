--------------------------- MODULE CurrencyRates ---------------------------
(***************************************************************************)
(* Exchange rates for display: the Frankfurter client with its retries,    *)
(* the two cache backends with a copy that expires and a copy that does    *)
(* not, and the two kinds of request that ask for a rate                   *)
(* (pricing/currency_converter.py; routers currency.py, projects.py,       *)
(* reports.py).                                                            *)
(*                                                                         *)
(* A snapshot is identified by the day its source published it; 0 is "no   *)
(* snapshot".  Workers are threads of server processes.  A process chooses *)
(* its cache backend once, at its first request (lru_cache): the shared    *)
(* Redis if it answers a ping, a store of its own otherwise.  Time to live *)
(* is an expiry that may happen at any moment after a store.               *)
(***************************************************************************)
EXTENDS Integers

CONSTANTS
  Workers,      \* request threads
  Processes,    \* server processes
  ProcessOf,    \* ProcessOf[w]: the process worker w is a thread of
  Shared,       \* the Redis store
  NoStore,      \* the process has not chosen a store yet
  MaxRetries,   \* _MAX_RETRIES
  MaxDay,       \* bound on the days the source publishes
  Covered       \* the days whose rates include the display currency

ASSUME RatesAssumption ==
  /\ ProcessOf \in [Workers -> Processes]
  /\ Shared \notin Processes
  /\ NoStore \notin Processes \cup {Shared}
  /\ MaxRetries \in Nat \ {0}
  /\ MaxDay \in Nat \ {0}
  /\ Covered \subseteq 1..MaxDay

VARIABLES
  published,   \* the latest day the source has published (external)
  redisUp,     \* whether Redis answers (external)
  backend,     \* backend[p]: the store process p chose at its first request
  fresh,       \* fresh[s]: the snapshot under the key with a time to live
  stale,       \* stale[s]: the snapshot under the key that never expires
  torn,        \* torn[s]: a writer of s died between its two writes (history)
  worker       \* worker[w]: what worker w is doing

vars == <<published, redisUp, backend, fresh, stale, torn, worker>>

Stores == Processes \cup {Shared}
Snapshot == 0..MaxDay

Kinds == {"rates", "report"}
Outcomes == {"none", "rates", "converted", "native", "unavailable", "server_error"}
Steps == {"idle", "asked", "fetching", "storing", "storing_copy", "falling_back", "done"}

Worker ==
  [pc : Steps, kind : Kinds, attempts : 0..MaxRetries, snapshot : Snapshot,
   outcome : Outcomes, marked : BOOLEAN]

IdleWorker ==
  [pc |-> "idle", kind |-> "rates", attempts |-> 0, snapshot |-> 0,
   outcome |-> "none", marked |-> FALSE]

TypeOK ==
  /\ published \in 1..MaxDay
  /\ redisUp \in BOOLEAN
  /\ backend \in [Processes -> Stores \cup {NoStore}]
  /\ fresh \in [Stores -> Snapshot]
  /\ stale \in [Stores -> Snapshot]
  /\ torn \in [Stores -> BOOLEAN]
  /\ worker \in [Workers -> Worker]

StoreOf(w) == backend[ProcessOf[w]]
Reachable(w) == StoreOf(w) = Shared => redisUp

\* The request of w ends with this outcome.
Finish(w, outcome, snapshot, marked) ==
  worker' = [worker EXCEPT ![w].pc = "done", ![w].outcome = outcome,
                           ![w].snapshot = snapshot, ![w].marked = marked]

\* get_rates returned a snapshot: the rates endpoint serves it; a report is
\* converted if the snapshot has its currency and stays native otherwise
\* (convert_estimate_currency catches CurrencyProviderError).
Deliver(w, snapshot, marked) ==
  Finish(w,
         IF worker[w].kind = "rates" THEN "rates"
         ELSE IF snapshot \in Covered THEN "converted" ELSE "native",
         snapshot, marked)

\* get_rates raised CurrencyProviderError.
Refuse(w) == Finish(w, IF worker[w].kind = "rates" THEN "unavailable" ELSE "native", 0, FALSE)

\* A Redis command raised; nothing on the way out catches it.
Break(w) == Finish(w, "server_error", 0, FALSE)

-----------------------------------------------------------------------------
(* One request *)

\* A request for the rates, or for a report in a display currency that differs
\* from the native one; the first one of a process runs
\* build_currency_rate_cache.
Ask(w, kind) ==
  /\ worker[w].pc = "idle"
  /\ worker' = [worker EXCEPT ![w].pc = "asked", ![w].kind = kind]
  /\ LET p == ProcessOf[w] IN
       backend' = [backend EXCEPT ![p] =
                     IF @ # NoStore THEN @ ELSE IF redisUp THEN Shared ELSE p]
  /\ UNCHANGED <<published, redisUp, fresh, stale, torn>>

\* cache.get: a hit ends the request, a miss starts the fetch.
Hit(w) ==
  /\ worker[w].pc = "asked"
  /\ Reachable(w)
  /\ fresh[StoreOf(w)] # 0
  /\ Deliver(w, fresh[StoreOf(w)], FALSE)
  /\ UNCHANGED <<published, redisUp, backend, fresh, stale, torn>>

Miss(w) ==
  /\ worker[w].pc = "asked"
  /\ Reachable(w)
  /\ fresh[StoreOf(w)] = 0
  /\ worker' = [worker EXCEPT ![w].pc = "fetching"]
  /\ UNCHANGED <<published, redisUp, backend, fresh, stale, torn>>

\* The source answers with what it has published.
FetchSucceeds(w) ==
  /\ worker[w].pc = "fetching"
  /\ worker' = [worker EXCEPT ![w].pc = "storing", ![w].snapshot = published]
  /\ UNCHANGED <<published, redisUp, backend, fresh, stale, torn>>

\* A faulty variant: after the last attempt the loop starts over.
FetchFailsStartsOver(w) ==
  /\ worker[w].pc = "fetching"
  /\ worker' = [worker EXCEPT
       ![w].attempts = IF @ + 1 = MaxRetries THEN 0 ELSE @ + 1]
  /\ UNCHANGED <<published, redisUp, backend, fresh, stale, torn>>

\* A transport error, an error status or a malformed body; after the last
\* attempt the stale copy is the fallback.
FetchFails(w) ==
  /\ worker[w].pc = "fetching"
  /\ worker' = [worker EXCEPT
       ![w].attempts = @ + 1,
       ![w].pc = IF worker[w].attempts + 1 = MaxRetries THEN "falling_back" ELSE "fetching"]
  /\ UNCHANGED <<published, redisUp, backend, fresh, stale, torn>>

\* A faulty variant: the copy that never expires is not written.
StoreFreshOnly(w) ==
  /\ worker[w].pc = "storing"
  /\ Reachable(w)
  /\ fresh' = [fresh EXCEPT ![StoreOf(w)] = worker[w].snapshot]
  /\ Deliver(w, worker[w].snapshot, FALSE)
  /\ UNCHANGED <<published, redisUp, backend, stale, torn>>

\* cache.set, the first of its two writes: SETEX in Redis, _store in memory.
StoreFresh(w) ==
  /\ worker[w].pc = "storing"
  /\ Reachable(w)
  /\ fresh' = [fresh EXCEPT ![StoreOf(w)] = worker[w].snapshot]
  /\ worker' = [worker EXCEPT ![w].pc = "storing_copy"]
  /\ UNCHANGED <<published, redisUp, backend, stale, torn>>

\* The second write: the copy without an expiry.
StoreCopy(w) ==
  /\ worker[w].pc = "storing_copy"
  /\ Reachable(w)
  /\ stale' = [stale EXCEPT ![StoreOf(w)] = worker[w].snapshot]
  /\ Deliver(w, worker[w].snapshot, FALSE)
  /\ UNCHANGED <<published, redisUp, backend, fresh, torn>>

\* A faulty variant: the fallback serves the copy as if it were fresh.
FallBackUnmarked(w) ==
  /\ worker[w].pc = "falling_back"
  /\ Reachable(w)
  /\ IF stale[StoreOf(w)] # 0 THEN Deliver(w, stale[StoreOf(w)], FALSE) ELSE Refuse(w)
  /\ UNCHANGED <<published, redisUp, backend, fresh, stale, torn>>

\* The live fetch failed: serve the stale copy, marked, or refuse.
FallBack(w) ==
  /\ worker[w].pc = "falling_back"
  /\ Reachable(w)
  /\ IF stale[StoreOf(w)] # 0 THEN Deliver(w, stale[StoreOf(w)], TRUE) ELSE Refuse(w)
  /\ UNCHANGED <<published, redisUp, backend, fresh, stale, torn>>

\* A Redis command of the request raises.
RedisCommandFails(w) ==
  /\ worker[w].pc \in {"asked", "storing", "storing_copy", "falling_back"}
  /\ ~Reachable(w)
  /\ Break(w)
  /\ torn' = [torn EXCEPT ![StoreOf(w)] = @ \/ worker[w].pc = "storing_copy"]
  /\ UNCHANGED <<published, redisUp, backend, fresh, stale>>

\* The answer leaves the server.
Answered(w) ==
  /\ worker[w].pc = "done"
  /\ worker' = [worker EXCEPT ![w] = IdleWorker]
  /\ UNCHANGED <<published, redisUp, backend, fresh, stale, torn>>

-----------------------------------------------------------------------------
(* The surroundings *)

Publish ==
  /\ published < MaxDay
  /\ published' = published + 1
  /\ UNCHANGED <<redisUp, backend, fresh, stale, torn, worker>>

\* Faulty variants: the copy of last resort expires with the snapshot; a
\* process's own store never looks at expires_at.
ExpireBoth(s) ==
  /\ fresh[s] # 0
  /\ fresh' = [fresh EXCEPT ![s] = 0]
  /\ stale' = [stale EXCEPT ![s] = 0]
  /\ UNCHANGED <<published, redisUp, backend, torn, worker>>

ExpireSharedOnly(s) ==
  /\ s = Shared
  /\ fresh[s] # 0
  /\ fresh' = [fresh EXCEPT ![s] = 0]
  /\ UNCHANGED <<published, redisUp, backend, stale, torn, worker>>

\* The time to live of a snapshot runs out.
Expire(s) ==
  /\ fresh[s] # 0
  /\ fresh' = [fresh EXCEPT ![s] = 0]
  /\ UNCHANGED <<published, redisUp, backend, stale, torn, worker>>

RedisGoesDown ==
  /\ redisUp
  /\ redisUp' = FALSE
  /\ UNCHANGED <<published, backend, fresh, stale, torn, worker>>

\* Redis comes back, with its data or (a restarted pod) without.
RedisComesBack ==
  /\ ~redisUp
  /\ redisUp' = TRUE
  /\ \/ UNCHANGED <<fresh, stale, torn>>
     \/ /\ fresh' = [fresh EXCEPT ![Shared] = 0]
        /\ stale' = [stale EXCEPT ![Shared] = 0]
        /\ torn' = [torn EXCEPT ![Shared] = FALSE]
  /\ UNCHANGED <<published, backend, worker>>

\* Process p is replaced: its requests and its own store are gone.
Restart(p) ==
  /\ backend' = [backend EXCEPT ![p] = NoStore]
  /\ worker' = [w \in Workers |-> IF ProcessOf[w] = p THEN IdleWorker ELSE worker[w]]
  /\ fresh' = [fresh EXCEPT ![p] = 0]
  /\ stale' = [stale EXCEPT ![p] = 0]
  /\ torn' = [s \in Stores |->
               /\ s # p
               /\ \/ torn[s]
                  \/ \E w \in Workers : /\ ProcessOf[w] = p /\ StoreOf(w) = s
                                        /\ worker[w].pc = "storing_copy"]
  /\ UNCHANGED <<published, redisUp>>

Init ==
  /\ published = 1
  /\ redisUp \in BOOLEAN
  /\ backend = [p \in Processes |-> NoStore]
  /\ fresh = [s \in Stores |-> 0]
  /\ stale = [s \in Stores |-> 0]
  /\ torn = [s \in Stores |-> FALSE]
  /\ worker = [w \in Workers |-> IdleWorker]

\* What worker w does on its own once it has a request.
Serve(w) ==
  \/ Hit(w) \/ Miss(w)
  \/ FetchSucceeds(w) \/ FetchFails(w)
  \/ StoreFresh(w) \/ StoreCopy(w) \/ FallBack(w)
  \/ RedisCommandFails(w) \/ Answered(w)

Next ==
  \/ \E w \in Workers : Serve(w) \/ \E kind \in Kinds : Ask(w, kind)
  \/ \E s \in Stores : Expire(s)
  \/ \E p \in Processes : Restart(p)
  \/ Publish \/ RedisGoesDown \/ RedisComesBack

Spec == Init /\ [][Next]_vars

\* A request that was received is worked on, and a time to live runs out.  The
\* source and Redis may fail for ever.
FairSpec ==
  /\ Spec
  /\ \A w \in Workers : WF_vars(Serve(w))
  /\ \A s \in Stores : WF_vars(Expire(s))

-----------------------------------------------------------------------------
(* Properties *)

Delivered(w) == worker[w].outcome \in {"rates", "converted"}

\* A rate that is served was published by the source; a marked one comes from a
\* failed refresh, never from an untried one ("so a rate is never fabricated").
NeverFabricated ==
  \A w \in Workers : Delivered(w) =>
    /\ worker[w].snapshot \in 1..published
    /\ worker[w].marked <=> worker[w].attempts = MaxRetries

\* Every snapshot a request can hit is backed by a copy that does not expire,
\* unless its writer is between the two writes or died there: so an outage of
\* the source after the time to live still finds a rate (set, get_stale).
FreshIsBacked ==
  \A s \in Stores :
    \/ fresh[s] = 0 \/ stale[s] # 0 \/ torn[s]
    \/ \E w \in Workers : StoreOf(w) = s /\ worker[w].pc = "storing_copy"

\* The copy of last resort is never lost while its store lives: a refresh may
\* replace it, a failed refresh or an expiry never removes it (get_stale).
CopySurvives ==
  [][\A s \in Stores :
       (stale[s] # 0 /\ stale'[s] = 0) =>
          \/ s = Shared /\ ~redisUp /\ redisUp'
          \/ s \in Processes /\ \A w \in Workers : ProcessOf[w] = s => worker'[w] = IdleWorker]_vars

\* When the source stops publishing, every unmarked answer is eventually the
\* latest rates: an older snapshot that a slow request stores last does not
\* outlive its time to live.
EventuallyCurrent ==
  \A w \in Workers :
    <>[]((Delivered(w) /\ ~worker[w].marked) => worker[w].snapshot = published)

\* Every request is answered, whatever fails.
Responds == \A w \in Workers : (worker[w].pc = "asked") ~> (worker[w].pc \in {"done", "idle"})

\* A report download is never refused for want of a rate
\* (convert_estimate_currency: "must never block a report download").
ReportNeverBlocked ==
  \A w \in Workers :
    (worker[w].pc = "done" /\ worker[w].kind = "report") =>
       worker[w].outcome \in {"converted", "native"}
=============================================================================
