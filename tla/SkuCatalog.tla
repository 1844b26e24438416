----------------------------- MODULE SkuCatalog -----------------------------
(***************************************************************************)
(* Looking up live prices: the Cloud Billing Catalog client with its pages *)
(* and retries, the SKU cache, and the estimates that ask for the list of  *)
(* a service over and over (pricing/gcp_provider.py, pricing/gcp_client.py,*)
(* pricing/cache.py).                                                      *)
(*                                                                         *)
(* One currency.  A page of a service's SKU list is named by its place in  *)
(* the list and the day its prices were published; what is on the pages is *)
(* Listing, from which SkuMatcher finds the SKU of a price.  Estimates run *)
(* in the threads of one server process, which keeps the list in Redis or, *)
(* when Redis did not answer at the first lookup, in a dictionary of its   *)
(* own; processes on one Redis interleave as these threads do.             *)
(***************************************************************************)
EXTENDS SkuMatcher

CONSTANTS
  Workers,      \* request threads
  Pages,        \* pages of the SKU list
  MaxRetries,   \* _MAX_RETRIES
  Lookups,      \* prices one estimate looks up
  MaxDay,       \* bound on the days on which prices are published
  NoList,       \* nothing is cached
  Listing,      \* service -> page -> the SKUs on it (external)
  Questions,    \* service -> what its prices are looked up by, with their rules
  Region        \* the region of the estimates

ASSUME CatalogAssumption ==
  /\ Pages \in Nat \ {0} /\ MaxRetries \in Nat /\ Lookups \in Nat \ {0} /\ MaxDay \in Nat \ {0}
  /\ DOMAIN Questions = DOMAIN Listing
  /\ NoList \notin Seq((1..Pages) \X (1..MaxDay))

VARIABLES
  published,   \* the day of the latest prices (external)
  redisUp,     \* whether Redis answers (external)
  backend,     \* "memory" or "redis", chosen at the first lookup
  cached,      \* the cached list, or NoList
  expired,     \* whether the time to live of the cached list has run out
  est          \* est[w]: the estimate worker w is pricing

vars == <<published, redisUp, backend, cached, expired, est>>

Page == (1..Pages) \X (1..MaxDay)
Steps == {"idle", "looking", "deleting", "services", "listing", "storing", "done"}
Outcomes == {"none", "priced", "pricing_error", "server_error"}

Estimate ==
  [pc : Steps, lookups : 0..Lookups, attempts : 0..MaxRetries,
   list : Seq(Page), outcome : Outcomes]

NoEstimate == [pc |-> "idle", lookups |-> 0, attempts |-> 0, list |-> <<>>, outcome |-> "none"]

TypeOK ==
  /\ published \in 1..MaxDay
  /\ redisUp \in BOOLEAN
  /\ backend \in {"none", "memory", "redis"}
  /\ cached = NoList \/ (cached \in Seq(Page) /\ Len(cached) <= Pages)
  /\ expired \in BOOLEAN
  /\ est \in [Workers -> Estimate]

Reachable == backend = "redis" => redisUp

Ends(w, outcome) ==
  est' = [est EXCEPT ![w].pc = "done", ![w].outcome = outcome]

\* The SKUs of a list of pages, in the list's order.
SkusOf(service, list) == FlattenSeq([i \in DOMAIN list |-> Listing[service][list[i][1]]])

\* The whole list of a service, and the SKUs in it that are sold as what is asked for.
WholeListing(service) == SkusOf(service, [i \in 1..Pages |-> <<i, 1>>])
SoldAs(service, what) ==
  {i \in DOMAIN WholeListing(service) :
    /\ WholeListing(service)[i].prices = what
    /\ RegionMatches(WholeListing(service)[i], Region)}

\* The SKUs of a listing are numbered, and their descriptions have a length.
ASSUME ListingAssumption ==
  \A s \in DOMAIN Questions : \A i \in DOMAIN WholeListing(s) :
    i \in Nat /\ WholeListing(s)[i].length \in Nat

\* _get_skus returns the list, and the price is found in it: the estimate looks up
\* its next price or is complete.  A price without a SKU ends it.
Returns(w, list) ==
  \/ IF est[w].lookups + 1 = Lookups
     THEN est' = [est EXCEPT ![w].pc = "done", ![w].outcome = "priced",
                             ![w].lookups = Lookups, ![w].list = list]
     ELSE est' = [est EXCEPT ![w].pc = "looking", ![w].lookups = @ + 1, ![w].list = <<>>]
  \/ /\ \E s \in DOMAIN Questions : \E q \in Questions[s] :
          Match(SkusOf(s, list), q[2], Region) = <<"nothing">>
     /\ Ends(w, "pricing_error")

-----------------------------------------------------------------------------
(* One estimate *)

\* The first lookup of the process runs build_sku_cache.
Begin(w) ==
  /\ est[w].pc = "idle"
  /\ est' = [est EXCEPT ![w].pc = "looking"]
  /\ backend' = IF backend # "none" THEN backend ELSE IF redisUp THEN "redis" ELSE "memory"
  /\ UNCHANGED <<published, redisUp, cached, expired>>

\* cache.get finds a list that has not expired.
Hit(w) ==
  /\ est[w].pc = "looking"
  /\ Reachable
  /\ cached # NoList /\ ~expired
  /\ Returns(w, cached)
  /\ UNCHANGED <<published, redisUp, backend, cached, expired>>

\* cache.get finds nothing; an expired list is nothing to Redis.
Miss(w) ==
  /\ est[w].pc = "looking"
  /\ Reachable
  /\ cached = NoList
  /\ est' = [est EXCEPT ![w].pc = "services"]
  /\ UNCHANGED <<published, redisUp, backend, cached, expired>>

\* The dictionary holds an expired list: it is read here and deleted next.
SeesExpired(w) ==
  /\ est[w].pc = "looking"
  /\ backend = "memory"
  /\ cached # NoList /\ expired
  /\ est' = [est EXCEPT ![w].pc = "deleting"]
  /\ UNCHANGED <<published, redisUp, backend, cached, expired>>

\* del self._store[key]: deletes whatever the key holds by now, and raises
\* KeyError when another thread has deleted it already.
DeleteExpired(w) ==
  /\ est[w].pc = "deleting"
  /\ IF cached = NoList
     THEN Ends(w, "server_error")
     ELSE est' = [est EXCEPT ![w].pc = "services"]
  /\ cached' = NoList
  /\ expired' = FALSE
  /\ UNCHANGED <<published, redisUp, backend>>

\* find_service: one more paginated request, of which only its end matters.
FindService(w) ==
  /\ est[w].pc = "services"
  /\ est' = [est EXCEPT ![w].pc = "listing", ![w].attempts = 0, ![w].list = <<>>]
  /\ UNCHANGED <<published, redisUp, backend, cached, expired>>

\* One page of list_skus arrives; the last one has no nextPageToken.
FetchPage(w) ==
  /\ est[w].pc = "listing"
  /\ LET list == Append(est[w].list, <<Len(est[w].list) + 1, published>>)
     IN est' = [est EXCEPT ![w].list = list, ![w].attempts = 0,
                           ![w].pc = IF Len(list) = Pages THEN "storing" ELSE "listing"]
  /\ UNCHANGED <<published, redisUp, backend, cached, expired>>

\* Faulty variants: when the attempts are used up the fetch starts over, or the
\* pages that did arrive are good enough.
RequestFailsStartsOver(w) ==
  /\ est[w].pc \in {"services", "listing"}
  /\ est' = IF est[w].attempts < MaxRetries
            THEN [est EXCEPT ![w].attempts = @ + 1]
            ELSE [est EXCEPT ![w].attempts = 0, ![w].pc = "services"]
  /\ UNCHANGED <<published, redisUp, backend, cached, expired>>

RequestFailsKeepsPages(w) ==
  /\ est[w].pc \in {"services", "listing"}
  /\ est' = [est EXCEPT ![w].attempts = IF @ = MaxRetries THEN @ ELSE @ + 1,
                        ![w].pc = IF est[w].attempts = MaxRetries THEN "storing" ELSE @]
  /\ UNCHANGED <<published, redisUp, backend, cached, expired>>

\* A transport error or a retryable status: the same page is requested again
\* until the attempts are used up, and the whole list is then given up.
RequestFails(w) ==
  /\ est[w].pc \in {"services", "listing"}
  /\ IF est[w].attempts < MaxRetries
     THEN est' = [est EXCEPT ![w].attempts = @ + 1]
     ELSE Ends(w, "pricing_error")
  /\ UNCHANGED <<published, redisUp, backend, cached, expired>>

\* Any other status, an unknown service or a rejected credential.
RequestRefused(w) ==
  /\ est[w].pc \in {"services", "listing"}
  /\ Ends(w, "pricing_error")
  /\ UNCHANGED <<published, redisUp, backend, cached, expired>>

\* cache.set replaces the whole list and starts its time to live.
Store(w) ==
  /\ est[w].pc = "storing"
  /\ Reachable
  /\ cached' = est[w].list
  /\ expired' = FALSE
  /\ Returns(w, est[w].list)
  /\ UNCHANGED <<published, redisUp, backend>>

\* A Redis command raises; nothing on the way out catches it.
RedisCommandFails(w) ==
  /\ est[w].pc \in {"looking", "storing"}
  /\ ~Reachable
  /\ Ends(w, "server_error")
  /\ UNCHANGED <<published, redisUp, backend, cached, expired>>

Answered(w) ==
  /\ est[w].pc = "done"
  /\ est' = [est EXCEPT ![w] = NoEstimate]
  /\ UNCHANGED <<published, redisUp, backend, cached, expired>>

-----------------------------------------------------------------------------
(* The surroundings *)

Publish ==
  /\ published < MaxDay
  /\ published' = published + 1
  /\ UNCHANGED <<redisUp, backend, cached, expired, est>>

\* A faulty variant: only Redis honours the time to live.
ExpireInRedis ==
  /\ cached # NoList /\ backend = "redis"
  /\ cached' = NoList
  /\ UNCHANGED <<published, redisUp, backend, expired, est>>

\* The time to live runs out: Redis drops the list, the dictionary keeps it
\* until the next lookup.
Expire ==
  /\ cached # NoList /\ ~expired
  /\ IF backend = "redis"
     THEN cached' = NoList /\ UNCHANGED expired
     ELSE expired' = TRUE /\ UNCHANGED cached
  /\ UNCHANGED <<published, redisUp, backend, est>>

\* Redis goes away, and comes back with its data or without.
RedisChanges ==
  /\ redisUp' = ~redisUp
  /\ \/ UNCHANGED cached
     \/ ~redisUp /\ backend = "redis" /\ cached' = NoList
  /\ UNCHANGED <<published, backend, expired, est>>

Init ==
  /\ published = 1
  /\ redisUp \in BOOLEAN
  /\ backend = "none"
  /\ cached = NoList
  /\ expired = FALSE
  /\ est = [w \in Workers |-> NoEstimate]

\* What worker w does on its own once it has an estimate to price.
Price(w) ==
  \/ Hit(w) \/ Miss(w) \/ SeesExpired(w) \/ DeleteExpired(w)
  \/ FindService(w) \/ FetchPage(w) \/ RequestFails(w) \/ RequestRefused(w)
  \/ Store(w) \/ RedisCommandFails(w) \/ Answered(w)

Next ==
  \/ \E w \in Workers : Begin(w) \/ Price(w)
  \/ Publish \/ Expire \/ RedisChanges

Spec == Init /\ [][Next]_vars

\* A request that was received is worked on, and a time to live runs out; the
\* catalogue and Redis may fail for ever.
FairSpec == Spec /\ (\A w \in Workers : WF_vars(Price(w))) /\ WF_vars(Expire)

-----------------------------------------------------------------------------
(* Properties *)

\* What is cached is the whole list, every page once and in order: a page that
\* was retried is not listed twice, and a fetch that fails half way leaves no
\* part of its list behind (_paginate, list_skus, _get_skus).
ListComplete ==
  cached # NoList => Len(cached) = Pages /\ \A i \in 1..Pages : cached[i][1] = i

\* Every price of a finished estimate is that of the SKU that is sold as what was
\* asked for, when one is, and of no look-alike: a custom, committed, preemptible,
\* replicated or sole-tenant variant, another family's whose name starts alike, or
\* another region's, whatever their order in the list (sku_matcher.py:10-20,
\* 120-139).  It rests on the whole list having arrived: with a page missing, a
\* look-alike is all that is left to match.
CanonicalMatch ==
  \A w \in Workers : est[w].outcome = "priced" =>
    \A s \in DOMAIN Questions : \A q \in Questions[s] :
      Match(SkusOf(s, est[w].list), q[2], Region) = IF SoldAs(s, q[1]) = {} THEN <<"nothing">> ELSE q[1]

\* Once prices stop changing, every estimate is eventually priced with the
\* latest ones only, although a slow fetch may store an older list over a newer
\* one and a delete may hit a list that was stored in between.
PricesEventuallyCurrent ==
  \A w \in Workers :
    <>[](est[w].outcome = "priced" => \A i \in 1..Pages : est[w].list[i][2] = published)

\* Every estimate that was begun ends, whatever fails (_get, _paginate).
EstimateEnds == \A w \in Workers : (est[w].pc = "looking") ~> (est[w].pc = "idle")
=============================================================================
