------------------------- MODULE SkuCatalog_proofs -------------------------
(***************************************************************************)
(* Proofs about SkuCatalog, for lists of any number of pages, any number   *)
(* of threads and any listing.                                             *)
(*                                                                         *)
(* A list is cached in one step but arrives page by page, between retries, *)
(* refusals and other threads' stores: the invariant says that what has    *)
(* arrived so far is a prefix of the list, and is the list when it is      *)
(* stored.  A lookup in a whole list takes the SKU that the rule prefers   *)
(* among all those published, whichever days the pages are of; that it is  *)
(* the SKU one means depends on the descriptions and is left to TLC.       *)
(***************************************************************************)
EXTENDS SkuCatalog, SequenceTheorems, WellFoundedInduction, TLAPS

\* The pages of a list, from the first one, each once and in order.
PagesInOrder(list) == Len(list) <= Pages /\ \A i \in 1..Len(list) : list[i][1] = i
Whole(list) == list \in Seq(Page) /\ Len(list) = Pages /\ PagesInOrder(list)

\* What an estimate has fetched, and that it has prices left to look up.
Fetching(w) ==
  /\ est[w].pc # "done" => est[w].lookups < Lookups /\ est[w].outcome = "none"
  /\ est[w].pc = "listing" => PagesInOrder(est[w].list) /\ Len(est[w].list) < Pages
  /\ est[w].pc = "storing" => Whole(est[w].list)

\* Every price of a finished estimate was looked up in the whole list: of the page
\* an SKU is on, none was missing when it was looked for (find_*_sku, _get_skus).
PricedFromWhole == \A w \in Workers : est[w].outcome = "priced" => Whole(est[w].list)

IInv ==
  /\ TypeOK
  /\ cached # NoList => Whole(cached)
  /\ \A w \in Workers : Fetching(w)
  /\ PricedFromWhole

-----------------------------------------------------------------------------
(* Lists and estimates *)

\* One more page keeps the pages in order.
LEMMA NextPage ==
  ASSUME NEW list \in Seq(Page), PagesInOrder(list), Len(list) < Pages, NEW day \in 1..MaxDay
  PROVE  /\ Append(list, <<Len(list) + 1, day>>) \in Seq(Page)
         /\ Len(Append(list, <<Len(list) + 1, day>>)) = Len(list) + 1
         /\ PagesInOrder(Append(list, <<Len(list) + 1, day>>))
<1> DEFINE n == Len(list)
           page == <<n + 1, day>>
           longer == Append(list, page)
<1>1. n \in Nat /\ n + 1 <= Pages /\ Pages \in Nat
  BY LenProperties, CatalogAssumption
<1>2. page \in Page /\ page[1] = n + 1
  BY <1>1 DEF Page
<1> HIDE DEF page
<1>3. /\ longer \in Seq(Page) /\ Len(longer) = n + 1 /\ longer[n + 1] = page
      /\ \A i \in 1..n : longer[i] = list[i]
  BY <1>2, AppendProperties
<1>4. \A i \in 1..n : list[i][1] = i
  BY DEF PagesInOrder
<1>5. \A i \in 1..(n + 1) : i \in 1..n \/ i = n + 1
  BY <1>1
<1> HIDE DEF longer, n
<1>6. \A i \in 1..(n + 1) : longer[i][1] = i
  BY <1>2, <1>3, <1>4, <1>5
<1>7. PagesInOrder(longer)
  BY <1>1, <1>3, <1>6 DEF PagesInOrder
<1>8. QED
  BY <1>3, <1>7 DEF longer, n, page

\* No estimate is one; the empty list begins every list.
LEMMA Nothing ==
  /\ NoEstimate \in Estimate /\ NoEstimate.pc = "idle" /\ NoEstimate.lookups = 0
  /\ NoEstimate.lookups < Lookups /\ NoEstimate.outcome = "none"
  /\ <<>> \in Seq(Page) /\ Len(<<>>) = 0 /\ PagesInOrder(<<>>)
<1>1. <<>> \in Seq(Page) /\ Len(<<>>) = 0
  BY EmptySeq
<1>2. Lookups \in Nat \ {0} /\ MaxRetries \in Nat /\ Pages \in Nat
  BY CatalogAssumption
<1>3. PagesInOrder(<<>>)
  BY <1>1, <1>2 DEF PagesInOrder
<1>4. 0 \in 0..Lookups /\ 0 \in 0..MaxRetries
  BY <1>2
<1>5. QED
  BY <1>1, <1>2, <1>3, <1>4 DEF NoEstimate, Estimate, Steps, Outcomes

\* What the invariant says of one estimate.
LEMMA Ranges ==
  ASSUME IInv, NEW w \in Workers
  PROVE  /\ est[w] \in Estimate /\ est[w].lookups \in 0..Lookups /\ est[w].attempts \in 0..MaxRetries
         /\ est[w].list \in Seq(Page) /\ Fetching(w) /\ published \in 1..MaxDay
BY DEF IInv, TypeOK, Estimate

\* A step of one estimate.
LEMMA EstimateStep ==
  ASSUME IInv, NEW w \in Workers, NEW e \in Estimate, est' = [est EXCEPT ![w] = e],
         e.pc # "done" => e.lookups < Lookups /\ e.outcome = "none",
         e.pc = "listing" => PagesInOrder(e.list) /\ Len(e.list) < Pages,
         e.pc = "storing" => Whole(e.list),
         e.outcome = "priced" => Whole(e.list),
         UNCHANGED <<published, redisUp>>, backend' \in {"none", "memory", "redis"}, expired' \in BOOLEAN,
         cached' # NoList => Whole(cached')
  PROVE  IInv'
<1>1. /\ est' \in [Workers -> Estimate] /\ est'[w] = e
      /\ \A v \in Workers : v # w => est'[v] = est[v]
  BY DEF IInv, TypeOK
<1>2. Pages \in Nat
  BY CatalogAssumption
<1>3. TypeOK'
  BY <1>1, <1>2 DEF IInv, TypeOK, Whole
<1>4. \A v \in Workers : Fetching(v)'
  BY <1>1 DEF IInv, Fetching
<1>5. PricedFromWhole'
  BY <1>1 DEF IInv, PricedFromWhole
<1>6. QED
  BY <1>3, <1>4, <1>5 DEF IInv

\* An estimate moves on without having fetched anything.
LEMMA MoveStep ==
  ASSUME IInv, NEW w \in Workers, NEW pc \in {"looking", "deleting", "services"}, est[w].pc # "done",
         est' = [est EXCEPT ![w].pc = pc],
         UNCHANGED <<published, redisUp>>, backend' \in {"none", "memory", "redis"}, expired' \in BOOLEAN,
         cached' # NoList => Whole(cached')
  PROVE  IInv'
<1> DEFINE e == [est[w] EXCEPT !.pc = pc]
<1>1. est' = [est EXCEPT ![w] = e]
  BY DEF IInv, TypeOK
<1>2. est[w] \in Estimate /\ est[w].lookups < Lookups /\ est[w].outcome = "none"
  BY Ranges DEF Fetching
<1>3. e \in Estimate /\ e.pc = pc /\ e.lookups = est[w].lookups /\ e.outcome = "none"
  BY <1>2 DEF Estimate, Steps
<1> HIDE DEF e
<1>4. QED
  BY <1>1, <1>2, <1>3, EstimateStep

\* An estimate ends without a price.
LEMMA EndsStep ==
  ASSUME IInv, NEW w \in Workers, NEW outcome \in {"pricing_error", "server_error"}, Ends(w, outcome),
         UNCHANGED <<published, redisUp>>, backend' \in {"none", "memory", "redis"}, expired' \in BOOLEAN,
         cached' # NoList => Whole(cached')
  PROVE  IInv'
<1> DEFINE e == [est[w] EXCEPT !.pc = "done", !.outcome = outcome]
<1>1. est' = [est EXCEPT ![w] = e]
  BY DEF Ends, IInv, TypeOK
<1>2. e \in Estimate /\ e.pc = "done" /\ e.outcome = outcome
  BY Ranges DEF Estimate, Steps, Outcomes
<1> HIDE DEF e
<1>3. QED
  BY <1>1, <1>2, EstimateStep

\* The whole list answers a lookup: with a price, or with none.
LEMMA ReturnsStep ==
  ASSUME IInv, NEW w \in Workers, est[w].pc # "done", NEW list, Whole(list), Returns(w, list),
         UNCHANGED <<published, redisUp, backend>>, expired' \in BOOLEAN,
         cached' # NoList => Whole(cached')
  PROVE  IInv'
<1>1. /\ est[w] \in Estimate /\ est[w].lookups \in 0..Lookups /\ est[w].lookups < Lookups
      /\ est[w].outcome = "none" /\ est[w].list \in Seq(Page)
  BY Ranges DEF Fetching
<1>2. backend' \in {"none", "memory", "redis"} /\ Lookups \in Nat \ {0}
  BY CatalogAssumption DEF IInv, TypeOK
<1>3. CASE est[w].lookups + 1 = Lookups /\ est' = [est EXCEPT ![w].pc = "done", ![w].outcome = "priced",
                                                 ![w].lookups = Lookups, ![w].list = list]
  <2>1. PICK e \in Estimate : /\ est' = [est EXCEPT ![w] = e] /\ e.pc = "done" /\ e.list = list
                             /\ e.outcome = "priced"
    <3> DEFINE e == [est[w] EXCEPT !.pc = "done", !.outcome = "priced", !.lookups = Lookups, !.list = list]
    <3>1. est' = [est EXCEPT ![w] = e]
      BY <1>3 DEF IInv, TypeOK
    <3>2. list \in Seq(Page) /\ Lookups \in 0..Lookups
      BY <1>2 DEF Whole
    <3>3. e \in Estimate /\ e.pc = "done" /\ e.list = list /\ e.outcome = "priced"
      BY <1>1, <3>2 DEF Estimate, Steps, Outcomes
    <3> HIDE DEF e
    <3>4. QED
      BY <3>1, <3>3
  <2>2. QED
    BY <1>2, <2>1, EstimateStep
<1>4. CASE /\ est[w].lookups + 1 # Lookups
           /\ est' = [est EXCEPT ![w].pc = "looking", ![w].lookups = @ + 1, ![w].list = <<>>]
  <2>1. PICK e \in Estimate : /\ est' = [est EXCEPT ![w] = e] /\ e.pc = "looking" /\ e.outcome = "none"
                             /\ e.lookups = est[w].lookups + 1
    <3> DEFINE e == [est[w] EXCEPT !.pc = "looking", !.lookups = @ + 1, !.list = <<>>]
    <3>1. est' = [est EXCEPT ![w] = e]
      BY <1>4 DEF IInv, TypeOK
    <3>2. <<>> \in Seq(Page) /\ est[w].lookups + 1 \in 0..Lookups
      BY <1>1, <1>2, EmptySeq
    <3>3. e \in Estimate /\ e.pc = "looking" /\ e.outcome = "none" /\ e.lookups = est[w].lookups + 1
      BY <1>1, <3>2 DEF Estimate, Steps
    <3> HIDE DEF e
    <3>4. QED
      BY <3>1, <3>3
  <2>2. e.lookups < Lookups
    BY <1>1, <1>2, <1>4, <2>1
  <2>3. QED
    BY <1>2, <2>1, <2>2, EstimateStep
<1>5. CASE Ends(w, "pricing_error")
  BY <1>2, <1>5, EndsStep
<1>6. QED
  BY <1>3, <1>4, <1>5 DEF Returns
-----------------------------------------------------------------------------
(* Steps *)

\* The first lookup, a lookup that finds nothing or an expired list, and the
\* deletion of whatever the key holds by then.
LEMMA LookupStep ==
  ASSUME IInv, NEW w \in Workers, Begin(w) \/ Miss(w) \/ SeesExpired(w) \/ DeleteExpired(w)
  PROVE  IInv'
<1>1. backend \in {"none", "memory", "redis"} /\ expired \in BOOLEAN /\ (cached # NoList => Whole(cached))
  BY DEF IInv, TypeOK
<1>2. CASE Begin(w)
  <2>1. /\ est[w].pc = "idle" /\ est' = [est EXCEPT ![w].pc = "looking"]
        /\ backend' \in {"none", "memory", "redis"} /\ UNCHANGED <<published, redisUp, cached, expired>>
    BY <1>1, <1>2 DEF Begin
  <2>2. QED
    BY <1>1, <2>1, MoveStep
<1>3. CASE Miss(w)
  BY <1>1, <1>3, MoveStep DEF Miss
<1>4. CASE SeesExpired(w)
  BY <1>1, <1>4, MoveStep DEF SeesExpired
<1>5. CASE DeleteExpired(w)
  <2>1. /\ est[w].pc = "deleting" /\ cached' = NoList /\ expired' = FALSE
        /\ UNCHANGED <<published, redisUp, backend>>
        /\ IF cached = NoList THEN Ends(w, "server_error") ELSE est' = [est EXCEPT ![w].pc = "services"]
    BY <1>5 DEF DeleteExpired
  <2>2. CASE cached = NoList
    BY <1>1, <2>1, <2>2, EndsStep
  <2>3. CASE cached # NoList
    BY <1>1, <2>1, <2>3, MoveStep
  <2>4. QED
    BY <2>2, <2>3
<1>6. QED
  BY <1>2, <1>3, <1>4, <1>5

\* A hit and a store look the price up in the whole list.
LEMMA PriceStep ==
  ASSUME IInv, NEW w \in Workers, Hit(w) \/ Store(w)
  PROVE  IInv'
<1>1. expired \in BOOLEAN /\ (cached # NoList => Whole(cached))
  BY DEF IInv, TypeOK
<1>2. CASE Hit(w)
  <2>1. /\ est[w].pc # "done" /\ cached # NoList /\ Returns(w, cached)
        /\ UNCHANGED <<published, redisUp, backend, cached, expired>>
    BY <1>2 DEF Hit
  <2>2. PICK list : list = cached
    OBVIOUS
  <2>3. Whole(list) /\ Returns(w, list)
    BY <1>1, <2>1, <2>2
  <2>4. QED
    BY <1>1, <2>1, <2>3, ReturnsStep
<1>3. CASE Store(w)
  <2>1. /\ est[w].pc = "storing" /\ cached' = est[w].list /\ expired' = FALSE /\ Returns(w, est[w].list)
        /\ UNCHANGED <<published, redisUp, backend>>
    BY <1>3 DEF Store
  <2>2. PICK list : list = est[w].list
    OBVIOUS
  <2>3. Whole(list) /\ Returns(w, list) /\ cached' = list
    BY <2>1, <2>2, Ranges DEF Fetching
  <2>4. QED
    BY <2>1, <2>3, ReturnsStep
<1>4. QED
  BY <1>2, <1>3

\* The list begins.
LEMMA FindServiceStep ==
  ASSUME IInv, NEW w \in Workers, FindService(w)
  PROVE  IInv'
<1> DEFINE e == [est[w] EXCEPT !.pc = "listing", !.attempts = 0, !.list = <<>>]
<1>1. est' = [est EXCEPT ![w] = e] /\ UNCHANGED <<published, redisUp, backend, cached, expired>>
  BY DEF FindService, IInv, TypeOK
<1>2. est[w] \in Estimate /\ est[w].lookups < Lookups /\ est[w].outcome = "none"
  BY Ranges DEF Fetching, FindService
<1>3. <<>> \in Seq(Page) /\ Len(<<>>) = 0 /\ PagesInOrder(<<>>) /\ 0 \in 0..MaxRetries /\ 0 < Pages
  BY Nothing, CatalogAssumption
<1>4. /\ e \in Estimate /\ e.pc = "listing" /\ e.lookups = est[w].lookups /\ e.outcome = "none"
      /\ e.list = <<>>
  BY <1>2, <1>3 DEF Estimate, Steps
<1> HIDE DEF e
<1>5. PagesInOrder(e.list) /\ Len(e.list) < Pages
  BY <1>3, <1>4
<1>6. QED
  BY <1>1, <1>2, <1>4, <1>5, EstimateStep DEF IInv, TypeOK

\* A page arrives, and with the last one the list is whole.
LEMMA FetchPageStep ==
  ASSUME IInv, NEW w \in Workers, FetchPage(w)
  PROVE  IInv'
<1>1. /\ est[w] \in Estimate /\ est[w].lookups < Lookups /\ est[w].outcome = "none"
      /\ est[w].list \in Seq(Page) /\ PagesInOrder(est[w].list) /\ Len(est[w].list) < Pages
      /\ published \in 1..MaxDay
  BY Ranges DEF Fetching, FetchPage
<1>2. PICK list \in Seq(Page) :
        /\ list = Append(est[w].list, <<Len(est[w].list) + 1, published>>)
        /\ Len(list) = Len(est[w].list) + 1 /\ PagesInOrder(list)
  BY <1>1, NextPage
<1>3. PICK pc \in {"storing", "listing"} :
        /\ est' = [est EXCEPT ![w].list = list, ![w].attempts = 0, ![w].pc = pc]
        /\ pc = "storing" <=> Len(list) = Pages
  <2> DEFINE pc == IF Len(list) = Pages THEN "storing" ELSE "listing"
  <2>1. est' = [est EXCEPT ![w].list = list, ![w].attempts = 0, ![w].pc = pc]
    BY <1>2 DEF FetchPage
  <2>2. QED
    BY <2>1
<1> DEFINE e == [est[w] EXCEPT !.list = list, !.attempts = 0, !.pc = pc]
<1>4. est' = [est EXCEPT ![w] = e]
  BY <1>3 DEF IInv, TypeOK
<1>5. UNCHANGED <<published, redisUp, backend, cached, expired>>
  BY DEF FetchPage
<1>6. 0 \in 0..MaxRetries /\ pc \in Steps
  BY CatalogAssumption DEF Steps
<1>7. /\ e \in Estimate /\ e.pc = pc /\ e.lookups = est[w].lookups /\ e.outcome = "none" /\ e.list = list
  BY <1>1, <1>6 DEF Estimate
<1> HIDE DEF e
<1>8. Len(list) <= Pages /\ Len(list) \in Nat /\ Pages \in Nat
  BY <1>2, LenProperties, CatalogAssumption DEF PagesInOrder
<1>9. (pc = "storing" => Whole(list)) /\ (pc = "listing" => Len(list) < Pages)
  BY <1>2, <1>3, <1>8 DEF Whole
<1>10. QED
  BY <1>1, <1>2, <1>4, <1>5, <1>7, <1>9, EstimateStep DEF IInv, TypeOK

\* A request that fails is made again, for the same page, or the list is given up.
LEMMA FailStep ==
  ASSUME IInv, NEW w \in Workers, RequestFails(w) \/ RequestRefused(w) \/ RedisCommandFails(w)
  PROVE  IInv'
<1>1. /\ UNCHANGED <<published, redisUp, backend, cached, expired>>
      /\ est[w].pc \in {"services", "listing", "looking", "storing"}
  BY DEF RequestFails, RequestRefused, RedisCommandFails
<1>2. backend \in {"none", "memory", "redis"} /\ expired \in BOOLEAN /\ (cached # NoList => Whole(cached))
  BY DEF IInv, TypeOK
<1>3. CASE RequestFails(w) /\ est[w].attempts < MaxRetries
  <2> DEFINE e == [est[w] EXCEPT !.attempts = @ + 1]
  <2>1. est' = [est EXCEPT ![w] = e]
    BY <1>3 DEF RequestFails, IInv, TypeOK
  <2>2. est[w] \in Estimate /\ Fetching(w) /\ est[w].attempts + 1 \in 0..MaxRetries
    BY <1>3, Ranges, CatalogAssumption
  <2>3. /\ e \in Estimate /\ e.pc = est[w].pc /\ e.lookups = est[w].lookups
        /\ e.outcome = est[w].outcome /\ e.list = est[w].list
    BY <2>2 DEF Estimate
  <2> HIDE DEF e
  <2>4. QED
    BY <1>1, <1>2, <2>1, <2>2, <2>3, EstimateStep DEF Fetching
<1>4. CASE Ends(w, "pricing_error") \/ Ends(w, "server_error")
  BY <1>1, <1>2, <1>4, EndsStep
<1>5. QED
  BY <1>3, <1>4 DEF RequestFails, RequestRefused, RedisCommandFails

\* The answer leaves the server.
LEMMA AnsweredStep ==
  ASSUME IInv, NEW w \in Workers, Answered(w)
  PROVE  IInv'
<1>1. est' = [est EXCEPT ![w] = NoEstimate] /\ UNCHANGED <<published, redisUp, backend, cached, expired>>
  BY DEF Answered
<1>2. backend \in {"none", "memory", "redis"} /\ expired \in BOOLEAN /\ (cached # NoList => Whole(cached))
  BY DEF IInv, TypeOK
<1>3. QED
  BY <1>1, <1>2, Nothing, EstimateStep

\* The catalogue publishes, the time to live runs out, Redis comes and goes.
LEMMA SurroundingsStep ==
  ASSUME IInv, Publish \/ Expire \/ RedisChanges \/ UNCHANGED vars
  PROVE  IInv'
<1>1. /\ UNCHANGED <<backend, est>> /\ cached' \in {cached, NoList}
      /\ published' \in {published, published + 1} /\ (published' = published \/ published < MaxDay)
  BY DEF Publish, Expire, RedisChanges, vars
<1>2. redisUp' \in BOOLEAN /\ expired' \in BOOLEAN
  BY DEF Publish, Expire, RedisChanges, vars, IInv, TypeOK
<1>3. published' \in 1..MaxDay
  BY <1>1, CatalogAssumption DEF IInv, TypeOK
<1>4. TypeOK'
  BY <1>1, <1>2, <1>3 DEF IInv, TypeOK
<1>5. QED
  BY <1>1, <1>4 DEF IInv, Fetching, PricedFromWhole

-----------------------------------------------------------------------------
(* Matching *)

\* The order in which candidates are preferred: by their length, then by their place.
Before == LexPairOrdering(OpToRel(<, Nat), OpToRel(<, Nat), Nat, Nat)

\* Of any candidates, there is one that none precedes.
LEMMA Preferred ==
  ASSUME NEW skus, NEW candidates, candidates # {},
         \A i \in candidates : i \in Nat /\ skus[i].length \in Nat
  PROVE  SelectUnique(skus, candidates) \in candidates
         /\ \A j \in candidates : Precedes(skus, SelectUnique(skus, candidates), j)
<1> DEFINE Key(i) == <<skus[i].length, i>>
           T == {Key(i) : i \in candidates}
<1>1. IsWellFoundedOn(Before, Nat \X Nat)
  BY NatLessThanWellFounded, WFLexPairOrdering DEF Before
<1>2. T \subseteq Nat \X Nat /\ T # {}
  <2>1. \A i \in candidates : Key(i) \in Nat \X Nat
    OBVIOUS
  <2>2. \E i : i \in candidates
    OBVIOUS
  <2> HIDE DEF Key
  <2>3. QED
    BY <2>1, <2>2
<1>3. PICK t \in T : \A u \in T : ~ (<<u, t>> \in Before)
  BY <1>1, <1>2, WFMin
<1>4. PICK i \in candidates : t = <<skus[i].length, i>>
  OBVIOUS
<1>5. ASSUME NEW j \in candidates PROVE Precedes(skus, i, j)
  <2>1. <<skus[j].length, j>> \in T
    OBVIOUS
  <2>2. ~ (<<<<skus[j].length, j>>, <<skus[i].length, i>>>> \in Before)
    BY <1>3, <1>4, <2>1
  <2>3. i \in Nat /\ j \in Nat /\ skus[i].length \in Nat /\ skus[j].length \in Nat
    OBVIOUS
  <2> HIDE DEF T
  <2>4. CASE skus[j].length < skus[i].length
    BY <2>2, <2>3, <2>4 DEF Before, LexPairOrdering, OpToRel
  <2>5. CASE skus[j].length = skus[i].length /\ j < i
    BY <2>2, <2>3, <2>5 DEF Before, LexPairOrdering, OpToRel
  <2>6. QED
    BY <2>3, <2>4, <2>5 DEF Precedes
<1>6. QED
  BY <1>5 DEF SelectUnique

\* A whole list holds what the whole listing does, whatever the days of its pages.
LEMMA WholeListed ==
  ASSUME NEW list, Whole(list), NEW s
  PROVE  SkusOf(s, list) = WholeListing(s)
<1> DEFINE canonical == [i \in 1..Pages |-> <<i, 1>>]
<1>1. DOMAIN list = 1..Pages /\ \A i \in 1..Pages : list[i][1] = i
  BY CatalogAssumption DEF Whole, PagesInOrder
<1>2. DOMAIN canonical = 1..Pages /\ \A i \in 1..Pages : canonical[i][1] = i
  OBVIOUS
<1> HIDE DEF canonical
<1>3. [i \in DOMAIN list |-> Listing[s][list[i][1]]] = [i \in DOMAIN canonical |-> Listing[s][canonical[i][1]]]
  BY <1>1, <1>2
<1>4. QED
  BY <1>3 DEF SkusOf, WholeListing, canonical

\* The price that q finds is that of an SKU of the whole listing that its rule lets
\* through and prefers to every other one, and none is found only when there is none.
FoundInListing(s, q, price) ==
  LET candidates == Candidates(WholeListing(s), q[2], Region)
  IN IF candidates = {} THEN price = <<"nothing">>
     ELSE \E k \in candidates : /\ \A j \in candidates : Precedes(WholeListing(s), k, j)
                                /\ price = WholeListing(s)[k].prices

\* Matching against the whole listing finds that SKU.
LEMMA Matched ==
  ASSUME NEW s \in DOMAIN Questions, NEW q \in Questions[s]
  PROVE  FoundInListing(s, q, Match(WholeListing(s), q[2], Region))
<1> DEFINE whole == WholeListing(s)
           candidates == Candidates(whole, q[2], Region)
           k == SelectUnique(whole, candidates)
<1>1. \A i \in candidates : i \in Nat /\ whole[i].length \in Nat
  BY ListingAssumption DEF Candidates
<1>2. Match(whole, q[2], Region) = IF candidates = {} THEN <<"nothing">> ELSE whole[k].prices
  BY DEF Match
<1>3. CASE candidates = {}
  BY <1>2, <1>3 DEF FoundInListing
<1>4. CASE candidates # {}
  <2> HIDE DEF whole, candidates
  <2>1. k \in candidates /\ \A j \in candidates : Precedes(whole, k, j)
    BY <1>1, <1>4, Preferred
  <2> HIDE DEF k
  <2>2. \E i \in candidates : /\ \A j \in candidates : Precedes(whole, i, j)
                              /\ Match(whole, q[2], Region) = whole[i].prices
    BY <1>2, <1>4, <2>1
  <2>3. QED
    BY <1>4, <2>2 DEF FoundInListing, whole, candidates
<1>5. QED
  BY <1>3, <1>4

-----------------------------------------------------------------------------
(* The theorems *)

\* Before the first estimate nothing is cached.
LEMMA InitSound ==
  ASSUME Init
  PROVE  IInv
<1>1. NoEstimate \in Estimate /\ 1 \in 1..MaxDay
  BY Nothing, CatalogAssumption
<1>2. TypeOK
  BY <1>1 DEF Init, TypeOK
<1>3. \A w \in Workers : est[w] = NoEstimate
  BY DEF Init
<1>4. (\A w \in Workers : Fetching(w)) /\ PricedFromWhole
  BY <1>3, Nothing DEF Fetching, PricedFromWhole
<1>5. QED
  BY <1>2, <1>4 DEF Init, IInv

\* What is cached and what has been fetched keep their pages in order.
THEOREM Inductive == Spec => []IInv
<1>1. IInv /\ [Next]_vars => IInv'
  BY LookupStep, PriceStep, FindServiceStep, FetchPageStep, FailStep, AnsweredStep, SurroundingsStep
     DEF Next, Price
<1>2. QED
  BY InitSound, <1>1, PTL DEF Spec

\* Every reachable state of the catalogue client is well typed.
THEOREM TypeCorrect == Spec => []TypeOK
<1>1. IInv => TypeOK
  BY DEF IInv
<1>2. QED
  BY <1>1, Inductive, PTL

\* What is cached is the whole list, whatever was retried, refused or stored by
\* another thread meanwhile (list_skus, _get_skus).
THEOREM Complete == Spec => []ListComplete
<1>1. IInv => ListComplete
  BY CatalogAssumption DEF IInv, Whole, PagesInOrder, ListComplete
<1>2. QED
  BY <1>1, Inductive, PTL

\* No price of a finished estimate was looked up in a part of the list.
THEOREM FromWhole == Spec => []PricedFromWhole
<1>1. IInv => PricedFromWhole
  BY DEF IInv
<1>2. QED
  BY <1>1, Inductive, PTL

\* What each question of a finished estimate finds.
PricesFound ==
  \A w \in Workers : est[w].outcome = "priced" =>
    \A s \in DOMAIN Questions : \A q \in Questions[s] :
      FoundInListing(s, q, Match(SkusOf(s, est[w].list), q[2], Region))

\* Whatever was retried, refused, expired or stored by another thread while it was
\* looked up, a price of a finished estimate is that of the SKU which the rule prefers
\* in everything Google lists, never of one preferred only because the others had not
\* arrived or were no longer there (_get_skus, _select_unique).
THEOREM Found == Spec => []PricesFound
<1>1. PricedFromWhole => PricesFound
  BY WholeListed, Matched DEF PricedFromWhole, PricesFound
<1>2. QED
  BY <1>1, FromWhole, PTL
=============================================================================
