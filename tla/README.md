# TLA+ models of the GCP cost estimator

Modules, TLC configurations and TLAPS proofs about the backend in
`src/backend/app`: what its requests, processes and background jobs may do to
each other's state, what the estimate pipeline makes of a requirement, where a
requirement may come from, and who may see the result.
`PROJECT.json` maps every definition to the lines it models and lists the
components, runs, mutants, theorems, findings and hazards.

## 1. The system

A Next.js frontend (a questionnaire wizard, a project history, a session) calls
a FastAPI backend. The endpoints are synchronous functions, so each server
process runs several of them at a time in its thread pool, and the deployment
runs several replicas. Every request has a database session of its own on a
READ COMMITTED PostgreSQL. One Redis is shared by all: exchange rates, SKU
lists, rate-limit counters, the Celery broker and its result backend. A Celery
worker runs report and batch jobs; Celery beat fires the retention sweep daily.

### Inventory

Paths are below `src/backend/app` unless they begin with `frontend`.

| Component | State | Operations | What is hard | What makes it correct |
|---|---|---|---|---|
| Estimate versions and the audit trail (`repositories/estimate_repository.py`, `services/project_service.py`, `tasks/audit_tasks.py`) | `estimate_versions`, `audit_log_rows` | save a version, list, reload, purge | `max(version) + 1` is read without a lock; crash between commit and answer; the sweep's cut-off | numbers never skip, respect the order users saw, acknowledged versions stay and reload, audit rows live exactly as long as they must |
| Projects and budgets (`repositories/project_repository.py`) | `projects` | create, list, patch the budget | the ORM writes only what differs from what the session loaded | each PATCH takes effect once, at an instant between its start and its answer |
| Exchange rates (`pricing/currency_converter.py`) | fresh and stale snapshot per store, the chosen backend of a process | get rates, convert a report | retries, two writes that are not atomic, Redis outages, expiry | never an invented rate, the last resort is never lost, a report is never blocked |
| Rate limiter (`middleware/rate_limit.py`) | a counter per bucket and window, in Redis or in a process | check, at every request | INCR and EXPIRE are two commands; window boundaries; outages | no window admits more than the limit, no undeserved rejection, no counter left behind |
| Live price lookup (`pricing/gcp_provider.py`, `gcp_client.py`, `cache.py`) | the cached SKU list of a service | look a price up, fetch pages | a dictionary shared by threads, retried pages, expiry | lists are whole, prices become current, estimates end |
| Asynchronous jobs (`api/routers/jobs.py`, `tasks/`) | queue, results, files | enqueue, run, status, download | lost and repeated messages, dying workers, expiring results, two reads of one result | batches isolate their errors, downloads have files, jobs finish |
| SKU matcher (`pricing/sku_matcher.py`) | none | a query per kind of price | SKUs that differ by a word, families whose names begin alike | each query picks the SKU meant for it, whatever stands before it |
| Estimate pipeline (`services/estimation_service.py`, `recommendation_engine.py`, `catalog/service_catalog_bridge.py`) | none between requests | recommend, bridge, validate, normalize, price | seven stages that read one catalog by rules of their own | what is priced differently from what was asked is explained, nothing selected vanishes |
| Catalog, validation, normalization, pricing (`catalog/`, `validation/`, `normalization/`, `pricing/engine.py`) | none | lookups; findings; substitutions; line items, discounts, totals | boundaries, rounding, two fleets with discounts of their own | findings and substitutions agree, discounts do not meet, rows add up to rounding |
| Service catalog forms (`catalog/service_definitions.py`, `service_catalog_derivations.py`, `generic_pricing.py`, `messaging_observability_pricing.py`) | none | validate, derive, price | prices tied to fields by name, modes and floors, free tiers, values of the wrong kind | usage shows in the price, no form halts an estimate |
| Optimization (`optimization/rightsizing_engine.py`, `commitment_engine.py`) | none | advise a size, advise a term | advice computed from parts of two estimates | an upsize ends the shortage, a commitment lowers the bill |
| Intake (`intake/`, `services/extraction_service.py`, `llm/groq_provider.py`) | none between requests | upload a workbook, extract from a text, estimate at once | sections refused as a whole, fallback to a model, retries | no entry that was read is lost without a word |
| Accounts (`services/auth_service.py`, `core/security.py`, `api/dependencies.py`) | `users`, tokens in the clients' hands | register, log in, the checks of every guarded endpoint | overlapping registrations, tokens older than the row | one account per address, no authority but the row's |
| Architecture texts, reports, other providers, application shell | none | layout, tables, configuration | little that is stateful | not modelled, see section 7 |
| Wizard, session and API client (`frontend/src`) | wizard form, token | validate while typing, submit, restore a session | responses out of order, lost responses, a mount-time check racing a login | not modelled, see section 7 |

How they interact: a save calls the whole pipeline, then the version
repository; the pipeline calls the SKU catalog when the live provider is
configured; a report reads a stored version and asks for exchange rates; a job
runs the pipeline or the report writer in another process; every request passes
the limiter first. The pipeline touches no database and the repositories never
look inside an estimate, which is why they are separate models: an estimate is
an identity in `EstimateVersions`, and a price lookup either answers or fails in
`EstimatePipeline`. The intake and the advisers do run the pipeline, within their
own request, and `EstimateApi` composes them with it.

## 2. Modules

| Module | Role |
|---|---|
| `VersionHistory` | abstract: numbered entries that only grow. `StrictSpec` is the promise of the documentation (each entry takes the next number), `LooseSpec` what is left when saves overlap |
| `EstimateVersions` | the version and audit repositories as the workers use them |
| `BudgetRegister` | abstract: a budget per project that each call sets at one instant |
| `ProjectBudget` | creating projects and patching budgets through the ORM |
| `CurrencyRates` | rate client, retries, two cache backends, fallback, both kinds of request |
| `RateLimiter` | both limiters, the choice between them, clock and windows |
| `SkuMatcher` | the queries over a list of SKUs |
| `SkuCatalog` | SKU cache, paginated client, estimates that look prices up repeatedly; matches with `SkuMatcher` |
| `AsyncJobs` | jobs endpoints, both tasks, Celery as configured here |
| `UserAccounts` | registration, login, tokens, guarded requests and edits of the users table |
| `PricingCatalog` | the catalog's lookups and the arithmetic shared with it |
| `ServiceCards` | the service catalog's table: a card's numbers, options and price dimensions |
| `ServiceForms` | what is made of a filled-in form: issues, derived values, prices, sections |
| `Validation`, `Normalization`, `Pricing` | the three stages as operators over the catalog and the forms |
| `EstimatePipeline` | composes the three (EXTENDS) with recommendation, bridge and resource rows; one action per stage |
| `Optimization`, `Intake` | the requests that run the pipeline on somebody's behalf: advisers, uploads and texts |
| `EstimateApi` | composes the pipeline with both |
| `EstimateVersions_proofs`, `ProjectBudget_proofs`, `UserAccounts_proofs`, `RateLimiter_proofs`, `CurrencyRates_proofs`, `SkuCatalog_proofs`, `AsyncJobs_proofs`, `EstimateApi_proofs` | the theorems of section 6, each beside the module it extends |
| `MC*` | instances for TLC: constants that a .cfg cannot write, symmetry sets, a part of the catalog and requests around its boundaries |

### How state and actions correspond to the code

**EstimateVersions.** `rows` are the committed versions, `audit` the estimates
whose audit rows are stored, `age` their whole days since. A worker `req[r]` has
a program counter, and a step is one statement other requests can observe:
`BeginSave` (authorisation), `Price` (the pipeline returns), `ReadNumber` (SELECT
max), `CommitVersion` (INSERT, audit rows and COMMIT: what a session has flushed
is invisible to the others, so they are one step), `AnswerSave` (201). `Abandon`
is any exception, disconnect or crash: the session rolls back. `DayPasses` and
`PurgeAudit` are the calendar and the sweep. `floor` (the largest number
acknowledged when the request began) and `acked` are history variables.

**ProjectBudget.** A PATCH loads (`LoadProject`), commits (`CommitBudget`, which
writes only if the value differs from the loaded one) and answers. It implements
`BudgetRegister`: a PATCH that will write nothing takes effect when it loads.
`TypeOK` serves the proof of that.

**CurrencyRates.** A snapshot is the day it was published, 0 none. `fresh[s]` and
`stale[s]` are the keys with and without a time to live in Redis or in a process;
`StoreFresh` and `StoreCopy` are two writes, as in the code. A process chooses
its store once, at its first request. `torn` records that a writer died between
the two writes. `Covered` are the days whose rates include the display currency.

**RateLimiter.** `counts` and `ttl` are Redis counters and their expiry, `own` the
counter of a process. A check over Redis is `Stamp` (read the clock), `Incr`,
`ExpireKey`; over memory it is one step, since the middleware awaits nothing.
`started`, `granted` and `orphaned` are history variables.

**SkuCatalog.** `cached` is the list under one key, a sequence of pages named by
place and publication day, `expired` whether its time is up. In the dictionary
backend a lookup that finds an expired entry deletes it in a second step
(`SeesExpired`, `DeleteExpired`); in Redis expiry is atomic. `SkusOf` turns a list
into SKUs, and `SkuMatcher` answers each question about it: a SKU is its resource
group, usage, service, regions, the length of its description and the keywords
the queries look for, so a query is a filter and `SelectUnique` the tie-break.
`prices`, of which the queries know nothing, says what a SKU is for.

**UserAccounts.** `users[i]` is a row, `tokens` the issued tokens (subject and role
claim), `serving[w]` the request of a worker between its reads: `Register` reads
and `Insert` writes, `LogIn` issues a token, a guarded request reads the caller's
row and then the project's. Tokens expire and rows are edited between any two
steps. `witnessed` is a history variable: what the caller's row has been since the
request began.

**AsyncJobs.** `queue` counts the undelivered copies of a message (a second one
appears when the visibility timeout redelivers), `meta` is the result backend,
`task` what a slot runs, `request` a status or download request between its
reads: an answer is put together from a readiness, a state and a result. `Ask` reads the
record for the first; a finished record is kept for the rest of the request, an unfinished
one is read again for the state, and may have changed or gone by then (`Answer`). `lost` and `expired` are history variables. Celery and its broker are
external: acknowledged at start, successes final, results expiring.

**EstimatePipeline.** `stage` walks through the stages; `work` is the requirement
as the stages fill it in, `rest` the selections not bridged to a section, `noted`
the fields with an assumption, `found` the findings, `spec` and `cost` the
results. A finding is its field and severity and an assumption its field; the
wording is left out. Prices are hundredths of a cent, amounts cents, RAM
twentieths of a GB, so that all roundings of the code are integer arithmetic.
`BridgeRaises` and `PricingFormRaises` are the exceptions that no handler maps.

**ServiceCards, ServiceForms.** A card is a record of its numbers (default, bounds,
required), choices and price dimensions, in the order of the source. A form says
what was entered, which number fields were cleared (null) and which hold something
else. `FormIssues`, `Derived`, `Points` and `ReadsAs` are the rule, the derivations,
the prices and the reading as a requirement's section.

**Optimization, Intake, EstimateApi.** An adviser calls `generate_estimate` two or
three times: the pipeline's own stages run between its steps (`WeighCurrent`,
`WeighResized`, `WeighTerm`), `Another` starts the next estimate, and one that is
blocked or raises refuses the request (`AdviceFails`). An upload walks through
`ReadTemplate`, the model's answers, refusals and busy signals, and, when asked to,
through the pipeline's own steps (`EstimateExtracted`, `FoldEstimate`); the requests
share nothing, so one at a time is under way. A workbook and an answer of the model are
read by one rule (`Taking`), but not alike: a sheet's empty texts are blanks and the
model's are values (`SheetBlanks`, `AnswerBlanks`), and of the model's top level only the
name and the region are looked at (`Heeded`). Of either, an infinite number
in an integer's field ends the request with an error that nobody catches (`Overflows`),
as does a list in the model's answer that is none. `read` is what the answer rests on: the sheet's cells, the model's,
or nothing.

Definitions called "a faulty variant" in a comment are not part of a
specification: they are plausible bugs of the definition after them, used to see
that each property can fail.

## 3. Runs

All passing runs check deadlock; none disables it.

| Run (`.cfg`) | Question | Bounds | States, time |
|---|---|---|---|
| `VersionsOverlap` | With overlapping saves, abandoned ones and the sweep: are numbers contiguous, in the users' order, durable; do audit rows last for their retention and no longer; is the history append-only; and while no two saves of a project overlap, does every version reload as saved? | 2 workers, 2 projects, 2 users (one admin), 2 estimates, retention 1 day | 105,000, 20 s |
| `VersionsDuplicate` | Does every acknowledged version reload when saves overlap? No (finding 1) | 2 workers, 1 project | violated |
| `BudgetPatch` | Is every PATCH linearizable although unchanged attributes are not written? | 3 workers, 2 projects, 2 budgets | 124,000, 35 s |
| `Rates` | Are rates never invented, is a fresh snapshot backed by a copy, is the copy never lost, do answers become current and do requests respond? | 2 threads, 2 published days of which the second lacks the currency, 2 attempts | 188,000, 65 s |
| `RatesRedisOutage` | Does a Redis outage never block a report? It does (finding 2) | the same | violated |
| `Limiter` | Is the limit kept, is a rejection deserved, do counters expire, across processes, outages, restarts and a window boundary? | 2 processes, 1 bucket with limit 2, window of 2 ticks, 3 ticks, 3 checks a window | 768,000, 50 s |
| `Catalog` | Are cached lists whole, does every price come from the SKU meant for it, do prices become current and estimates end? | 2 threads, 2 pages of 50 SKUs, 2 lookups an estimate, 1 retry, 2 days | 33,000, 40 s |
| `Jobs` | Are batches isolated, do downloads have files, is a status coherent, do jobs finish? | a report and a batch of 2 with one bad item, 2 slots, 1 client, each message at most twice in the queue | 64,000, 15 s |
| `Pipeline` | Are substitutions explained and announced, custom shapes priced as asked, recommendations buyable, selections accounted for, discounts apart, rows reconciled to rounding; does usage show in the price, does advice pay, is no entry read lost? | 10,000 requests, 2,200 questions to the advisers, 1,000 workbooks and texts, see below | 588,000, 35 s |
| `IntakeText` | Is every inference from a text recorded? No (finding 4) | the same requests, workbooks and texts | violated |
| `PipelineForms` | Can any form be priced or refused without halting the estimate? No (finding 3) | every card as added, left empty, and with each field cleared or spoilt | violated |
| `Accounts` | Is there one account per address, and does nothing go by a role or a row that the caller did not have during the request? | 2 workers, 2 addresses, 1 project, 2 edits of the users table | 1,300,000, 60 s |

Each model has its type invariant where a proof needs one; only that of
`EstimateVersions` is among the runs' properties, since the others follow from the
shape of the actions (and are proved).

Why the bounds are enough:

- *Versions.* Two saves, of one project or of two, that overlap or follow one
  another, and any number that are abandoned at any step, are the smallest
  instance in which a gap, a step back in the order or a duplicate can appear; the
  proofs lift it to any number. One day of
  retention makes "within", "at" and "past" the cut-off different ages.
- *Budgets.* Three PATCHes: one that writes nothing, one that writes between its
  load and its commit, and one that comes after both.
- *Rates.* Two days make "newer" and "older" writes differ; two attempts make
  first, retried and last failure differ; two threads of one process interleave
  as two processes on one Redis do, and share a store of their own as well.
- *Limiter.* A limit of two and three checks a window give every verdict, the
  boundary is crossed once, and two ticks make the expiry of a counter, which
  runs from its first request, differ from the end of its window.
- *Catalog.* Two pages make half a list possible, one retry a retried and a
  refused page, two lookups an expiry within an estimate. The lists are shaped after
  the catalog's real answers: for each question a look-alike before the right SKU
  and one after it, longer and shorter, of another region, usage, family with a
  similar name, tier or group.
- *Jobs.* A bad item before a good one; two copies of a message; a slot for
  each.
- *Pipeline.* The stages never compare two requests and read a requirement's
  sections mostly apart, so requests vary one section at a time around the
  bounds, increments and sizes of the families (custom and not, every strategy,
  forced or not, named types), then pairs that meet: both fleets under every
  provisioning model and commitment, selections with sections already filled.
  The catalog has each kind of family of `mock_data.py`: increments of two,
  RAM ratios that are not whole (N1), no custom shapes, one region only. The cards
  are those of the source, each with every option in turn; the advisers are asked
  at and between their thresholds; a workbook has a section at a time, with values
  in and out of the bounds of its model, of the wrong kind, blank, empty and too large
  for an integer, and pairs of sections.
- *Accounts.* Two registrations of one address, a second account to be confused
  with the first, and two edits: a role taken and given back, or taken and the
  account deactivated, between the reads of one request.

Symmetry is used only in runs without liveness properties, over sets whose
members the specification does not tell apart.

## 4. Fairness

- `EstimateVersions!FairSpec`: weak fairness of `DayPasses` and `PurgeAudit`. The
  beat schedule fires the sweep every day; nothing is assumed of the requests.
- `CurrencyRates!FairSpec`, `SkuCatalog!FairSpec`: weak fairness of each worker's
  own steps (a running thread is scheduled, and the HTTP client has a timeout, so
  an attempt ends one way or the other) and of `Expire` (a time to live elapses).
  Nothing is assumed of the source or of Redis: they may fail for ever, restarts
  and crashes may go on for ever.
- `AsyncJobs!FairSpec`: weak fairness of `Work(w)`, the steps of a task slot.
  Deaths, redeliveries, expiries and clients are not fair.
- The other specifications have safety properties only.

## 5. Where the code and its documentation disagree

Each has a run whose counterexample is a behaviour of the code.

1. **Two overlapping saves commit the same version number**
   (`estimate_repository.py:30`, run `VersionsDuplicate`). There is neither a lock
   nor a unique constraint; both are answered 201, and `get_version` then raises
   for either. `src/README.md:93-95` promises an immutable, auto-incrementing
   version that can be reloaded.
2. **A Redis outage does block a report** (`currency_converter.py:135`, run
   `RatesRedisOutage`). The backend is chosen once per process; a command that
   fails afterwards raises past the handler, which expects another exception.
   The comments at `:17-18` and `:363-364` say it must not.
3. **A card as it is added can halt an estimate** (`service_catalog_bridge.py:55`,
   run `PipelineForms`). Persistent Disk starts at 0 GB and Cloud SQL at 0 vCPU;
   reading them as a requirement raises in the middle of the pipeline and nothing
   maps the exception. `validation/rules.py:585-587` says that such a selection
   "should surface as a warning, not halt an estimate".

4. **Not every inference from a text is recorded** (`intake/text_extractor.py:211`, run
   `IntakeText`). A VPN keyword sets `vpn_required` (`:242`), and an uptime of 99.9 or
   more sets the availability section's `high_availability` (`:202`), neither with an
   `Assumption`; the load balancer, the CDN and a stated high availability have one each.
   `:14-17` says: "Every inference is recorded as an `Assumption` ... never a silent
   guess", and `api/routers/intake.py:101` promises it of the answer. `InferencesRecorded`
   does not ask for a note of its own for what follows from a signal that has one
   (`Implied`: the balancer's address, GKE's Autopilot, the backups of a stated recovery).

Met while modelling, without a run of their own:

- `pricing/cache.py:91`: two threads find one expired dictionary entry, and the
  second `del` raises `KeyError`, an internal error, although `:15-17` says a missing
  Redis never breaks pricing. `SkuCatalog` reaches it (`DeleteExpired`).
- `catalog/resource_summary.py:92`: a rounded unit cost times a quantity is not the
  rounded amount; `domain/pricing.py:36-39` says the rows always reconcile exactly.
  `RowsReconcile` states what holds: exactly for the five sections, up to the
  rounding for the catalog's services.
- `optimization/rightsizing_engine.py:22-26` says the advised machine is "never
  under-provisioned on either axis": only vCPUs, only for an upsize, and only under
  the performance strategy is that so (`AdviceFits`).
- `middleware/rate_limit.py:12-15`: as finding 2, for the limiter.
- `catalog/generic_pricing.py`: Cloud Composer's workers, Workflows' steps and VPC
  subnets have no price and no note (`Informational` is this project's own list of such
  fields; the source says so of none);
  a select left out is priced at `unit_price_usd`, which is not always the default
  option's rate.
- `services/extraction_service.py:118-134`: a template whose every section is refused
  falls through to the model, or to "unrecognized", and its issues are lost, although
  `intake/excel_parser.py:5-10` says that "the caller sees exactly which section/field
  failed and why". `IntakeAccounted` is about the reading that was answered: the sheet
  counts as unread from there on. `:167-168`: an unknown region is dropped silently.
- `intake/build.py:58`: `int()` of an infinite number raises `OverflowError`, which neither
  caller catches (`excel_parser.py:47`, `extraction_service.py:179`), so the whole upload
  fails instead of the one field. In the model's answer a list of assumptions or of
  unmapped labels that is a number raises as well (`:196`, `:200`), although `:25-28`
  says the service never raises. Both are modelled (`Overflows`, `ModelAnswers`) and end
  the request.
- `pricing/sku_matcher.py`: Cloud SQL's queries ignore the engine, and a standard
  GKE cluster is always priced as zonal.
- `catalog/generic_pricing.py:104`: a number that its form gives no minimum may be
  negative, and its line item is then a refund, without a finding.
- `services/auth_service.py:30`: the loser of two overlapping registrations gets an
  internal error, not a 409. `api/dependencies.py:80-95`: the optional user may be
  inactive; an inactive administrator's token still exports the audit sheet.

Passing properties that are weaker than a reader may expect, because the code
promises no more: `LaterSaveHasLargerNumber` speaks of saves that begin after an
acknowledgement, not of overlapping ones; `CommitmentPays` compares totals, not the
savings the answer quotes, which leave the lost sustained-use discount out;
`ReloadsWhileApart` is about saves of a project that follow one another (finding 1 is
about the others); `SelectionsAccounted` excepts a selected service whose section was
already filled, which the bridge drops silently (listed as a hazard); `UsageBilled`
excepts the fields of `Informational`; `DiscountsApart` bounds the discounts by the bill only where no line item is a
refund; `CountersExpire` excepts the counters whose creator failed between
INCR and EXPIRE; `FreshIsBacked` excepts a store whose writer died between its
writes; `JobFinishes` excepts jobs whose worker died, which stay STARTED.

## 6. What is proved

Each `*_proofs` module extends a model and proves theorems about its specification
for every value of the constants that its assumptions allow. The runs check the
same statements on instances; the invariants that the proofs add were given
to TLC on those instances before they were proved.

| Module | Theorem | Statement |
|---|---|---|
| `EstimateVersions_proofs` | `Inductive`, `TypeCorrect` | `Spec => []IInv`, `Spec => []TypeOK` |
| | `Contiguous` | `Spec => []VersionsContiguous` |
| | `RealTimeOrder` | `Spec => []LaterSaveHasLargerNumber` |
| | `Durable` | `Spec => []AckedDurable` |
| | `RetentionHonoured` | `Spec => AuditKeptForRetention` |
| | `Refinement` | `Spec => AppendOnly`: the rows implement `VersionHistory!LooseSpec` |
| | `SerialReload` | `Spec => ReloadsWhileApart`, which is `[]OneSavePerProject => []AckedVersionsReload` |
| | `SerialNumbers` | `Spec /\ []OneSavePerProject => AutoIncrementing`: then they implement `StrictSpec` |
| `ProjectBudget_proofs` | `Linearizable` | `Spec => BudgetLinearizable`: the sessions implement `BudgetRegister` |
| `UserAccounts_proofs` | `Exclusive` | `Spec => []RegistrationsExclusive` |
| | `Authorised` | `Spec => []NoStaleAuthority` |
| | `IdentitiesStay` | no step takes an account's key, its address or a project's owner away |
| `RateLimiter_proofs` | `WithinLimit` | `Spec => []AdmittedWithinLimit` |
| | `Deserved` | `Spec => []RejectionDeserved` |
| | `Expiring` | `Spec => []CountersExpire` |
| `CurrencyRates_proofs` | `Published` | `Spec => []NeverFabricated` |
| | `Backed` | `Spec => []FreshIsBacked` |
| | `CopyKept` | `Spec => CopySurvives` |
| `SkuCatalog_proofs` | `Complete` | `Spec => []ListComplete` |
| | `FromWhole` | `Spec => []PricedFromWhole`: a price was looked up in a whole list |
| | `Found` | `Spec => []PricesFound`: each price is what its query finds in everything Google lists |
| `AsyncJobs_proofs` | `Isolated` | `Spec => []BatchIsolated` |
| | `Downloads` | `Spec => []DownloadHasFile` |
| | `Coherent` | `Spec => []StatusCoherent` |
| `EstimateApi_proofs` | `Determined` | `ApiSpec => [](Staged /\ AllAccepted)` |
| | `Explained` | `ApiSpec => []SubstitutionsExplained` |
| | `PricedAsAsked` | `ApiSpec => []CustomPricedAsAsked` |
| | `Accounted` | `ApiSpec => []SelectionsAccounted` |
| | `Announced` | `ApiSpec => []SubstitutionsAnnounced` |
| | `Carries` | `ApiSpec => []AdviceFits` |
| | `AnswersAccounted` | `ApiSpec => []IntakeAccounted` |
| | `Buyable` | `ApiSpec => []RecommendationFits` |
| | `Apart` | `ApiSpec => []DiscountsApart` |
| | `Reconciled` | `ApiSpec => []RowsReconcile` |

### The arguments

**EstimateVersions.** None of the invariants is inductive by itself, because a save
carries what it read across the steps of others. `IInv` adds what a save in flight
knows: the number it holds is one or follows a *committed* number (`NumberFollows`),
so that committing it leaves no gap, however late; the largest number acknowledged
when it began is committed (`FloorCommitted`), so that the maximum it reads later
is at least that; and past its commit its row is in the table (`SavedIsStored`), so
that answering is safe. All three are stable because no step removes a row
(lemma `RowsGrow`), which is also the heart of the refinement. There,
`CommitVersion` maps to `AppendAtMostNext`, with the number before the committed one
as the witness that `NumberFollows` provides, and every other step to a stutter.
What overlapping saves break (finding 1) holds while no project has two saves under
way, `OneSavePerProject`: then a number that was read is larger than every committed
one until it is committed (`NumberFresh`), so no two rows share a number. The
hypothesis does not ask for a single worker: any number of them may serve different
projects.

**ProjectBudget.** The refinement mapping takes a PATCH to an abstract call that has
taken effect when it is committed or, if it wants what it has loaded, from the
start. So loading is either a start or a start together with its effect, and a
commit is either the effect or invisible, which is why another worker's write
between the two does no harm.

**UserAccounts.** `NoStaleAuthority` speaks of what is shown, several reads after the
row that entitles to it. `RequestKnows` follows a request: the role it works with
was its caller's at some instant since it began, while the caller was active; a
refused registration's address has a row; the caller's row exists. These are stable
because accounts keep their keys and addresses (`IdentitiesStay`) and what was
witnessed only grows while the request lasts, whatever is edited by hand.

**RateLimiter.** The limit is about what was granted, the code decides by counters,
and counters expire. `RedisCounter` and `OwnCounter` relate them: from the window the
clock shows on, no more is granted than the counter says. That is inductive only with
the third part, that an expiry lies past the end of its window: EXPIRE is sent in or
after the window it is for, so a counter whose window lasts is still there. In the
other direction a counter together with the checks about to increment it (`Stamped`,
counted by cardinality, hence finitely many processes) is at most the checks that
were started, so a rejected check had a full limit before it. When Redis comes back
empty, what it granted is forgotten with its counters: the property speaks of what a
store admits while it lasts.

**CurrencyRates.** What a request delivers was decided steps before. `Sound` says what
each step knows: a snapshot about to be stored was published, and a fallback means
that the attempts are used up, so that the mark is true exactly then. `FreshIsBacked`
rests on `Placed` and `ProcessPlaced`: the store a request writes to is fixed while it
lasts, or the copy would land beside the fresh snapshot of another.

**SkuCatalog.** The list arrives page by page between retries and refusals.
`PagesInOrder` says that what has arrived is a prefix of the list, and `Fetching` that
it is whole when it is stored. Pages of different days may meet in one list, as in the
code; pages are never missing or twice in it. `Found` takes that to the prices: a list in
the cache has what the whole listing has (`WholeListed`), and the rule picks from any
finite set of candidates one that precedes all others (`Preferred`, the shortest
description, then the first), so a price is never of a SKU that was preferred only
because a better one had not arrived. Whether the SKU found is the one *meant* depends on
how Google words its list and is checked on look-alikes (`CanonicalMatch`).

**AsyncJobs.** A batch is recorded in one step but may be run by several workers.
`Prefix` says that the results a worker has are those of the first items, each of its
item alone and counted right, and `RequestSound` that what a request has read is as
sound as what was recorded, although the record may have expired by now. `Shown` keeps
the parts of a status answer together: the state that was found finished is the one whose
result is shown, since a finished state is read once and kept.

**EstimateApi.** `Staged` says that what a request has at each stage (bridged
requirement, findings, specification, notes, cost) is the function of its requirement
that the stages compute, with nothing of an earlier request. That makes the three
properties statements about operators, but only for the requirements that can be under
way: `AllAccepted` says these are ones that the models of a requirement accept,
whether a client, a workbook, a text or an adviser made them. The two are inductive
only together: rightsizing asks for a size that the estimate before it determined, so
`AllAccepted` needs `Staged`. On that rest

- `Explained`: `Bought` says of every branch of the normalization (custom, predefined,
  a type by name, unknown names, the fallback of a family without custom shapes)
  that it yields a machine and a note for whatever differs. Each branch picks from a
  list that must not be empty, and the closest exists because distances are
  naturals (`Least`, `FirstClosest`, from well-founded induction);
- `PricedAsAsked`: a shape with no finding is a fixed point of the clamp
  (`ShapeKept`). Validation checks increments by remainders and bounds by
  cross-multiplication, the clamp rounds, divides and multiplies back; they agree for
  every increment, ratio and bound, not only for the families of the instance;
- `Accounted`: a selection that is not its section's source is among those that are
  left over, because the n-th index of a finite set reaches each of its members
  (`NthReached`);
- `Announced`: `Bought` with validation's findings beside the notes. Each branch of
  the normalization that yields something else than what was asked has a finding that
  validation makes on the same condition, and the two rules for which validation
  announces what normalization does (boot disk, node count) meet in the other direction;
- `Buyable`: what the recommendation fills in (`FilledIn`) is computed for every number
  of users from a table of shapes; `StockAssumption` says that the table's shapes are
  sold, and then no branch of validation and normalization objects;
- `Apart`: every line item's category and SKU put it in at most one of the two
  discounts' sets. That is proved of the items of each section as a fact about every
  element of a list that is concatenated, flattened and filtered (`Everywhere`). The sums
  are over sets of indices, so that inequalities between them go by induction over
  finite sets: each of the three discounts is at most the sum of its items, the items
  are disjoint (`FairAll`), hence the discounts are at most the bill;
- `Reconciled`: the sections' rows partition their line items, because the groups'
  SKUs are disjoint (`GroupsApart`) and every item of every section has a SKU of one
  (`Rowed`): an item without a group would be missing from the rows. A sum over a set is
  the sum of the sums over its parts (`SumParts`), so the totals are equal
  (`SectionsReconcile`). The catalog's rows partition the selections by their first
  equal one, and a row is one unit's cost times the quantities (`RowsSum`), where the
  bill has the items of all units, those of the volume services last (`ExtrasSum`).
  Per item the two differ by at most half a cent for the item and half a cent for each
  unit (`RoundedApart`), which adds up over items and selections (`SumApart`).

Two more invariants follow the requests that others make. `Advised` says what a
rightsizing request has asked the pipeline for while it waits for the answer: an
upsize asks for at least the load over the target utilization, and the requirement
under way is the analysed one with that size. The normalization under the performance
strategy takes a type as large wherever the family has one, so the advised machine
carries the load (`Carries`). `Ledger` says of an upload, from the moment its answers
are read, that each of the entries they rest on is in the requirement or in an issue;
the estimate that follows only adds issues. For a template and for an answer with a
section that is a fact about `Taking` and `Build` (`ReadAccounted`), for an answer without
one about `Taking` alone (`UnreadAccounted`). `AnswersAccounted` follows. It says nothing
of texts: there the code breaks its promise (finding 4).

### The assumptions

Placeholders (`Nothing`, `NoJob`, `NoStore`, `NoUser`...) differ from real identities;
the others are

- `VersionsAssumption`: admins are users, every project has an owner, the retention is
  a positive number of days. `BudgetAssumption`: admins are users.
- `AccountsAssumption`: keys are naturals (the table's sequence), and the number of
  edits is one.
- `LimiterAssumption`: finitely many processes, positive limits and window, bounds on
  the clock and on the checks of a window that are naturals of any size.
- `RatesAssumption`, SkuCatalog's `CatalogAssumption`, `JobsAssumption`: at least one
  attempt, one published day, one page and one item; a batch's bad items are its own.
- `ListingAssumption`: the places of the SKUs and the lengths of their descriptions are
  naturals.
- PricingCatalog's `CatalogAssumption`: what `catalog/mock_data.py` has. Every family
  that is sold has a type, sizes, bounds and increments are positive and in order, and
  `Nothing` is no number.
- `StockAssumption`: the families and shapes of the recommendation engine's table are
  sold in every region, and disk types that a card offers have a minimum size.
- `DiscountAssumption`: discounts are percentages. `PriceAssumption`: whatever the
  sections sell has a price (`pricing/mock_data.py`). `CardsAssumption`: a card has a
  list of price dimensions with prices that are not negative, its fields have defaults,
  and none is called like the item of a database instance. `TablesAssumption`: what the
  tables of memory tiers and chips hold.
- `RequestsAssumption`: a request satisfies its Pydantic models
  (`domain/requirements.py`): its numbers are numbers, its quantities are not negative. `AdviceAssumption`: so do the advisers' requests, and
  usage is a percentage (`domain/optimization.py:25-32`).
- `IntakeAssumption`: a cell that reads as a number holds one, sections are those of the
  questionnaire, no machine type is called "none" or has no name, no measure is
  infinite; a text yields natural numbers and families that are sold.
- `BindingAssumption`: a card is bound to storage, database, kubernetes or nothing.

TLC evaluates each of them on the instances.

### What is only model-checked

- `CanonicalMatch`: that the SKU found is the one meant, on lists with look-alikes around
  each. Of every list it is not true: the queries' keywords are approximations
  (`sku_matcher.py:8-14`).
- Liveness under fairness (`AuditEventuallyPurged`, `EventuallyCurrent`, `Responds`,
  `PricesEventuallyCurrent`, `EstimateEnds`, `JobFinishes`), which the prover does not
  reach.
- `UsageBilled`: true of the numbers of the source's cards and prices, not of any card.
- `CommitmentPays`: strict, and for totals of a few cents the rounding of the line items
  may eat the advantage; true of the prices of the instance.
- Of the runs that expect a violation nothing is proved, except that
  `AckedVersionsReload` holds for saves that do not overlap. In the other direction
  `AutoIncrementing` is proved (`SerialNumbers`) and in no run.

## 7. Abstractions, and what is not modelled

Abstractions inside the modelled parts:

- Names, texts and formats are identities or left out; assumptions and findings
  are reduced to their field (and severity). A SKU's description is the set of
  keywords the queries look for, and its length.
- Egress tiers are one price and provisioned throughput is left out. The table of
  prices and the part of the catalog are the instance's (`MCEstimateApi`); the cards
  are the source's.
- A cell of a workbook is its kind and value; which words of a text yield which
  signal is the input of `FromText`. The model's answer is any of a set of answers. A
  measure (RAM, egress, uptime) that is infinite or not a number, and a machine type in
  the model's answer that is an empty text, are not among the cells; a whole number
  that is too large is.
- Time to live is an expiry that may happen at any moment after a store, except
  in `RateLimiter`, where it is measured on the clock.
- All hosts have one clock. The retention is in whole days.
- Project creation is in `ProjectBudget` and in `UserAccounts`; `EstimateVersions` has
  its projects from the start, since they are never deleted and never change owner.

Not modelled, and why:

- *Architecture engine, explanation and assistant texts, reports.* Functions from an
  estimate to a text or a layout; no state, no arithmetic that another part reads.
- *AWS, Azure and mock providers.* Tables behind the interfaces whose prices the models
  take as parameters. Forecast, carbon and the comparisons are one formula over them.
- *Version comparison, budget status and currency rescaling.* Differences and products
  of stored numbers.
- *The frontend.* The wizard and the session are local state of one page. They have
  races (a late validation report, a mount-time check that clears a newer token, a
  save sent again; see the hazards), but the code plainly admits them and nothing in
  the repository promises otherwise.
- *Configuration, logging, deployment.* Read for what they say of replicas, Redis
  persistence, restarts and the mapping of exceptions.

## 8. Order of the work, and what could follow

The order was: what is stored and shared first, then what is computed, then where
requests come from, then proofs, the shared state before the computed. The models are
complete as far as section 7 goes, and every safety property of the passing runs is proved
except the three that section 6 leaves to TLC, which are about the prices of the instance
and about the wording of a list.
What could follow: the reports and the version comparison, should they ever compute
something that another part reads; the wizard's races, should the frontend start to
promise an order.
