------------------------- MODULE EstimatePipeline -------------------------
(***************************************************************************)
(* EstimationService.generate_estimate (services/estimation_service.py):   *)
(* the stages one request goes through, from the requirement as submitted  *)
(* to the estimate.  Between them the working requirement is filled in by  *)
(* the recommendation engine (services/recommendation_engine.py) and by    *)
(* the bridge from the service catalog (catalog/service_catalog_bridge.py).*)
(* A request runs in one thread and keeps nothing behind, so one request   *)
(* at a time is all there is.  A price the provider cannot give fails it,  *)
(* and a form that cannot be read raises in the middle of it.              *)
(***************************************************************************)
EXTENDS Validation, Normalization, Pricing

CONSTANTS Requests   \* kind -> the requirements of that kind that may be submitted

Sections == {"compute", "storage", "database", "network", "kubernetes", "availability", "business"}
Strategies == {"conservative", "balanced", "performance"}

\* What the models of a requirement and of its sections see to
\* (domain/requirements.py), as far as the stages rely on it.
ComputeAccepted(c) ==
  /\ {"family", "machineType", "kind", "vcpu", "ram", "count", "gpuCount", "hours"} \subseteq DOMAIN c
  /\ c.family \in Families /\ c.vcpu \in Nat /\ c.ram \in Nat
  /\ c.count \in Int /\ c.gpuCount \in Int /\ c.hours \in Int
  /\ c.machineType = "none" => c.vcpu # 0 /\ c.ram # 0
StorageAccepted(s) ==
  /\ s.type \in DOMAIN DiskMin /\ s.size \in Int /\ s.extra \in Seq(Nat)
  /\ s.snapshotGb \in Int /\ s.iops \in Int /\ s.localSsds \in Int
DatabaseAccepted(d) == d.size \in Int /\ d.backup \in Int
NetworkAccepted(n) == {"balancer", "ips", "egress"} \subseteq DOMAIN n /\ n.ips \in Int /\ n.egress \in Int
KubernetesAccepted(k) ==
  /\ k.nodes \in Int /\ k.vcpu \in Int /\ k.ram \in Int /\ k.disk \in Int
  /\ k.gpus \in Int /\ k.pods \in Int /\ k.hours \in Int
\* A service is no field of a section (in the code, its field is
\* selected_services.<service>), and its form's numbers are numbers.
SelectionAccepted(s) ==
  /\ s.service \notin {"compute.vcpu", "compute.ram_gb", "storage.size_gb", "database.tier",
                       "kubernetes.node_count"}
  /\ \A f \in DOMAIN s.form.number : s.form.number[f] \in Int
  /\ s.quantity \in Nat
Accepted(r) ==
  /\ Sections \cup {"region", "strategy", "force", "term", "selected"} \subseteq DOMAIN r
  /\ r.region \in DOMAIN RegionPercent /\ r.strategy \in Strategies
  /\ r.compute # Nothing => ComputeAccepted(r.compute)
  /\ r.storage # Nothing => StorageAccepted(r.storage)
  /\ r.database # Nothing => DatabaseAccepted(r.database)
  /\ r.network # Nothing => NetworkAccepted(r.network)
  /\ r.kubernetes # Nothing => KubernetesAccepted(r.kubernetes)
  /\ r.business # Nothing => r.business.users \in Nat /\ r.business.peak \in Nat
  /\ r.selected \in Seq(Range(r.selected))
  /\ \A i \in DOMAIN r.selected : SelectionAccepted(r.selected[i])

ASSUME RequestsAssumption == \A kind \in DOMAIN Requests : \A r \in Requests[kind] : Accepted(r)

\* What the code takes the catalog to hold (catalog/mock_data.py): the families and
\* the shapes that the recommendation engine chooses from, in every region, and the
\* disk types that the card of persistent disks offers.
ASSUME StockAssumption ==
  /\ \A f \in {"e2", "n2"} : f \in Families /\ DOMAIN RegionPercent \subseteq Capability[f].regions
  /\ \A v \in {2, 4} : Fits(MachineTypes, TypesOf("e2"), v, 80 * v) # {}
  /\ \A v \in {2, 4, 8, 16} : Fits(MachineTypes, TypesOf("n2"), v, 80 * v) # {}
  /\ \A v \in {2, 4} : Fits(Tiers, TiersFor("postgres"), v, 80 * v) # {}
  /\ "disk_type" \in DOMAIN Cards["persistent-disk"].choices
  /\ Cards["persistent-disk"].choices["disk_type"].options \cup {"pd-balanced"} \subseteq DOMAIN DiskMin

VARIABLES
  stage,   \* the stage the request has reached
  req,     \* the requirement as submitted
  work,    \* the working requirement
  rest,    \* the selected services that were not bridged
  noted,   \* the fields with an assumption
  found,   \* what validation found
  spec,    \* the normalized specification
  cost     \* the cost breakdown

vars == <<stage, req, work, rest, noted, found, spec, cost>>

Stages == {"idle", "submitted", "recommended", "bridged", "validated", "normalized",
           "done", "blocked", "failed", "raised"}

Init ==
  /\ stage = "idle"
  /\ req = Nothing /\ work = Nothing /\ spec = Nothing /\ cost = Nothing
  /\ rest = <<>> /\ noted = {} /\ found = {}

Given(section) == work[section] # Nothing

\* generate_estimate is called with a requirement.
Start(requirement) ==
  /\ stage = "idle"
  /\ req' = requirement /\ work' = requirement
  /\ stage' = "submitted"
  /\ UNCHANGED <<rest, noted, found, spec, cost>>

Submit == stage = "idle" /\ \E kind \in DOMAIN Requests : \E r \in Requests[kind] : Start(r)

-----------------------------------------------------------------------------
(* Recommendation: only a request without a compute section, with business context *)

\* A faulty variant: a six-vCPU step that no family sells.
SizeComputeSix(users, headroom) ==
  LET vcpu == CASE users <= 100 -> 2 [] users > 100 /\ users <= 1000 -> 6
                [] users > 1000 /\ users <= 10000 -> 8 [] users > 10000 -> 16
  IN [vcpu |-> vcpu, count |-> 2, family |-> IF headroom \/ users > 1000 THEN "n2" ELSE "e2"]

\* _size_compute: 4 GB for each vCPU; high availability has two instances at least.
SizeCompute(users, headroom) ==
  LET vcpu == CASE users <= 100 -> 2 [] users > 100 /\ users <= 1000 -> 4
                [] users > 1000 /\ users <= 10000 -> 8 [] users > 10000 -> 16
      count == CASE users <= 100 -> 1 [] users > 100 /\ users <= 1000 -> 2
                 [] users > 1000 /\ users <= 10000 -> 3 [] users > 10000 -> 5
  IN [vcpu |-> vcpu, count |-> IF headroom THEN AtLeast(count, 2) ELSE count,
      family |-> IF headroom \/ users > 1000 THEN "n2" ELSE "e2"]

\* The sections' defaults, as the recommendation constructs them.
DefaultCompute(size) ==
  [family |-> size.family, machineType |-> "none", kind |-> "unset", vcpu |-> size.vcpu,
   ram |-> size.vcpu * 80, count |-> size.count, gpu |-> "none", gpuCount |-> 0, spot |-> FALSE,
   os |-> "linux", hours |-> 0]
DefaultDatabase(users, ha) ==
  LET vcpu == IF users > 5000 THEN 4 ELSE 2
  IN [required |-> TRUE, tier |-> "custom", engine |-> "postgres", vcpu |-> vcpu, ram |-> vcpu * 80,
      size |-> 100, ha |-> ha, backup |-> 0, commitment |-> 0]
DefaultKubernetes ==
  [required |-> TRUE, autopilot |-> TRUE, enterprise |-> FALSE, regional |-> FALSE, spot |-> FALSE,
   nodes |-> 3, family |-> "e2", vcpu |-> 4, ram |-> 320, disk |-> 100, gpus |-> 0, pods |-> 0,
   hours |-> 0]
DefaultNetwork == [balancer |-> FALSE, ips |-> 0, egress |-> 0, cdn |-> FALSE, vpn |-> FALSE]

\* Sized for the users or for those of them at a time, whichever are more.
UsersOf(business) == AtLeast(business.users, business.peak)

\* RecommendationEngine.recommend: the requirement filled in, and the fields noted.
Recommended(asked) ==
  IF asked.compute # Nothing \/ asked.business = Nothing
  THEN [work |-> asked, notes |-> {}]
  ELSE LET users == UsersOf(asked.business)
           stated == asked.availability # Nothing
           ha == stated /\ asked.availability.ha
           headroom == ha \/ (stated /\ asked.availability.uptime >= 9990)
           network == IF asked.network = Nothing THEN DefaultNetwork ELSE asked.network
           needsBalancer == (users > 100 \/ headroom) /\ ~network.balancer
           needsDatabase == asked.database = Nothing /\ (users > 500 \/ ha)
           needsKubernetes == asked.kubernetes = Nothing /\ users > 5000
       IN [work |-> [asked EXCEPT
                       !.compute = DefaultCompute(SizeCompute(users, headroom)),
                       !.network = IF needsBalancer
                                   THEN [network EXCEPT !.balancer = TRUE, !.ips = AtLeast(@, 1)]
                                   ELSE @,
                       !.database = IF needsDatabase THEN DefaultDatabase(users, headroom) ELSE @,
                       !.kubernetes = IF needsKubernetes THEN DefaultKubernetes ELSE @],
           notes |-> {"compute"} \cup Noted(needsBalancer, "network.load_balancer_required")
                     \cup Noted(needsDatabase, "database")
                     \cup Noted(needsKubernetes, "kubernetes")]

Recommend ==
  /\ stage = "submitted"
  /\ stage' = "recommended"
  /\ work' = Recommended(work).work
  /\ noted' = Recommended(work).notes
  /\ UNCHANGED <<req, rest, found, spec, cost>>

-----------------------------------------------------------------------------
(* The bridge *)

BindingOf(selection) ==
  IF KnownCard(selection.service) THEN Cards[selection.service].binding ELSE "none"

\* The selections a section could be taken from.
Bound(asked, section) == {i \in DOMAIN asked.selected : BindingOf(asked.selected[i]) = section}

\* A faulty variant: only selections without a section are left for the calculators.
LeftOverUnbound(asked) ==
  SelectSeq(asked.selected, LAMBDA s : BindingOf(s) = "none")

\* All but the first selection of each section, in their order.
LeftOver(asked) ==
  Picked(asked.selected,
         {i \in DOMAIN asked.selected :
            \/ BindingOf(asked.selected[i]) = "none"
            \/ \E j \in Bound(asked, BindingOf(asked.selected[i])) : j < i})

\* The form a section is taken from.
Source(asked, section) ==
  asked.selected[CHOOSE i \in Bound(asked, section) : \A j \in Bound(asked, section) : i <= j].form

\* A section that is already there keeps its value, and the selection for it is dropped.
Taken(asked) ==
  {section \in {"storage", "database", "kubernetes"} :
     Bound(asked, section) # {} /\ asked[section] = Nothing}

\* Every form that is needed is a requirement.
Readable(asked) == \A section \in Taken(asked) : ReadsAs(section, Source(asked, section))

\* apply_bridged_services.
Bridged(asked) ==
  LET read(section) ==
        IF section \in Taken(asked) THEN AsSection(section, Source(asked, section)) ELSE asked[section]
  IN [asked EXCEPT !.storage = read("storage"), !.database = read("database"),
                   !.kubernetes = read("kubernetes")]

Bridge ==
  /\ stage = "recommended"
  /\ Readable(work)
  /\ stage' = "bridged"
  /\ rest' = LeftOver(work)
  /\ work' = Bridged(work)
  /\ UNCHANGED <<req, noted, found, spec, cost>>

\* A form that is no requirement raises pydantic's ValidationError, which no
\* handler turns into an answer of its own.
BridgeRaises ==
  /\ stage = "recommended"
  /\ ~Readable(work)
  /\ stage' = "raised"
  /\ UNCHANGED <<req, work, rest, noted, found, spec, cost>>

-----------------------------------------------------------------------------
(* Validation, normalization, pricing *)

\* validation/engine.py: blockers stop a request that is not forced.
Blocked(asked) == HasBlockers(Findings(asked)) /\ ~asked.force

Validate ==
  /\ stage = "bridged"
  /\ found' = Findings(work)
  /\ stage' = IF Blocked(work) THEN "blocked" ELSE "validated"
  /\ UNCHANGED <<req, work, rest, noted, spec, cost>>

NormalizeSpec ==
  /\ stage = "validated"
  /\ \E normalized \in {Normalize(work)} :
       spec' = normalized.spec /\ noted' = noted \cup normalized.notes
  /\ stage' = "normalized"
  /\ UNCHANGED <<req, work, rest, found, cost>>

Unpriceable(extras) ==
  \E i \in DOMAIN extras : /\ KnownCard(extras[i].service)
                           /\ PricingRaises(extras[i].service, extras[i].form)

PriceAll ==
  /\ stage = "normalized"
  /\ Quoted(work, spec)
  /\ ~Unpriceable(rest)
  /\ noted' = noted \cup ServiceNotes(rest)
  /\ cost' = Calculate(work, spec, ExtraItems(rest), work.term)
  /\ stage' = "done"
  /\ UNCHANGED <<req, work, rest, found, spec>>

\* float() raises ValueError for a priced field.
PricingFormRaises ==
  /\ stage = "normalized"
  /\ Unpriceable(rest)
  /\ stage' = "raised"
  /\ UNCHANGED <<req, work, rest, noted, found, spec, cost>>

\* The provider has no price, or cannot be reached.
PriceFails ==
  /\ stage = "normalized"
  /\ stage' = "failed"
  /\ UNCHANGED <<req, work, rest, noted, found, spec, cost>>

\* The response is sent, and the thread is free.
Respond ==
  /\ stage \in {"done", "blocked", "failed", "raised"}
  /\ stage' = "idle"
  /\ req' = Nothing /\ work' = Nothing /\ spec' = Nothing /\ cost' = Nothing
  /\ rest' = <<>> /\ noted' = {} /\ found' = {}

Next == \/ Submit \/ Recommend \/ Bridge \/ BridgeRaises \/ Validate \/ NormalizeSpec
        \/ PriceAll \/ PricingFormRaises \/ PriceFails \/ Respond

Spec == Init /\ [][Next]_vars

-----------------------------------------------------------------------------
(* Properties *)

FieldsFound == {f.field : f \in found}
ByShape == Given("compute") /\ work.compute.machineType = "none"

\* Whatever the estimate is for that the customer did not ask for has an
\* assumption: the shape, the disks, the database tier and the node count
\* (normalization/engine.py:3-7).  A machine type named by the customer wins over
\* a shape given with it and shared-core ignores the shape, as the request's
\* schema says, and Autopilot has no node count; running hours over a full month
\* are capped without a note, which this does not cover.
SubstitutionsExplained ==
  stage = "done" =>
    /\ ByShape => /\ spec.compute.vcpu # work.compute.vcpu =>
                       noted \cap {"compute.vcpu", "compute.machine_type_kind"} # {}
                  /\ spec.compute.ram # work.compute.ram =>
                       noted \cap {"compute.ram_gb", "compute.machine_type_kind"} # {}
    /\ Given("compute") /\ spec.compute.family # work.compute.family =>
         "compute.machine_family" \in noted
    /\ Given("storage") =>
         /\ spec.disks[1] # work.storage.size => "storage.size_gb" \in noted
         /\ Tail(spec.disks) # work.storage.extra => "storage.additional_disks" \in noted
    /\ spec.tier # Nothing /\ work.database.tier = "custom"
         /\ <<spec.tier.vcpu, spec.tier.ram>> # <<work.database.vcpu, work.database.ram>>
         => "database.tier" \in noted
    /\ spec.nodes # Nothing /\ ~work.kubernetes.autopilot /\ spec.nodes # work.kubernetes.nodes
         => "kubernetes.node_count" \in noted

\* Validation and normalization, two readings of the same catalog, agree: a
\* substitution of a shape, boot disk, tier or node count was announced by a
\* finding, and a finding on the boot disk or the node count is followed by one.
\* (Additional disks and shapes of the explicit kind "predefined" have no rule.)
SubstitutionsAnnounced ==
  stage = "done" =>
    /\ Given("compute") /\ UsesLegacyMatching(work.compute) =>
         (noted \cap {"compute.vcpu", "compute.ram_gb"} # {}
            <=> "compute.machine_family" \in {f.field : f \in ShapeFindings(work.compute) \cap found})
    /\ "storage.size_gb" \in noted <=> "storage.size_gb" \in FieldsFound
    /\ "database.tier" \in noted => "database.vcpu_ram" \in FieldsFound
    /\ "kubernetes.node_count" \in noted <=> "kubernetes.node_count" \in FieldsFound

\* A custom shape that validation let through is priced exactly as asked: the
\* clamp for forced requests is the identity on it (normalization/engine.py:123-127,
\* domain/requirements.py:33-36).
CustomPricedAsAsked ==
  stage = "done" /\ ByShape /\ work.compute.kind = "custom" /\ ~HasBlockers(found) =>
    /\ spec.compute.kind = "custom"
    /\ spec.compute.vcpu = work.compute.vcpu /\ spec.compute.ram = work.compute.ram

\* What the recommendation engine fills in can be bought as it stands: a request
\* of business context alone is never blocked, warned about (but for the
\* availability the customer states) or substituted.
RecommendationFits ==
  LET businessOnly == /\ \A s \in {"compute", "storage", "database", "network", "kubernetes"} :
                            req[s] = Nothing
                      /\ req.selected = <<>>
  IN stage \in {"blocked", "done"} /\ businessOnly =>
       /\ FieldsFound \subseteq {"availability.target_uptime_percent", "availability.high_availability",
                                  "availability.backup_frequency"}
       /\ noted \subseteq {"compute", "database", "kubernetes", "network.load_balancer_required"}

\* Every selected service is the source of a section, priced, or noted, unless
\* its section had been filled before the bridge, by the customer or by the
\* recommendation engine: the bridge then drops it without a word.
SelectionsAccounted ==
  stage = "done" =>
    \A i \in DOMAIN req.selected :
      LET s == req.selected[i]
      IN \/ s.service \in noted
         \/ \E n \in DOMAIN cost.items : cost.items[n].sku = s.service
         \/ BindingOf(s) # "none" /\ work[BindingOf(s)] = AsSection(BindingOf(s), s.form)
         \/ BindingOf(s) # "none" /\ (req[BindingOf(s)] # Nothing \/ BindingOf(s) \in noted)

\* No line item is discounted twice, and a Spot discount reaches neither the GKE
\* nodes of an on-demand pool nor the VMs of an on-demand fleet, whichever of the
\* two is Spot (pricing/engine.py:505-514).  So the discounts never exceed the
\* subtotal, unless a form has a number below zero, which is priced as it stands.
DiscountsApart ==
  stage = "done" =>
    LET discounts == cost.discounts
        spotCovers(sku) == \E d \in DOMAIN discounts :
                             /\ discounts[d].kind = "spot"
                             /\ \E i \in discounts[d].covers : cost.items[i].sku = sku
    IN /\ \A d, e \in DOMAIN discounts : d # e => discounts[d].covers \cap discounts[e].covers = {}
       /\ \A sku \in PoolSkus : spotCovers(sku) => work.kubernetes.spot
       /\ \A sku \in {"compute", "gpu"} : spotCovers(sku) => work.compute.spot
       /\ (\A i \in DOMAIN cost.items : cost.items[i].amount \in Nat)
            => cost.discountTotal <= cost.subtotal

\* How many items a service has at most.
ItemCount(service) ==
  CASE ~KnownCard(service) -> 0
    [] KnownCard(service) /\ service \in VolumeServices -> 2
    [] OTHER -> Len(Cards[service].prices)

\* The rows of the VMs, disks, databases, network and GKE add up to their line
\* items exactly, whatever kinds of items a request leads to
\* (legacy_resource_summary.py:7-15); those of the catalog, which multiply a rounded
\* unit cost, differ from theirs by the rounding of each item and each unit and by
\* nothing else, however selections share rows (resource_summary.py:5-13).
RowsReconcile ==
  stage = "done" =>
    LET legacy == SubSeq(cost.items, 1, cost.legacy)
        slack == SumFunction([i \in DOMAIN rest |-> ItemCount(rest[i].service) * (rest[i].quantity + 1)])
    IN /\ Sum(LegacyRows(legacy)) = Sum(legacy)
       /\ 2 * Gap(Sum(CatalogRows(rest)), cost.subtotal - Sum(legacy)) <= slack

\* Numbers of a form that the derivations leave without a price, as this model takes
\* them to be meant: limits and shapes that scale something else, or a mode that ignores
\* them.  The code says so of some of them only; vpc.subnets,
\* workflows.steps_per_execution, composer.worker_max_count and Cloud Run's
\* max_instances are fields of cards that nothing declares to be free.
Informational(service, form) ==
  LET chosen(f, d) == Chosen(form, f, d)
  IN CASE service = "cloud-run" ->
            {"max_instances"}
            \cup (IF chosen("cpu_allocation", "request_only") = "always_allocated"
                  THEN {"concurrency", "avg_duration_ms"} ELSE {"min_instances"})
       [] service = "spanner" -> IF chosen("capacity_mode", "processing_units") = "nodes"
                                 THEN {"processing_units"} ELSE {"node_count"}
       [] service = "vpc" -> {"subnets"}
       [] service = "workflows" -> {"steps_per_execution"}
       [] service = "dataproc" -> {"node_ram_gb"}
       [] service = "composer" -> {"worker_min_count", "worker_max_count"}
       [] service = "bigquery" /\ chosen("pricing_model", "on_demand") = "on_demand" -> {"slots_provisioned"}
       [] service = "security-command-center" /\ chosen("tier", "premium") = "standard" -> {"assets_monitored"}
       [] service = "pubsub" -> {"ack_retention_window_days", "snapshot_retention_days"}
       [] service = "cloud-logging" /\ Entry(form, "extended_retention_gb_per_month", 0) > 0 -> {"retention_days"}
       [] OTHER -> {}

\* Whatever usage a customer fills into the form of a priced service shows in its
\* price or is noted as not priced: a number that the pricing table, keyed by field
\* name, or a derivation missed would quote the service without it
\* (service_catalog.py:42-55, service_catalog_derivations.py:5-10).  It is about
\* forms filled in throughout, with amounts beyond the free tiers worth a cent.
UsageBilled ==
  LET priced(s) == KnownCard(s.service) /\ (Cards[s.service].prices # <<>> \/ s.service \in VolumeServices)
      filledIn(s) == \A f \in DOMAIN Cards[s.service].numbers : Entry(s.form, f, 0) > 0
      without(s, f) == [s EXCEPT !.form.number = [g \in DOMAIN @ |-> IF g = f THEN 0 ELSE @[g]]]
  IN stage = "done" =>
       \A i \in DOMAIN rest :
         priced(rest[i]) /\ filledIn(rest[i]) =>
           \A f \in DOMAIN rest[i].form.number \ Informational(rest[i].service, rest[i].form) :
             f \in noted \/ ServiceItems(rest[i], 1) # ServiceItems(without(rest[i], f), 1)

\* "an unknown or out-of-range catalog selection should surface as a warning, not
\* halt an estimate" (validation/rules.py:585-587): no form makes a request raise.
CatalogNeverHalts == stage # "raised"
=============================================================================
