---------------------------- MODULE ServiceForms ----------------------------
(***************************************************************************)
(* What the service catalog makes of a filled-in form, whatever the card:  *)
(* the generic validation rule (validation/rules.py), the values derived   *)
(* from others (catalog/service_catalog_derivations.py), the prices        *)
(* (catalog/generic_pricing.py, messaging_observability_pricing.py) and    *)
(* the sections that some cards stand for                                  *)
(* (catalog/service_catalog_bridge.py, domain/requirements.py).            *)
(*                                                                         *)
(* A form is [number, choice, on, blank, text]: the numbers and choices    *)
(* entered, the switches that are on, the number fields that were cleared  *)
(* (null) and those holding something that is not a number.                *)
(***************************************************************************)
EXTENDS ServiceCards, PricingCatalog

CONSTANTS
  Price,          \* sku kind -> unit price in points
  PubSubFreeGb,   \* the provider's free tiers, per month
  LoggingFreeGb

KnownCard(service) == service \in DOMAIN Cards

\* A card stands for one of these sections, or is priced by itself.
ASSUME BindingAssumption ==
  \A service \in DOMAIN Cards : Cards[service].binding \in {"none", "storage", "database", "kubernetes"}

EmptyForm == [number |-> None, choice |-> None, on |-> {}, blank |-> {}, text |-> {}]

Entry(form, field, default) == IF field \in DOMAIN form.number THEN form.number[field] ELSE default
Chosen(form, field, default) == IF field \in DOMAIN form.choice THEN form.choice[field] ELSE default

\* defaultConfigFor: a card is added with every default the schema has.
DefaultsOf(card) ==
  [EmptyForm EXCEPT
     !.number = [f \in DOMAIN card.numbers \ {"hours_per_day", "days_per_month"} |-> card.numbers[f].default],
     !.choice = [f \in DOMAIN card.choices |-> card.choices[f].default]]
DefaultForm(service) == DefaultsOf(Cards[service])

-----------------------------------------------------------------------------
(* Validation *)

\* The fields ServiceCatalogConfigValidationRule complains about.
IssuesWith(card, form) ==
  {f \in DOMAIN card.numbers :
     \/ f \in form.blank /\ card.numbers[f].required
     \/ f \in form.text
     \/ f \in DOMAIN form.number /\ ~(/\ card.numbers[f].low <= form.number[f]
                                      /\ form.number[f] <= card.numbers[f].high)}
  \cup {f \in DOMAIN card.choices :
          f \in DOMAIN form.choice /\ form.choice[f] \notin card.choices[f].options}
FormIssues(service, form) == IssuesWith(Cards[service], form)

-----------------------------------------------------------------------------
(* Derived values *)

\* _SECONDS_PER_MONTH, in thousands.
MonthKiloseconds == 2628

\* A faulty variant: instances kept warm are not counted.
RunKilosecondsServing(form) ==
  (Entry(form, "requests_per_month", 0) * Entry(form, "avg_duration_ms", 0))
    \div (1000000 * AtLeast(Entry(form, "concurrency", 1), 1))

\* Cloud Run: the thousands of seconds an instance is billed for.
RunKiloseconds(form) ==
  LET requests == (Entry(form, "requests_per_month", 0) * Entry(form, "avg_duration_ms", 0))
                    \div (1000000 * AtLeast(Entry(form, "concurrency", 1), 1))
      idle == Entry(form, "min_instances", 0) * MonthKiloseconds
  IN IF Chosen(form, "cpu_allocation", "request_only") = "always_allocated"
     THEN AtLeast(requests, idle) ELSE requests

\* Cloud Run functions: the memory tiers, in MB, and their vCPU in thousandths.
Memory == ("128" :> 128) @@ ("256" :> 256) @@ ("512" :> 512) @@ ("1024" :> 1024) @@ ("2048" :> 2048)
          @@ ("4096" :> 4096) @@ ("8192" :> 8192) @@ ("16384" :> 16384) @@ ("32768" :> 32768)
VcpuByMemory == ("128" :> 83) @@ ("256" :> 167) @@ ("512" :> 333) @@ ("1024" :> 583) @@ ("2048" :> 1000)
                @@ ("4096" :> 2000) @@ ("8192" :> 2000) @@ ("16384" :> 4000) @@ ("32768" :> 8000)
Chips == ("1" :> 1) @@ ("4" :> 4) @@ ("16" :> 16) @@ ("32" :> 32) @@ ("64" :> 64)

\* What the tables hold, and that the default of either field is in its table.
ASSUME TablesAssumption ==
  /\ DOMAIN Memory = DOMAIN VcpuByMemory /\ "256" \in DOMAIN Memory /\ "1" \in DOMAIN Chips
  /\ \A m \in DOMAIN Memory : Memory[m] \in Nat /\ VcpuByMemory[m] \in Nat
  /\ \A topology \in DOMAIN Chips : Chips[topology] \in Nat

\* The number of the option chosen; one that is no number counts as the default (_num).
Offered(table, form, field, default) ==
  LET chosen == Chosen(form, field, default) IN IF chosen \in DOMAIN table THEN table[chosen] ELSE table[default]

\* apply_computed_fields: what a card's prices read beside the form.  A field that
\* was cleared or does not hold a number counts as one that was left out.
Derived(service, form) ==
  LET n(field, default) == Entry(form, field, default)
      kiloseconds == (n("invocations_per_month", 0) * n("avg_execution_time_ms", 0)) \div 1000000
      poolVcpu == n("read_pool_nodes", 0) * n("read_pool_vcpu_per_node", 0)
  IN CASE service = "cloud-run" ->
            [vcpu_seconds_per_month |-> RunKiloseconds(form) * n("vcpu_count", 0),
             gb_seconds_per_month |-> RunKiloseconds(form) * n("memory_gb", 0),
             vpc_connector_flag |-> 1]
       [] service = "cloud-run-functions" ->
            [gb_seconds_per_month |-> kiloseconds * (Offered(Memory, form, "memory_mb", "256") \div 128) * 125,
             vcpu_seconds_per_month |-> kiloseconds * Offered(VcpuByMemory, form, "memory_mb", "256")]
       [] service = "alloydb" ->
            IF "ram_gb" \in form.text \/ n("ram_gb", 0) # 0 THEN [read_pool_total_vcpu |-> poolVcpu]
            ELSE [read_pool_total_vcpu |-> poolVcpu, ram_gb |-> n("vcpu", 0) * 8]
       [] service = "spanner" /\ Chosen(form, "capacity_mode", "processing_units") = "nodes" ->
            [processing_units |-> n("node_count", 1) * 1000]
       [] service = "dataproc" ->
            [vcpu_hours_per_month |->
               n("node_vcpu", 0) * n("node_count", 0) * n("cluster_hours_per_month", 0)]
       [] service = "gpu" ->
            [gpu_hours_total_per_month |-> n("gpu_count", 1) * n("gpu_hours_per_month", 0)]
       [] service = "tpu" ->
            [tpu_chip_hours_total_per_month |-> Offered(Chips, form, "tpu_topology", "1")
                                                * n("tpu_hours_per_month", 0)]
       [] OTHER -> None

-----------------------------------------------------------------------------
(* Prices *)

\* REGION_MULTIPLIER, for a form with a region of its own, in percent.
RegionPercent ==
  ("us-central1" :> 100) @@ ("us-east1" :> 100) @@ ("us-west1" :> 104) @@ ("europe-west1" :> 109)
  @@ ("europe-west4" :> 111) @@ ("asia-south1" :> 113) @@ ("asia-southeast1" :> 112)

\* _effective_unit_price, before the region.
Rate(price, form) ==
  IF price.by \in DOMAIN form.choice /\ form.choice[price.by] \in DOMAIN price.rates
  THEN price.rates[form.choice[price.by]] ELSE price.price

\* The quantity a dimension is billed for: derived, entered, or else the field's
\* default, also where the field was cleared, or 0.
Billed(service, form, field) ==
  LET derived == Derived(service, form)
      numbers == Cards[service].numbers
      default == IF field \in DOMAIN numbers THEN numbers[field].default ELSE 0
  IN CASE field = "_unit_flag" -> 1
       [] field # "_unit_flag" /\ field \in DOMAIN derived -> derived[field]
       [] OTHER -> Entry(form, field, default)

\* n times a rate over per, in whole points, with no product beyond 32 bits.
Times(n, rate, per) ==
  (n \div per) * rate + ((n % per) * rate) \div per

\* One unit's amount in one dimension, in points.
Points(service, form, price) ==
  LET region == Chosen(form, "region", "us-central1")
      percent == IF region \in DOMAIN RegionPercent THEN RegionPercent[region] ELSE 100
  IN Times(Times(Billed(service, form, price.of), Rate(price, form), price.per), percent, 100)

\* Pub/Sub bills what is published, a 30-day month, and what each subscription is
\* delivered; Cloud Logging what is ingested.
PubSubGb(form) ==
  LET published == Entry(form, "published_data_gb_per_day",
                         IF "published_data_gb_per_day" \in form.blank THEN 0 ELSE 1) * 30
      subscriptions == Entry(form, "subscriptions", IF "subscriptions" \in form.blank THEN 0 ELSE 1)
  IN AtLeast(published * (1 + subscriptions) - PubSubFreeGb, 0)
LoggingGb(form) == AtLeast(Entry(form, "log_volume_gb_per_month", 0) - LoggingFreeGb, 0)

VolumeServices == {"pubsub", "cloud-logging"}

\* The fields for which a volume service notes that they are not priced as asked.
UnpricedNotes(service, form) ==
  LET n(field) == Entry(form, field, 0)
  IN CASE service = "pubsub" ->
            {f \in {"delivery_type"} : Chosen(form, f, "basic") = "bigquery"}
            \cup {f \in {"topic_retention_days"} : n(f) > 7}
            \cup {f \in {"subscriptions_with_retained_acks", "snapshots_per_month"} : n(f) > 0}
       [] service = "cloud-logging" ->
            {f \in {"retention_days"} : n(f) > 30 /\ n("extended_retention_gb_per_month") <= 0}
       [] OTHER -> {}

\* A priced field holds something float() does not take.
PricingRaises(service, form) ==
  LET read == CASE service = "pubsub" ->
                     {"published_data_gb_per_day", "subscriptions", "topic_retention_days",
                      "subscriptions_with_retained_acks", "snapshots_per_month"}
                [] service = "cloud-logging" ->
                     {"log_volume_gb_per_month", "extended_retention_gb_per_month", "retention_days"}
                [] OTHER -> {Cards[service].prices[i].of : i \in DOMAIN Cards[service].prices}
                            \ DOMAIN Derived(service, form)
  IN form.text \cap read # {}

-----------------------------------------------------------------------------
(* Sections *)

\* The entered numbers among the fields satisfy a bound of the typed section.
Every(form, fields, low, high) ==
  \A f \in fields \cap DOMAIN form.number : low <= form.number[f] /\ form.number[f] <= high

\* StorageRequirement, DatabaseRequirement and KubernetesRequirement take the form:
\* no field cleared (but the running hours of GKE) or without a number, positive
\* sizes where the section wants them, and options it has.
ReadsAs(section, form) ==
  LET card == Cards[CASE section = "storage" -> "persistent-disk" [] section = "database" -> "cloud-sql"
                      [] section = "kubernetes" -> "gke"]
      positive == CASE section = "storage" -> {"size_gb"}
                    [] section = "database" -> {"vcpu", "ram_gb"}
                    [] section = "kubernetes" ->
                         {"node_vcpu", "node_ram_gb", "node_disk_size_gb", "pod_vcpu", "pod_memory_gb",
                          "pod_ephemeral_storage_gb", "hours_per_day", "days_per_month"}
  IN /\ form.text = {}
     /\ form.blank \subseteq {"hours_per_day", "days_per_month"}
     /\ section = "storage" => "size_gb" \in DOMAIN form.number
     /\ Every(form, positive, 1, Limit)
     /\ Every(form, DOMAIN card.numbers, 0, Limit)
     /\ Every(form, {"local_ssd_count", "hours_per_day"}, 0, 24)
     /\ Every(form, {"days_per_month"}, 0, 31)
     /\ Every(form, {"node_vcpu"}, 1, 416)
     /\ \A f \in DOMAIN card.choices \cap DOMAIN form.choice : form.choice[f] \in card.choices[f].options

AsStorage(form) ==
  [type |-> Chosen(form, "disk_type", "pd-balanced"), size |-> Entry(form, "size_gb", 0),
   snapshots |-> "snapshot_enabled" \in form.on, retention |-> Entry(form, "snapshot_retention_days", 7),
   snapshotGb |-> Entry(form, "snapshot_storage_gb", 0), iops |-> Entry(form, "provisioned_iops", 0),
   extra |-> <<>>, localSsds |-> Entry(form, "local_ssd_count", 0)]

AsDatabase(form) ==
  [required |-> TRUE, tier |-> Chosen(form, "machine_tier", "custom"),
   engine |-> Chosen(form, "engine", "postgres"), vcpu |-> Entry(form, "vcpu", 2),
   ram |-> Entry(form, "ram_gb", 160), size |-> Entry(form, "size_gb", 0),
   ha |-> "high_availability" \in form.on, backup |-> Entry(form, "backup_storage_gb", 0),
   commitment |-> CASE Chosen(form, "commitment", "none") = "none" -> 0
                    [] form.choice["commitment"] = "1-year" -> 1
                    [] form.choice["commitment"] = "3-year" -> 3]

\* Hours alone run 730 / 24 days, days alone 24 hours; neither, the whole month.
AsKubernetes(form) ==
  LET hours == "hours_per_day" \in DOMAIN form.number
      days == "days_per_month" \in DOMAIN form.number
      perDay == Entry(form, "hours_per_day", 24)
  IN [required |-> TRUE, autopilot |-> "autopilot" \in form.on,
      enterprise |-> Chosen(form, "edition", "standard") = "enterprise",
      regional |-> "regional" \in form.on,
      spot |-> Chosen(form, "provisioning_model", "on_demand") = "spot",
      nodes |-> Entry(form, "node_count", 0), family |-> Chosen(form, "machine_family", "e2"),
      vcpu |-> Entry(form, "node_vcpu", 4), ram |-> Entry(form, "node_ram_gb", 320),
      disk |-> Entry(form, "node_disk_size_gb", 100),
      gpus |-> IF Chosen(form, "node_gpu_type", "none") = "none" THEN 0
               ELSE Entry(form, "node_gpu_count", 0),
      pods |-> Entry(form, "avg_pod_count", 0),
      hours |-> CASE days -> perDay * form.number["days_per_month"]
                  [] hours /\ ~days -> (perDay * HoursPerMonth) \div 24
                  [] OTHER -> 0]

\* The section a form stands for.
AsSection(section, form) ==
  CASE section = "storage" -> AsStorage(form)
    [] section = "database" -> AsDatabase(form)
    [] section = "kubernetes" -> AsKubernetes(form)
=============================================================================
