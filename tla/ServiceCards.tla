---------------------------- MODULE ServiceCards ----------------------------
(***************************************************************************)
(* The service catalog (catalog/service_definitions.py): for every card    *)
(* the fields of its form and the dimensions it is priced by.              *)
(*                                                                         *)
(* A price is in points, hundredths of a cent.  Numbers are integers in    *)
(* the form's unit, but RAM of GKE and Cloud SQL is in twentieths of a GB, *)
(* a pod's vCPU in quarters and its memory in halves, and the vCPU and     *)
(* memory of Cloud Run in thousandths.                                     *)
(***************************************************************************)
EXTENDS Integers, Sequences, TLC

None == <<>>
Limit == 2000000000   \* beyond every number a form is filled in with

\* ConfigFieldSchema of a number; default 0 stands for no default as well.
Number(default, low, high, required) ==
  [default |-> default, low |-> low, high |-> high, required |-> required]
Usage == Number(0, -Limit, Limit, TRUE)
Extra == Number(0, -Limit, Limit, FALSE)
Filled(default) == Number(default, -Limit, Limit, TRUE)
Count(default, low) == Number(default, low, Limit, TRUE)
Option(default, low) == Number(default, low, Limit, FALSE)
Ranged(default, low, high) == Number(default, low, high, TRUE)
OptionIn(default, low, high) == Number(default, low, high, FALSE)

\* ConfigFieldSchema of a select.  A boolean field is a member of a form's "on".
Choice(default, options) == [default |-> default, options |-> options]
Region == Choice("us-central1", {"us-central1", "us-east1", "us-west1", "europe-west1", "europe-west4",
                                 "asia-south1", "asia-southeast1"})

\* PricingDimension: the value of field "of", over "per", at "price" or at the
\* rate of the option chosen in field "by".
By(of, per, price, by, rates) == [of |-> of, per |-> per, price |-> price, by |-> by, rates |-> rates]
Per(per, of, price) == By(of, per, price, "none", None)
Each(of, price) == Per(1, of, price)

\* GCPServiceDefinition; every card of the catalog is active.
Card(category, binding, numbers, choices, prices) ==
  [category |-> category, binding |-> binding, numbers |-> numbers, choices |-> choices,
   prices |-> prices]

ComputeCards ==
  ("compute-engine" :> Card("Compute", "none", None, None, <<>>))
  @@ ("gke" :> Card("Compute", "kubernetes",
      [node_count |-> Option(0, 0), node_vcpu |-> Option(4, 1), node_ram_gb |-> Option(320, 10),
       node_disk_size_gb |-> Option(100, 10), node_gpu_count |-> Option(0, 0), avg_pod_count |-> Option(0,
            0),
       pod_vcpu |-> Option(1, 1), pod_memory_gb |-> Option(1, 1), pod_ephemeral_storage_gb |-> Option(1, 0),
       hours_per_day |-> OptionIn(0, 1, 24), days_per_month |-> OptionIn(0, 1, 31)],
      [edition |-> Choice("standard", {"standard", "enterprise"}),
       provisioning_model |-> Choice("on_demand", {"on_demand", "spot"}),
       machine_family |-> Choice("e2", {"e2", "n2", "n2d", "c2", "a2"}),
       node_disk_type |-> Choice("pd-balanced", {"pd-standard", "pd-balanced", "pd-ssd", "pd-extreme"}),
       node_gpu_type |-> Choice("none", {"none", "nvidia-tesla-t4", "nvidia-l4", "nvidia-tesla-a100",
            "nvidia-tesla-v100"})],
      <<>>))
  @@ ("cloud-run" :> Card("Compute", "none",
      [vcpu_count |-> Count(1000, 80), memory_gb |-> Count(500, 128), concurrency |-> Ranged(80, 1, 1000),
       requests_per_month |-> Usage, avg_duration_ms |-> Usage, min_instances |-> Option(0, 0),
       max_instances |-> Option(100, 0), egress_gb_per_month |-> Extra],
      [region |-> Region, cpu_allocation |-> Choice("request_only", {"request_only", "always_allocated"}),
       vpc_connector_size |-> Choice("none", {"none", "small", "large"})],
      <<Per(1000000, "requests_per_month", 4000), Per(1000, "vcpu_seconds_per_month", 240),
        Per(1000, "gb_seconds_per_month", 25), Each("egress_gb_per_month", 1200),
        By("vpc_connector_flag", 1, 0, "vpc_connector_size", [none |-> 0, small |-> 500000,
             large |-> 1500000])>>))
  @@ ("cloud-run-functions" :> Card("Compute", "none",
      [invocations_per_month |-> Usage, avg_execution_time_ms |-> Usage, egress_gb_per_month |-> Extra],
      [region |-> Region,
       memory_mb |-> Choice("256", {"128", "256", "512", "1024", "2048", "4096", "8192", "16384",
            "32768"})],
      <<Per(1000000, "invocations_per_month", 4000), Per(1000, "vcpu_seconds_per_month", 240),
        Per(1000, "gb_seconds_per_month", 25), Each("egress_gb_per_month", 1200)>>))

StorageCards ==
  ("cloud-storage" :> Card("Storage", "none",
      [stored_gb |-> Usage, class_a_operations_per_month |-> Extra, class_b_operations_per_month |-> Extra,
       inter_region_transfer_gb_per_month |-> Extra, internet_egress_gb_per_month |-> Extra],
      [region |-> Region,
       location_type |-> Choice("single-region", {"single-region", "dual-region", "multi-region"}),
       storage_class |-> Choice("standard", {"standard", "nearline", "coldline", "archive"})],
      <<By("stored_gb", 1, 200, "storage_class", [standard |-> 200, nearline |-> 100, coldline |-> 40,
           archive |-> 12]),
        By("stored_gb", 1, 0, "location_type", ("single-region" :> 0) @@ ("dual-region" :> 200)
             @@ ("multi-region" :> 260)),
        Per(10000, "class_a_operations_per_month", 500), Per(10000, "class_b_operations_per_month", 40),
        Each("inter_region_transfer_gb_per_month", 200), Each("internet_egress_gb_per_month", 1200)>>))
  @@ ("persistent-disk" :> Card("Storage", "storage",
      [size_gb |-> Usage, provisioned_iops |-> Option(0, 0), provisioned_throughput_mbps |-> Option(0, 0),
       snapshot_retention_days |-> Option(0, 0), snapshot_storage_gb |-> Option(0, 0),
       local_ssd_count |-> OptionIn(0, 0, 24)],
      [disk_type |-> Choice("pd-balanced", {"pd-standard", "pd-balanced", "pd-ssd", "pd-extreme"})], <<>>))
  @@ ("filestore" :> Card("Storage", "none", [capacity_gb |-> Filled(1024)],
      [region |-> Region, tier |-> Choice("basic-hdd", {"basic-hdd", "basic-ssd", "regional-ha",
           "enterprise"})],
      <<By("capacity_gb", 1, 2000, "tier", ("basic-hdd" :> 2000) @@ ("basic-ssd" :> 3000)
           @@ ("regional-ha" :> 3500) @@ ("enterprise" :> 6000))>>))

RelationalCards ==
  ("cloud-sql" :> Card("Database", "database",
      [vcpu |-> Usage, ram_gb |-> Usage, size_gb |-> Count(0, 0), backup_storage_gb |-> Option(0, 0),
       binary_log_storage_gb |-> Option(0, 0)],
      [engine |-> Choice("postgres", {"postgres", "mysql", "sqlserver"}),
       machine_tier |-> Choice("custom", {"shared-core", "custom"}),
       storage_type |-> Choice("ssd", {"hdd", "ssd"}),
       commitment |-> Choice("none", {"none", "1-year", "3-year"})], <<>>))
  @@ ("alloydb" :> Card("Database", "none",
      [vcpu |-> Usage, ram_gb |-> Extra, read_pool_nodes |-> Option(0, 0),
       read_pool_vcpu_per_node |-> Option(0, 0), storage_gb |-> Usage, backup_storage_gb |-> Option(0, 0)],
      [region |-> Region],
      <<Each("vcpu", 1090000), Each("ram_gb", 182600), Each("storage_gb", 4), Each("read_pool_nodes",
           2180000),
        Each("read_pool_total_vcpu", 1090000), Each("backup_storage_gb", 1000)>>))
  @@ ("spanner" :> Card("Database", "none",
      [processing_units |-> Count(100, 100), node_count |-> Option(0, 0), storage_gb |-> Usage,
       backup_storage_gb |-> Option(0, 0)],
      [deployment_type |-> Choice("regional", {"regional", "multi-region"}), region |-> Region,
       capacity_mode |-> Choice("processing_units", {"processing_units", "nodes"})],
      <<By("processing_units", 100, 650000, "deployment_type", ("regional" :> 650000)
           @@ ("multi-region" :> 1950000)),
        Each("storage_gb", 3000), Each("backup_storage_gb", 3000)>>))

DocumentCards ==
  ("firestore" :> Card("Database", "none",
      [stored_gb |-> Usage, reads_per_month |-> Usage, writes_per_month |-> Usage,
           deletes_per_month |-> Extra,
       egress_gb_per_month |-> Extra], [mode |-> Choice("native", {"native", "datastore"})],
      <<Each("stored_gb", 1800), Per(100000, "reads_per_month", 600), Per(100000, "writes_per_month", 1800),
        Per(100000, "deletes_per_month", 200), Each("egress_gb_per_month", 1200)>>))
  @@ ("bigtable" :> Card("Database", "none", [nodes |-> Count(1, 1), storage_gb |-> Usage],
      [region |-> Region, storage_type |-> Choice("ssd", {"ssd", "hdd"})],
      <<Each("nodes", 4680000), By("storage_gb", 1, 1700, "storage_type", [ssd |-> 1700, hdd |-> 260])>>))
  @@ ("memorystore" :> Card("Database", "none", [capacity_gb |-> Usage],
      [region |-> Region, tier |-> Choice("standard-ha", {"basic", "standard-ha"})],
      <<By("capacity_gb", 1, 490000, "tier", ("basic" :> 350000) @@ ("standard-ha" :> 490000))>>))

EdgeCards ==
  ("vpc" :> Card("Networking", "none",
      [subnets |-> Option(1, 1), static_ips |-> Option(0, 0), intra_region_egress_gb_per_month |-> Extra,
       inter_region_egress_gb_per_month |-> Extra], None,
      <<Each("static_ips", 73000), Each("intra_region_egress_gb_per_month", 100),
        Each("inter_region_egress_gb_per_month", 200)>>))
  @@ ("load-balancing" :> Card("Networking", "none",
      [forwarding_rules |-> Option(1, 0), processed_data_gb_per_month |-> Extra],
      [lb_type |-> Choice("global_https", {"global_https", "regional_https", "network_passthrough",
           "internal"})],
      <<By("_unit_flag", 1, 0, "lb_type", [global_https |-> 182600, regional_https |-> 182600,
           network_passthrough |-> 0, internal |-> 0]),
        Each("forwarding_rules", 182600),
        By("processed_data_gb_per_month", 1, 80, "lb_type", [global_https |-> 80, regional_https |-> 80,
             network_passthrough |-> 40, internal |-> 40])>>))
  @@ ("cloud-nat" :> Card("Networking", "none",
      [gateways |-> Count(1, 1), data_processed_gb_per_month |-> Usage], [region |-> Region],
      <<Each("gateways", 328500), Each("data_processed_gb_per_month", 450)>>))
  @@ ("cloud-cdn" :> Card("Networking", "none",
      [cache_egress_gb_per_month |-> Extra, invalidation_requests_per_month |-> Extra,
       cache_lookup_requests_per_month |-> Extra], None,
      <<Each("cache_egress_gb_per_month", 800), Each("invalidation_requests_per_month", 50),
        Per(10000, "cache_lookup_requests_per_month", 750)>>))
  @@ ("cloud-armor" :> Card("Networking", "none",
      [policies |-> Count(1, 1), rule_count |-> Option(0, 0), requests_per_month |-> Usage],
      [policy_type |-> Choice("standard", {"standard", "managed_plus"})],
      <<Each("policies", 50000), Each("rule_count", 10000), Per(1000000, "requests_per_month", 7500),
        By("_unit_flag", 1, 0, "policy_type", [standard |-> 0, managed_plus |-> 30000000])>>))
  @@ ("cloud-dns" :> Card("Networking", "none", [managed_zones |-> Count(1, 1),
       queries_per_month |-> Usage],
      [zone_type |-> Choice("public", {"public", "private"})],
      <<Each("managed_zones", 2000), Per(1000000, "queries_per_month", 4000)>>))

ConnectivityCards ==
  ("vpn" :> Card("Networking", "none", [tunnels |-> Option(1, 1), data_egress_gb_per_month |-> Extra],
      [vpn_type |-> Choice("ha", {"classic", "ha"})],
      <<By("tunnels", 1, 365000, "vpn_type", [classic |-> 365000, ha |-> 365000]),
        Each("data_egress_gb_per_month", 900)>>))
  @@ ("interconnect" :> Card("Networking", "none",
      [connections |-> Count(1, 1), outbound_egress_gb_per_month |-> Extra],
      [connection_type |-> Choice("dedicated", {"dedicated", "partner"}),
       capacity |-> Choice("10gbps", {"50mbps", "100mbps", "200mbps", "500mbps", "1gbps", "2gbps",
            "5gbps", "10gbps", "100gbps"})],
      <<By("connections", 1, 17000000, "connection_type", [dedicated |-> 17000000, partner |-> 3000000]),
        By("connections", 1, 0, "capacity", ("50mbps" :> 0) @@ ("100mbps" :> 500000)
             @@ ("200mbps" :> 1500000) @@ ("500mbps" :> 4000000) @@ ("1gbps" :> 8000000)
             @@ ("2gbps" :> 16000000) @@ ("5gbps" :> 40000000) @@ ("10gbps" :> 80000000)
             @@ ("100gbps" :> 800000000)),
        Each("outbound_egress_gb_per_month", 300)>>))
  @@ ("network-egress" :> Card("Networking", "none", [estimated_egress_gb_per_month |-> Usage],
      [destination_tier |-> Choice("premium", {"standard", "premium"}), region |-> Region],
      <<By("estimated_egress_gb_per_month", 1, 1200, "destination_tier", [standard |-> 850,
           premium |-> 1200])>>))

MessagingCards ==
  ("pubsub" :> Card("Messaging & Eventing", "none",
      [published_data_gb_per_day |-> Usage, topic_retention_days |-> OptionIn(0, 0, 31),
       subscriptions |-> Option(0, 0), subscriptions_with_retained_acks |-> Option(0, 0),
       ack_retention_window_days |-> OptionIn(0, 0, 7), snapshots_per_month |-> Option(0, 0),
       snapshot_retention_days |-> Option(0, 0)], [delivery_type |-> Choice("basic", {"basic",
            "bigquery"})],
      <<>>))
  @@ ("eventarc" :> Card("Messaging & Eventing", "none", [events_per_month |-> Usage], None,
      <<Per(1000000, "events_per_month", 100000)>>))
  @@ ("cloud-tasks" :> Card("Messaging & Eventing", "none", [tasks_per_month |-> Usage], None,
      <<Per(1000000, "tasks_per_month", 4000)>>))
  @@ ("cloud-scheduler" :> Card("Messaging & Eventing", "none", [jobs |-> Count(1, 1)], None,
      <<Each("jobs", 1000)>>))
  @@ ("workflows" :> Card("Messaging & Eventing", "none",
      [executions_per_month |-> Usage, steps_per_execution |-> Extra], None,
      <<Per(1000, "executions_per_month", 250)>>))

AnalyticsCards ==
  ("bigquery" :> Card("Analytics & Data", "none",
      [tb_scanned_per_month |-> Extra, slots_provisioned |-> Option(0, 0), active_storage_gb |-> Extra,
       long_term_storage_gb |-> Extra, streaming_inserts_gb_per_month |-> Extra],
      [pricing_model |-> Choice("on_demand", {"on_demand", "standard_edition", "enterprise_edition",
           "enterprise_plus_edition"}),
       commitment |-> Choice("none", {"none", "1-year", "3-year"})],
      <<Each("tb_scanned_per_month", 62500),
        By("slots_provisioned", 1, 0, "pricing_model", [on_demand |-> 0, standard_edition |-> 292000,
             enterprise_edition |-> 438000, enterprise_plus_edition |-> 730000]),
        Each("active_storage_gb", 200), Each("long_term_storage_gb", 100),
        Each("streaming_inserts_gb_per_month", 500)>>))
  @@ ("dataflow" :> Card("Analytics & Data", "none",
      [vcpu_hours_per_month |-> Usage, ram_gb_hours_per_month |-> Extra, worker_disk_gb |-> Extra,
       processed_data_gb_per_month |-> Extra], [workload_type |-> Choice("batch", {"streaming", "batch"})],
      <<By("vcpu_hours_per_month", 1, 560, "workload_type", [streaming |-> 690, batch |-> 560]),
        Each("ram_gb_hours_per_month", 35), Each("worker_disk_gb", 400),
        Each("processed_data_gb_per_month", 100)>>))
  @@ ("dataproc" :> Card("Analytics & Data", "none",
      [node_vcpu |-> Count(0, 0), node_ram_gb |-> Option(0, 0), node_count |-> Count(0, 0),
       cluster_hours_per_month |-> Usage], None, <<Each("vcpu_hours_per_month", 100)>>))
  @@ ("data-fusion" :> Card("Analytics & Data", "none",
      [instance_hours_per_month |-> Usage, pipeline_execution_vcpu_hours_per_month |-> Extra],
      [edition |-> Choice("enterprise", {"basic", "enterprise"})],
      <<By("instance_hours_per_month", 1, 31500, "edition", [basic |-> 9000, enterprise |-> 31500]),
        Each("pipeline_execution_vcpu_hours_per_month", 700)>>))
  @@ ("datastream" :> Card("Analytics & Data", "none", [gb_processed_per_month |-> Usage], None,
      <<Each("gb_processed_per_month", 1000)>>))
  @@ ("composer" :> Card("Analytics & Data", "none",
      [vcpu_hours_per_month |-> Usage, sql_storage_gb |-> Extra,
           environment_ram_gb_hours_per_month |-> Extra,
       worker_min_count |-> Option(1, 0), worker_max_count |-> Option(3, 0)],
      [environment_size |-> Choice("small", {"small", "medium", "large", "custom"})],
      <<By("vcpu_hours_per_month", 1, 700, "environment_size", [small |-> 500, medium |-> 700,
           large |-> 1000, custom |-> 700]),
        Each("sql_storage_gb", 1700), Each("environment_ram_gb_hours_per_month", 35)>>))

ModelCards ==
  ("vertex-ai" :> Card("AI/ML", "none",
      [prediction_requests_per_month |-> Usage, input_tokens_millions_per_month |-> Extra,
       output_tokens_millions_per_month |-> Extra, training_hours_per_month |-> Extra,
       endpoint_node_hours_per_month |-> Extra, vector_search_queries_per_month |-> Extra],
      [training_vm_machine_type |-> Choice("n1-standard-4", {"n1-standard-4", "n1-highmem-8",
           "a2-highgpu-1g", "a3-highgpu-8g"}),
       search_tier |-> Choice("standard", {"standard", "advanced"})],
      <<Per(1000000, "prediction_requests_per_month", 60000), Each("input_tokens_millions_per_month", 1500),
        Each("output_tokens_millions_per_month", 6000),
        By("training_hours_per_month", 1, 25000, "training_vm_machine_type", ("n1-standard-4" :> 1900)
             @@ ("n1-highmem-8" :> 4740) @@ ("a2-highgpu-1g" :> 36700) @@ ("a3-highgpu-8g" :> 280000)),
        Each("endpoint_node_hours_per_month", 2000),
        By("vector_search_queries_per_month", 1000, 500, "search_tier", [standard |-> 300,
             advanced |-> 800])>>))
  @@ ("genai-model-costing" :> Card("AI/ML", "none",
      [input_tokens_millions_per_month |-> Usage, output_tokens_millions_per_month |-> Usage],
      [model |-> Choice("gemini-2.5-flash", {"gemini-2.5-pro", "gemini-2.5-flash",
           "gemini-2.5-flash-lite", "claude-opus-4.5", "claude-sonnet-4.5", "claude-haiku-4.5",
           "gpt-oss-120b", "gpt-oss-20b"}),
       model_region |-> Choice("us-central1", {"us-central1", "us-east5", "europe-west1", "europe-west4",
            "asia-southeast1", "global"})],
      <<By("input_tokens_millions_per_month", 1, 3000, "model", ("gemini-2.5-pro" :> 12500)
           @@ ("gemini-2.5-flash" :> 3000) @@ ("gemini-2.5-flash-lite" :> 1000)
           @@ ("claude-opus-4.5" :> 50000) @@ ("claude-sonnet-4.5" :> 30000)
           @@ ("claude-haiku-4.5" :> 10000) @@ ("gpt-oss-120b" :> 1500) @@ ("gpt-oss-20b" :> 500)),
        By("output_tokens_millions_per_month", 1, 25000, "model", ("gemini-2.5-pro" :> 100000)
             @@ ("gemini-2.5-flash" :> 25000) @@ ("gemini-2.5-flash-lite" :> 4000)
             @@ ("claude-opus-4.5" :> 250000) @@ ("claude-sonnet-4.5" :> 150000)
             @@ ("claude-haiku-4.5" :> 50000) @@ ("gpt-oss-120b" :> 6000) @@ ("gpt-oss-20b" :> 2000))>>))

AcceleratorCards ==
  ("gpu" :> Card("AI/ML", "none", [gpu_count |-> Count(1, 1), gpu_hours_per_month |-> Usage],
      [gpu_type |-> Choice("nvidia-l4", {"nvidia-tesla-t4", "nvidia-l4", "nvidia-tesla-a100",
           "nvidia-h100-80gb", "nvidia-tesla-v100"})],
      <<By("gpu_hours_total_per_month", 1, 5500, "gpu_type", ("nvidia-tesla-t4" :> 3500)
           @@ ("nvidia-l4" :> 5500) @@ ("nvidia-tesla-a100" :> 29000) @@ ("nvidia-h100-80gb" :> 58000)
           @@ ("nvidia-tesla-v100" :> 11000))>>))
  @@ ("tpu" :> Card("AI/ML", "none", [tpu_hours_per_month |-> Usage],
      [tpu_type |-> Choice("v5e", {"v4", "v5e", "v5p"}),
       tpu_topology |-> Choice("4", {"1", "4", "16", "32", "64"})],
      <<By("tpu_chip_hours_total_per_month", 1, 12000, "tpu_type", [v4 |-> 32200, v5e |-> 12000,
           v5p |-> 42000])>>))
  @@ ("vector-search" :> Card("AI/ML", "none",
      [index_size_gb |-> Usage, queries_per_month |-> Extra, node_hours_per_month |-> Usage,
       index_updates_gb_per_month |-> Extra],
      [node_machine_type |-> Choice("e2-standard-2", {"e2-standard-2", "e2-standard-4", "e2-standard-8",
           "n2-standard-4"})],
      <<Each("index_size_gb", 35000), Per(1000000, "queries_per_month", 30000),
        By("node_hours_per_month", 1, 700, "node_machine_type", ("e2-standard-2" :> 700)
             @@ ("e2-standard-4" :> 1400) @@ ("e2-standard-8" :> 2800) @@ ("n2-standard-4" :> 1900)),
        Each("index_updates_gb_per_month", 600)>>))

SecurityCards ==
  ("secret-manager" :> Card("Security", "none",
      [active_secrets |-> Count(0, 0), access_operations_per_month |-> Extra], None,
      <<Each("active_secrets", 600), Per(10000, "access_operations_per_month", 300)>>))
  @@ ("cloud-kms" :> Card("Security", "none", [active_keys |-> Count(0, 0), operations_per_month |-> Extra],
      None, <<Each("active_keys", 600), Per(10000, "operations_per_month", 300)>>))
  @@ ("security-command-center" :> Card("Security", "none", [assets_monitored |-> Count(1, 1)],
      [tier |-> Choice("standard", {"standard", "premium"})],
      <<By("assets_monitored", 1, 5000, "tier", [standard |-> 0, premium |-> 5000])>>))
  @@ ("certificate-manager" :> Card("Security", "none", [managed_certificates |-> Count(1, 1)], None,
      <<Each("managed_certificates", 7500)>>))

ObservabilityCards ==
  ("cloud-monitoring" :> Card("Observability", "none",
      [metrics_volume_mb_per_month |-> Usage, api_calls_per_month |-> Extra], None,
      <<Each("metrics_volume_mb_per_month", 2580), Per(1000, "api_calls_per_month", 100)>>))
  @@ ("cloud-logging" :> Card("Observability", "none",
      [log_volume_gb_per_month |-> Usage, retention_days |-> Option(1, 1),
       extended_retention_gb_per_month |-> Extra], None, <<>>))
  @@ ("cloud-trace" :> Card("Observability", "none", [spans_per_month |-> Extra], None,
      <<Per(1000000, "spans_per_month", 2000)>>))
  @@ ("error-reporting" :> Card("Observability", "none", [events_per_month |-> Extra], None, <<>>))
  @@ ("managed-prometheus" :> Card("Observability", "none", [samples_ingested_per_month_billion |-> Usage],
      None, <<Each("samples_ingested_per_month_billion", 600000)>>))

DevOpsCards ==
  ("cloud-build" :> Card("DevOps", "none", [build_minutes_per_month |-> Usage],
      [machine_type |-> Choice("default", {"default", "high-cpu", "high-cpu-32"})],
      <<By("build_minutes_per_month", 1, 30, "machine_type", ("default" :> 30) @@ ("high-cpu" :> 160)
           @@ ("high-cpu-32" :> 640))>>))
  @@ ("artifact-registry" :> Card("DevOps", "none",
      [storage_gb |-> Usage, network_egress_gb_per_month |-> Extra], None,
      <<Each("storage_gb", 1000), Each("network_egress_gb_per_month", 1200)>>))
  @@ ("cloud-deploy" :> Card("DevOps", "none",
      [active_delivery_pipelines |-> Count(1, 1), target_environments |-> Option(1, 1)], None,
      <<Each("active_delivery_pipelines", 150000), Each("target_environments", 50000)>>))

IntegrationCards ==
  ("apigee" :> Card("API & Integration", "none",
      [api_calls_per_month |-> Usage, environment_node_hours_per_month |-> Extra],
      [commercial_model |-> Choice("pay_as_you_go", {"pay_as_you_go", "subscription_standard",
           "subscription_enterprise", "subscription_enterprise_plus"})],
      <<By("api_calls_per_month", 1000000, 150000, "commercial_model", [pay_as_you_go |-> 150000,
           subscription_standard |-> 100000, subscription_enterprise |-> 70000,
           subscription_enterprise_plus |-> 50000]),
        Each("environment_node_hours_per_month", 8500)>>))
  @@ ("api-gateway" :> Card("API & Integration", "none",
      [api_calls_per_month |-> Usage, bandwidth_egress_gb_per_month |-> Extra], None,
      <<Per(1000000, "api_calls_per_month", 30000), Each("bandwidth_egress_gb_per_month", 1200)>>))

\* GCP_SERVICE_CATALOG, by service_id.
Cards ==
  ComputeCards @@ StorageCards @@ RelationalCards @@ DocumentCards @@ EdgeCards @@ ConnectivityCards
  @@ MessagingCards @@ AnalyticsCards @@ ModelCards @@ AcceleratorCards @@ SecurityCards
  @@ ObservabilityCards @@ DevOpsCards @@ IntegrationCards
=============================================================================
