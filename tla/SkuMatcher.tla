----------------------------- MODULE SkuMatcher -----------------------------
(***************************************************************************)
(* Which SKU of the Cloud Billing Catalog prices what                      *)
(* (pricing/sku_matcher.py).  The catalog has no identifiers to go by: a   *)
(* SKU is found by its resource family, its usage type, what its           *)
(* description mentions and the regions it is sold in, and the shortest    *)
(* description of several that fit is taken.                               *)
(*                                                                         *)
(* A SKU is a record [resource, usage, service, mentions, length, regions, *)
(* prices]: mentions is the set of this module's keywords found in its     *)
(* description (the names of machine families as whole words), and prices, *)
(* which no code reads, is what Google charges it for.                     *)
(***************************************************************************)
EXTENDS Integers, SequencesExt

FamilyKeywords ==
  [e2 |-> "e2", n1 |-> "n1", n2 |-> "n2", n2d |-> "n2d", n4 |-> "n4", n4d |-> "n4d", n4a |-> "n4a",
   c2 |-> "compute optimized", c3 |-> "c3", c3d |-> "c3d", c4 |-> "c4", c4d |-> "c4d", c4a |-> "c4a",
   t2d |-> "t2d", t2a |-> "t2a", a2 |-> "a2"]
DiskKeywords ==
  [standard |-> "storage pd capacity", balanced |-> "balanced pd capacity",
   ssd |-> "ssd backed pd capacity", extreme |-> "extreme pd capacity"]
GpuKeywords == [t4 |-> "tesla t4", l4 |-> "l4", a100 |-> "tesla a100", v100 |-> "tesla v100"]
LicenseKeywords == [windows_server |-> "windows server", rhel |-> "red hat", suse |-> "suse"]
TierKeywords == [f1 |-> "micro", g1 |-> "small"]

\* A rule: what is asked of the SKU, an empty set of resources, usages or services
\* being no question about them; what it must mention, all of it; what it must not;
\* whether it has to be sold in the region.
Rule(resources, usages, services, has, lacks, regional) ==
  [resources |-> resources, usages |-> usages, services |-> services, has |-> has, lacks |-> lacks,
   regional |-> regional]

\* find_compute_core_sku, find_compute_ram_sku and the same for custom shapes: a
\* predefined machine is not priced by a custom SKU, nor the other way round.
ComputeRule(part, family, custom) ==
  Rule({"Compute"}, {"OnDemand"}, {}, {FamilyKeywords[family], part} \cup (IF custom THEN {"custom"} ELSE {}),
       {"sole tenancy"} \cup (IF custom THEN {} ELSE {"custom"}), TRUE)

\* find_disk_sku: neither the replicated disks nor their snapshots.
DiskRule(type) == Rule({"Storage"}, {}, {}, {DiskKeywords[type]}, {"regional", "snapshot"}, TRUE)
SnapshotRule == Rule({"Storage"}, {}, {}, {"snapshot"}, {"archive"}, TRUE)
LocalSsdRule == Rule({"Storage"}, {}, {}, {"ssd backed local storage"}, {}, TRUE)
IopsRule == Rule({"Storage"}, {}, {}, {"iops", "extreme"}, {}, TRUE)
ThroughputRule == Rule({"Storage"}, {}, {}, {"throughput"}, {}, TRUE)

GpuRule(type) == Rule({"Compute", "GPU"}, {"OnDemand"}, {}, {GpuKeywords[type]}, {}, TRUE)

\* Licences are the same everywhere.
LicenseRule(os) == Rule({"Licensing"}, {}, {}, {LicenseKeywords[os]}, {}, FALSE)

EgressRule == Rule({"Network"}, {}, {}, {"data transfer out to internet", "standard"}, {"vpn"}, TRUE)
StaticIpRule == Rule({"Network"}, {}, {}, {"static ip charge"}, {}, TRUE)
BalancerRule == Rule({"Network"}, {}, {}, {"forwarding rule"}, {}, TRUE)

PubSubRule == Rule({}, {}, {}, {"message delivery", "basic"}, {}, FALSE)
LoggingRule == Rule({}, {}, {}, {"log volume"}, {}, FALSE)

\* find_gke_management_sku compares the whole description: zonal also for regional
\* clusters.
GkeRule(autopilot) ==
  Rule({}, {}, {}, {IF autopilot THEN "autopilot kubernetes clusters" ELSE "zonal kubernetes clusters"}, {}, FALSE)

SqlRule(has) == Rule({"ApplicationServices"}, {}, {"Cloud SQL"}, has, {}, TRUE)

\* find_cloud_sql_named_tier_sku
SqlTierRule(tier) == SqlRule({TierKeywords[tier]})

\* find_cloud_sql_core_sku and find_cloud_sql_ram_sku: of whichever engine.
SqlShapeRule(part) == SqlRule({part})
SqlBackupRule == SqlRule({"backup"})

\* find_cloud_sql_storage_sku: of any resource family, told apart by what it is not.
SqlStorageRule ==
  Rule({}, {}, {"Cloud SQL"}, {"storage", "ssd"},
       {"backup", "snapshot", "hdd", "binary log", "cpu", "ram", "memory", "instance"}, TRUE)

-----------------------------------------------------------------------------
(* Matching *)

\* A SKU without regions is sold everywhere.
RegionMatches(sku, region) == sku.regions = {} \/ region \in sku.regions

\* The SKUs of a list that a rule lets through, by their places.
Candidates(skus, rule, region) ==
  {i \in DOMAIN skus :
    /\ rule.resources = {} \/ skus[i].resource \in rule.resources
    /\ rule.usages = {} \/ skus[i].usage \in rule.usages
    /\ rule.services = {} \/ skus[i].service \in rule.services
    /\ rule.has \subseteq skus[i].mentions /\ rule.lacks \cap skus[i].mentions = {}
    /\ rule.regional => RegionMatches(skus[i], region)}

\* A faulty variant: the first candidate of the list is taken.
SelectFirst(skus, candidates) == CHOOSE i \in candidates : \A j \in candidates : i <= j

\* i is listed with a shorter description than j, or earlier with one as long.
Precedes(skus, i, j) ==
  \/ skus[i].length < skus[j].length
  \/ skus[i].length = skus[j].length /\ i <= j

\* _select_unique: the shortest description, the first of equal ones.
SelectUnique(skus, candidates) ==
  CHOOSE i \in candidates : \A j \in candidates : Precedes(skus, i, j)

\* What the matched SKU is charged for; <<"nothing">> when the lookup raises.
Match(skus, rule, region) ==
  LET candidates == Candidates(skus, rule, region)
  IN IF candidates = {} THEN <<"nothing">> ELSE skus[SelectUnique(skus, candidates)].prices

-----------------------------------------------------------------------------
(* What the provider looks up in the list of each service *)

\* The parts of a machine or a Cloud SQL instance.
Parts == {"core", "ram"}

\* What is asked for and the rule it is found by, as the methods of
\* GcpPricingProvider put the two together.
ComputeQuestions ==
  {<<<<part, f, c>>, ComputeRule(part, f, c)>> : part \in Parts, f \in DOMAIN FamilyKeywords, c \in BOOLEAN}
  \cup {<<<<"disk", d>>, DiskRule(d)>> : d \in DOMAIN DiskKeywords}
  \cup {<<<<"gpu", g>>, GpuRule(g)>> : g \in DOMAIN GpuKeywords}
  \cup {<<<<"license", os>>, LicenseRule(os)>> : os \in DOMAIN LicenseKeywords}
  \cup {<<<<"snapshot">>, SnapshotRule>>, <<<<"local ssd">>, LocalSsdRule>>, <<<<"iops">>, IopsRule>>,
        <<<<"throughput">>, ThroughputRule>>, <<<<"egress">>, EgressRule>>, <<<<"static ip">>, StaticIpRule>>,
        <<<<"load balancer">>, BalancerRule>>}

SqlQuestions ==
  {<<<<"sql", t>>, SqlTierRule(t)>> : t \in DOMAIN TierKeywords}
  \cup {<<<<"sql", "cpu">>, SqlShapeRule("cpu")>>, <<<<"sql", "ram">>, SqlShapeRule("ram")>>,
        <<<<"sql", "backup">>, SqlBackupRule>>, <<<<"sql", "storage">>, SqlStorageRule>>}

OtherQuestions ==
  {<<<<"gke", a>>, GkeRule(a)>> : a \in BOOLEAN}
  \cup {<<<<"pubsub">>, PubSubRule>>, <<<<"logging">>, LoggingRule>>}
=============================================================================
