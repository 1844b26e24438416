---------------------------- MODULE MCSkuCatalog ----------------------------
(***************************************************************************)
(* Lists shaped after real answers of the Cloud Billing Catalog and the    *)
(* fixtures of tests/test_sku_matcher.py: what is asked for, among look-   *)
(* alikes that come before and after it.                                   *)
(***************************************************************************)
EXTENDS SkuCatalog

Home == {"us-central1"}
Away == {"europe-west1"}
Sku(resource, usage, service, mentions, length, regions, prices) ==
  [resource |-> resource, usage |-> usage, service |-> service, mentions |-> mentions, length |-> length,
   regions |-> regions, prices |-> prices]
Vm(usage, mentions, length, regions, prices) ==
  Sku("Compute", usage, "Compute Engine", mentions, length, regions, prices)
Other == <<"something else">>

\* The cores or the RAM of a family, with its custom, preemptible, committed,
\* sole-tenant and reserved variants.
Family(f, part, more) ==
  <<Vm("OnDemand", {FamilyKeywords[f], part, "sole tenancy"}, 28, Home, Other),
    Vm("Preemptible", {FamilyKeywords[f], part}, 30, Home, Other),
    Vm("OnDemand", {FamilyKeywords[f], part}, 50, Home, Other),
    Vm("OnDemand", {FamilyKeywords[f], part}, 28 + more, Home, <<part, f, FALSE>>),
    Vm("OnDemand", {FamilyKeywords[f], part, "custom"}, 35 + more, Home, <<part, f, TRUE>>),
    Vm("Commit1Yr", {FamilyKeywords[f], part}, 20, Home, Other),
    Vm("OnDemand", {FamilyKeywords[f], part}, 26, Away, Other)>>
PdSku(resource, mentions, length, prices) ==
  Sku(resource, "OnDemand", "Compute Engine", mentions, length, Home, prices)

ComputePages ==
  <<Family("n2d", "core", 4) \o Family("n2d", "ram", 4) \o Family("c4a", "core", 4) \o
    <<PdSku("Storage", {"storage pd capacity", "regional"}, 43, Other),
      PdSku("Storage", {"ssd backed local storage"}, 55, Other),
      PdSku("Network", {"data transfer out to internet", "vpn"}, 60, Other),
      Vm("Preemptible", {"tesla t4"}, 25, Home, Other),
      PdSku("Storage", {"snapshot", "archive"}, 20, Other)>>,
    Family("n2", "core", 0) \o Family("n2", "ram", 0) \o Family("c4", "core", 0) \o
    <<PdSku("Storage", {"storage pd capacity"}, 34, <<"disk", "standard">>),
      PdSku("Storage", {"ssd backed pd capacity"}, 37, <<"disk", "ssd">>),
      PdSku("Storage", {"extreme pd capacity", "extreme"}, 33, <<"disk", "extreme">>),
      PdSku("Storage", {"iops", "extreme"}, 30, <<"iops">>),
      PdSku("Storage", {"snapshot"}, 34, <<"snapshot">>),
      PdSku("Storage", {"ssd backed local storage"}, 24, <<"local ssd">>),
      PdSku("GPU", {"tesla t4"}, 36, <<"gpu", "t4">>),
      Vm("Commit3Yr", {"tesla t4"}, 20, Home, Other),
      PdSku("Network", {"data transfer out to internet", "standard"}, 61, <<"egress">>),
      PdSku("Network", {"forwarding rule"}, 46, <<"load balancer">>),
      PdSku("Network", {"static ip charge"}, 16, <<"static ip">>),
      Sku("Licensing", "OnDemand", "Compute Engine", {"red hat"}, 40, {}, <<"license", "rhel">>)>>>>

SqlSku(resource, mentions, length, prices) ==
  Sku(resource, "OnDemand", "Cloud SQL", mentions, length, Home, prices)
SqlPages ==
  <<<<SqlSku("ApplicationServices", {"cpu", "regional"}, 57, Other),
      SqlSku("Storage", {"storage", "ssd", "backup"}, 30, Other),
      SqlSku("Storage", {"storage", "hdd"}, 43, Other),
      SqlSku("ApplicationServices", {"micro", "instance"}, 35, <<"sql", "f1">>)>>,
    <<SqlSku("ApplicationServices", {"cpu"}, 43, <<"sql", "cpu">>),
      SqlSku("ApplicationServices", {"ram"}, 42, <<"sql", "ram">>),
      SqlSku("Storage", {"storage", "ssd"}, 43, <<"sql", "storage">>),
      SqlSku("ApplicationServices", {"storage", "backup"}, 46, <<"sql", "backup">>)>>>>

GlobalSku(mentions, length, prices) == Sku("Network", "OnDemand", "other", mentions, length, {}, prices)
OtherPages ==
  <<<<GlobalSku({"message delivery", "basic"}, 37, Other), GlobalSku({"snapshot", "storage"}, 16, Other)>>,
    <<GlobalSku({"message delivery", "basic"}, 22, <<"pubsub">>),
      GlobalSku({"zonal kubernetes clusters"}, 25, <<"gke", FALSE>>),
      GlobalSku({"autopilot kubernetes clusters"}, 29, <<"gke", TRUE>>)>>>>

MCListing == [compute |-> ComputePages, sql |-> SqlPages, other |-> OtherPages]
MCQuestions == [compute |-> ComputeQuestions, sql |-> SqlQuestions, other |-> OtherQuestions]
=============================================================================
