------------------------------ MODULE Pricing ------------------------------
(***************************************************************************)
(* PricingEngine.calculate (pricing/engine.py), the line items of catalog  *)
(* services and the resource view built over the line items                *)
(* (catalog/resource_summary.py, legacy_resource_summary.py).              *)
(*                                                                         *)
(* A unit price is an integer number of points and an amount an integer    *)
(* number of cents.  An item keeps the kind of its sku_id.                 *)
(* Provisioned throughput, binary logs and Autopilot's memory and storage  *)
(* are priced like the provisioned IOPS, backups and vCPU kept here.       *)
(***************************************************************************)
EXTENDS ServiceForms, SequencesExt

CONSTANTS
  HourRate,     \* family -> [vcpu, ram], the hourly prices of a vCPU and of 1/20 GB
  TierPrice,    \* Cloud SQL tier -> hourly price
  SpotPercent,  \* family -> percent off, where it is not the usual one
  Committed,    \* commitment term in years -> percent off, where one is sold
  Sustained,
  Tax,
  Support

\* At most all of a price is taken off, and no tier's price is negative.
ASSUME DiscountAssumption ==
  /\ \A family \in DOMAIN SpotPercent : SpotPercent[family] \in 0..100
  /\ \A years \in DOMAIN Committed : Committed[years] \in 0..100
  /\ Sustained \in 0..100
  /\ \A tier \in DOMAIN TierPrice : TierPrice[tier] \in Nat

\* Whatever is sold has a price (pricing/mock_data.py).
ASSUME PriceAssumption ==
  /\ \A sku \in {"gpu", "os-license", "local-ssd", "disk", "disk-provisioned-iops", "snapshot-storage",
                 "cloudsql-storage", "cloudsql-backup", "network-egress", "load-balancer", "static-ip",
                 "gke-cluster-management", "gke-enterprise-edition", "gke-autopilot", "gke-autopilot-spot",
                 "pubsub", "cloud-logging"} : Price[sku] \in Nat
  /\ \A family \in DOMAIN HourRate : HourRate[family].vcpu \in Nat /\ HourRate[family].ram \in Nat
  /\ PubSubFreeGb \in Nat /\ LoggingFreeGb \in Nat

\* A card has a list of dimensions with their prices, its fields have defaults, and no
\* card is called like the item of a database instance.
ASSUME CardsAssumption ==
  /\ "cloudsql-instance" \notin DOMAIN Cards
  /\ \A service \in DOMAIN Cards :
       LET prices == Cards[service].prices
       IN /\ prices \in Seq(Range(prices))
          /\ \A i \in DOMAIN prices :
               /\ prices[i].per \in Nat \ {0} /\ prices[i].price \in Nat
               /\ \A option \in DOMAIN prices[i].rates : prices[i].rates[option] \in Nat
          /\ \A f \in DOMAIN Cards[service].numbers : Cards[service].numbers[f].default \in Int
  /\ \A region \in DOMAIN RegionPercent : RegionPercent[region] \in Nat

\* The provider has the prices that a specification is looked up by.
Quoted(req, spec) ==
  /\ spec.compute # Nothing => spec.compute.family \in DOMAIN HourRate
  /\ spec.tier # Nothing => spec.tier.tier \in DOMAIN TierPrice
  /\ spec.nodes # Nothing /\ spec.nodes > 0 => req.kubernetes.family \in DOMAIN HourRate

Item(sku, category, points) ==
  [sku |-> sku, category |-> category, amount |-> Rounded(points, 100)]
When(condition, items) == IF condition THEN items ELSE <<>>
Amounts(items) == [i \in DOMAIN items |-> items[i].amount]
Sum(items) == SumFunction(Amounts(items))

FullMonth(hours) == IF hours = 0 THEN HoursPerMonth ELSE AtMost(hours, HoursPerMonth)
Instances(req) == IF req.compute = Nothing THEN 1 ELSE req.compute.count

\* Running hours reduce the VM, its GPUs and its license, not its local SSDs.
ComputeItems(req, spec) ==
  IF spec.compute = Nothing THEN <<>>
  ELSE LET c == req.compute
           m == spec.compute
           running(sku, category, hourly) ==
             <<Item(sku, category, hourly * FullMonth(spec.hours) * c.count)>>
           ssds == IF req.storage = Nothing THEN 0 ELSE req.storage.localSsds
       IN running("compute", "Compute", m.vcpu * HourRate[m.family].vcpu + m.ram * HourRate[m.family].ram)
          \o When(c.gpu # "none" /\ c.gpuCount > 0,
                  running("gpu", "GPU", Price["gpu"] * c.gpuCount))
          \o When(c.os # "linux", running("os-license", "Licensing", Price["os-license"] * m.vcpu))
          \o When(ssds > 0, <<Item("local-ssd", "Storage", Price["local-ssd"] * ssds * c.count)>>)

DiskItems(req, spec) ==
  IF spec.disks = <<>> THEN <<>>
  ELSE LET s == req.storage
           n == Instances(req)
           snapshotGb == IF s.snapshotGb # 0 THEN s.snapshotGb ELSE spec.disks[1] * n
           disk(gb) == Item("disk", "Storage", Price["disk"] * gb * n)
       IN <<disk(spec.disks[1])>>
          \o When(s.snapshots,
                  <<Item("snapshot-storage", "Storage", Price["snapshot-storage"] * snapshotGb)>>)
          \o When(s.iops > 0,
                  <<Item("disk-provisioned-iops", "Storage", Price["disk-provisioned-iops"] * s.iops * n)>>)
          \o [i \in DOMAIN s.extra |-> disk(spec.disks[i + 1])]

\* A tier's price for the month, doubled for high availability.
DatabaseMonthly(d, spec) ==
  TierPrice[spec.tier.tier] * HoursPerMonth * (IF d.ha THEN 2 ELSE 1)

DatabaseItems(req, spec) ==
  IF spec.tier = Nothing THEN <<>>
  ELSE LET d == req.database
       IN <<Item("cloudsql-instance", "Database", DatabaseMonthly(d, spec))>>
          \o When(d.size > 0,
                  <<Item("cloudsql-storage", "Database", Price["cloudsql-storage"] * d.size)>>)
          \o When(d.backup > 0,
                  <<Item("cloudsql-backup", "Database", Price["cloudsql-backup"] * d.backup)>>)

NetworkItems(req) ==
  IF req.network = Nothing THEN <<>>
  ELSE LET n == req.network
       IN When(n.egress > 0, <<Item("network-egress", "Network", Price["network-egress"] * n.egress)>>)
          \o When(n.balancer, <<Item("load-balancer", "Network", Price["load-balancer"])>>)
          \o When(n.ips > 0, <<Item("static-ip", "Network", Price["static-ip"] * n.ips)>>)

\* The management fee always, the Enterprise fee by vCPU, and then Autopilot's
\* pods or Standard's node pool, which a regional cluster has in three zones.
KubernetesItems(req, spec) ==
  IF spec.nodes = Nothing THEN <<>>
  ELSE LET k == req.kubernetes
           zones == IF k.regional THEN 3 ELSE 1
           pool == spec.nodes * zones
           hours == FullMonth(k.hours)
           hourly == k.vcpu * HourRate[k.family].vcpu + k.ram * HourRate[k.family].ram
           fleet == IF k.autopilot THEN k.pods ELSE pool * k.vcpu
           podPrice == IF k.spot THEN Price["gke-autopilot-spot"] ELSE Price["gke-autopilot"]
       IN <<Item("gke-cluster-management", "Compute", Price["gke-cluster-management"] * HoursPerMonth)>>
          \o When(k.enterprise /\ fleet > 0,
                  <<Item("gke-enterprise-edition", "Compute",
                         Price["gke-enterprise-edition"] * fleet * HoursPerMonth)>>)
          \o When(k.autopilot /\ k.pods > 0,
                  <<Item("gke-autopilot", "Compute", podPrice * k.pods * hours)>>)
          \o When(~k.autopilot /\ spec.nodes > 0,
                  <<Item("gke-node-pool-compute", "Compute", hourly * hours * pool),
                    Item("gke-node-pool-disk", "Storage", Price["disk"] * k.disk * pool)>>
                  \o When(k.gpus > 0,
                          <<Item("gke-node-pool-gpu", "GPU", Price["gpu"] * k.gpus * hours * pool)>>))

-----------------------------------------------------------------------------
(* Catalog services *)

\* Volume is rounded for one unit and multiplied, retained logs are rounded last.
VolumeItems(selection, quantity) ==
  LET form == selection.form
      item(points) == [sku |-> selection.service, category |-> Cards[selection.service].category,
                       amount |-> Rounded(points, 100) * quantity]
      retained == Entry(form, "extended_retention_gb_per_month", 0)
  IN CASE selection.service = "pubsub" -> <<item(Price["pubsub"] * PubSubGb(form))>>
       [] selection.service = "cloud-logging" ->
            <<item(Price["cloud-logging"] * LoggingGb(form))>>
            \o When(retained > 0,
                    <<Item("cloud-logging", "Observability", 100 * retained * quantity)>>)

\* An item per pricing dimension, rounded last.  Unknown services and cards
\* without dimensions have none.
ServiceItems(selection, quantity) ==
  LET service == selection.service
      prices == Cards[service].prices
  IN CASE ~KnownCard(service) -> <<>>
       [] KnownCard(service) /\ service \in VolumeServices -> VolumeItems(selection, quantity)
       [] OTHER -> [i \in DOMAIN prices |->
                      Item(service, Cards[service].category,
                           Points(service, selection.form, prices[i]) * quantity)]

\* The flat calculator's items, then the volume calculator's.
ExtraItems(selections) ==
  LET volume == {i \in DOMAIN selections : selections[i].service \in VolumeServices}
      ordered == Picked(selections, DOMAIN selections \ volume) \o Picked(selections, volume)
  IN FlattenSeq([i \in DOMAIN ordered |-> ServiceItems(ordered[i], ordered[i].quantity)])

\* Every selection has an assumption, and so have fields that are not priced as asked.
ServiceNotes(selections) ==
  UNION {{selections[i].service} \cup UnpricedNotes(selections[i].service, selections[i].form) :
           i \in DOMAIN selections}

-----------------------------------------------------------------------------
(* Discounts and totals *)

\* A faulty variant: GKE's items are in the VM bucket too.
VmBucketWithGke(items) ==
  {i \in DOMAIN items : items[i].category \in {"Compute", "GPU"}}

GkeSkus == {"gke-cluster-management", "gke-enterprise-edition", "gke-autopilot",
            "gke-node-pool-compute", "gke-node-pool-disk", "gke-node-pool-gpu"}
PoolSkus == {"gke-node-pool-compute", "gke-node-pool-gpu"}

VmBucket(items) ==
  {i \in DOMAIN items : items[i].category \in {"Compute", "GPU"} /\ items[i].sku \notin GkeSkus}
GkeBucket(items) == {i \in DOMAIN items : items[i].sku \in PoolSkus}

CommittedPercent(years) == IF years \in DOMAIN Committed THEN Committed[years] ELSE 0
SpotOff(family) == IF family \in DOMAIN SpotPercent THEN SpotPercent[family] ELSE 60

Discount(kind, covers, amount, percent) ==
  [kind |-> kind, covers |-> covers, savings |-> Rounded(amount * percent, 100)]

\* _apply_bucket_discount: Spot, or else the commitment, or else Sustained Use.
BucketDiscount(items, covers, spot, family, years) ==
  LET amount == SumFunctionOnSet(Amounts(items), covers)
      kind == CASE spot -> "spot" [] ~spot /\ years > 0 -> "committed" [] OTHER -> "sustained"
      percent == CASE kind = "spot" -> SpotOff(family)
                   [] kind = "committed" -> CommittedPercent(years)
                   [] kind = "sustained" -> Sustained
  IN When(amount > 0 /\ percent > 0, <<Discount(kind, covers, amount, percent)>>)

\* Cloud SQL's own commitment covers the instance, before its amount is rounded.
DatabaseDiscount(req, spec, items) ==
  IF spec.tier = Nothing THEN <<>>
  ELSE LET percent == CommittedPercent(req.database.commitment)
           covers == {i \in DOMAIN items : items[i].sku = "cloudsql-instance"}
       IN When(percent > 0,
               <<[kind |-> "committed", covers |-> covers,
                  savings |-> Rounded(DatabaseMonthly(req.database, spec) * percent, 10000)]>>)

Discounts(req, spec, items, years) ==
  LET vmSpot == req.compute # Nothing /\ req.compute.spot
      vmFamily == IF spec.compute = Nothing THEN "e2" ELSE spec.compute.family
      gkeSpot == req.kubernetes # Nothing /\ req.kubernetes.spot
      gkeFamily == IF req.kubernetes = Nothing THEN "e2" ELSE req.kubernetes.family
  IN DatabaseDiscount(req, spec, items)
     \o BucketDiscount(items, VmBucket(items), vmSpot, vmFamily, years)
     \o BucketDiscount(items, GkeBucket(items), gkeSpot, gkeFamily, years)

LegacyItems(req, spec) ==
  ComputeItems(req, spec) \o DiskItems(req, spec) \o DatabaseItems(req, spec)
  \o NetworkItems(req) \o KubernetesItems(req, spec)

Breakdown(items, legacy, discounts) ==
  LET subtotal == Sum(items)
      off == SumFunction([d \in DOMAIN discounts |-> discounts[d].savings])
      after == subtotal - off
      total == after + Rounded(after * Tax, 100) + Rounded(after * Support, 100)
  IN [items |-> items, legacy |-> legacy, discounts |-> discounts, subtotal |-> subtotal,
      discountTotal |-> off, total |-> total, yearly |-> total * 12, threeYears |-> total * 36]

\* PricingEngine.calculate: legacy counts the items that are not of the catalog.
CalculateOver(legacy, req, spec, extras, years) ==
  Breakdown(legacy \o extras, Len(legacy), Discounts(req, spec, legacy \o extras, years))
Calculate(req, spec, extras, years) ==
  CalculateOver(LegacyItems(req, spec), req, spec, extras, years)

-----------------------------------------------------------------------------
(* Resource summaries *)

\* _GROUPS: the sku_ids each prefix matches.
Groups ==
  <<[category |-> "Compute", skus |-> {"compute", "gpu", "os-license", "local-ssd"}],
    [category |-> "Storage", skus |-> {"disk", "disk-provisioned-iops", "snapshot-storage"}],
    [category |-> "Database", skus |-> {"cloudsql-instance", "cloudsql-storage", "cloudsql-backup"}],
    [category |-> "Network", skus |-> {"network-egress", "load-balancer", "static-ip"}],
    [category |-> "Compute", skus |-> GkeSkus]>>

Row(category, subtotal) == [category |-> category, amount |-> subtotal]

\* build_legacy_resource_summaries: a row per group that has items.
LegacyRows(items) ==
  LET of(g) == {i \in DOMAIN items : items[i].sku \in Groups[g].skus}
      used == {g \in DOMAIN Groups : of(g) # {}}
  IN [n \in 1..Cardinality(used) |->
        LET g == Nth(used, n)
        IN Row(Groups[g].category, SumFunctionOnSet(Amounts(items), of(g)))]

\* The selections that are equal to the i-th, and those that are known and the
\* first of their kind.
Equal(selections, i) ==
  {j \in DOMAIN selections : /\ selections[j].service = selections[i].service
                             /\ selections[j].form = selections[i].form}
Firsts(selections) ==
  {i \in DOMAIN selections : /\ KnownCard(selections[i].service)
                             /\ \A j \in Equal(selections, i) : i <= j}

\* A row of the resource view for so many of the i-th selection.
CatalogRow(selections, i, quantity) ==
  Row(Cards[selections[i].service].category, Sum(ServiceItems(selections[i], 1)) * quantity)

\* A faulty variant: a repeated selection shares the row and leaves its quantity out.
CatalogRowsUnmerged(selections) ==
  [n \in 1..Cardinality(Firsts(selections)) |->
     LET i == Nth(Firsts(selections), n) IN CatalogRow(selections, i, selections[i].quantity)]

\* build_resource_summaries: equal selections share a row; the rounded cost of
\* one unit is multiplied by their quantities.
CatalogRows(selections) ==
  LET quantities == [i \in DOMAIN selections |-> selections[i].quantity]
  IN [n \in 1..Cardinality(Firsts(selections)) |->
        LET i == Nth(Firsts(selections), n)
        IN CatalogRow(selections, i, SumFunctionOnSet(quantities, Equal(selections, i)))]
=============================================================================
