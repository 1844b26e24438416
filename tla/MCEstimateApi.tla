--------------------------- MODULE MCEstimateApi ---------------------------
(***************************************************************************)
(* A part of the catalog of mock_data.py (families with every combination  *)
(* of custom shapes, fixed sizes and regions) and requests around its      *)
(* boundaries, one section varied at a time and then pairs that meet in    *)
(* the discounts.                                                          *)
(***************************************************************************)
EXTENDS EstimateApi

Type(name, family, vcpu, ram) == [name |-> name, family |-> family, vcpu |-> vcpu, ram |-> ram]
MCMachineTypes ==
  <<Type("e2-micro", "e2", 1, 20), Type("e2-small", "e2", 1, 40), Type("e2-medium", "e2", 1, 80),
    Type("e2-standard-2", "e2", 2, 160), Type("e2-standard-4", "e2", 4, 320),
    Type("n1-standard-1", "n1", 1, 75), Type("n1-standard-2", "n1", 2, 150),
    Type("n1-standard-4", "n1", 4, 300), Type("n2-standard-2", "n2", 2, 160),
    Type("n2-standard-4", "n2", 4, 320), Type("n2-standard-8", "n2", 8, 640),
    Type("n2-standard-16", "n2", 16, 1280), Type("c2-standard-4", "c2", 4, 320),
    Type("n4a-standard-2", "n4a", 2, 160)>>

Cap(custom, low, high, minRam, maxRam, regions) ==
  [custom |-> custom, minVcpu |-> low, maxVcpu |-> high, step |-> 2, minRam |-> minRam,
   maxRam |-> maxRam, regions |-> regions]
MCCapability ==
  [e2 |-> Cap(TRUE, 2, 32, 10, 160, DOMAIN RegionPercent), n1 |-> Cap(TRUE, 1, 96, 18, 130, DOMAIN RegionPercent),
   n2 |-> Cap(TRUE, 2, 128, 10, 160, DOMAIN RegionPercent), c2 |-> Cap(FALSE, 1, 1, 1, 1, DOMAIN RegionPercent),
   n4a |-> Cap(FALSE, 1, 1, 1, 1, {"us-central1"})]

Tier(tier, vcpu, ram, engines) == [tier |-> tier, vcpu |-> vcpu, ram |-> ram, engines |-> engines]
MCTiers ==
  <<Tier("f1", 1, 12, {"postgres"}), Tier("g1", 1, 34, {"postgres"}),
    Tier("two", 2, 160, {"postgres", "sqlserver"}), Tier("four", 4, 320, {"postgres", "sqlserver"})>>
MCTierPrice == [f1 |-> 105, g1 |-> 350, two |-> 1010, four |-> 2010]

MCDiskMin == ("pd-standard" :> 10) @@ ("pd-balanced" :> 10) @@ ("pd-ssd" :> 10) @@ ("pd-extreme" :> 500)
MCGpuFamilies == [t4 |-> {"n1", "n2"}, a100 |-> {"a2"}]
MCGpuMax == [t4 |-> 4, a100 |-> 16]

MCHourRate == [f \in DOMAIN MCCapability |-> [vcpu |-> 218 + (IF f = "e2" THEN 0 ELSE 98), ram |-> 2]]
MCPrice ==
  [sku \in {"gpu", "os-license", "local-ssd", "disk", "disk-provisioned-iops", "snapshot-storage",
            "cloudsql-storage", "cloudsql-backup", "network-egress", "load-balancer", "static-ip",
            "gke-cluster-management", "gke-enterprise-edition", "gke-autopilot", "gke-autopilot-spot",
            "pubsub", "cloud-logging"}
     |-> CASE sku = "gpu" -> 3500 [] sku = "os-license" -> 400 [] sku = "local-ssd" -> 300000
           [] sku = "disk" -> 1000 [] sku = "snapshot-storage" -> 265
           [] sku = "cloudsql-storage" -> 1700 [] sku = "load-balancer" -> 182500
           [] sku = "pubsub" -> 390 [] sku = "cloud-logging" -> 5000
           [] sku = "gke-autopilot" -> 445 [] sku = "gke-autopilot-spot" -> 89 [] OTHER -> 83]
MCSpotPercent == [f \in DOMAIN MCCapability |-> IF f = "c2" THEN 55 ELSE 60]
MCCommitted == (1 :> 25) @@ (3 :> 45)

-----------------------------------------------------------------------------
(* Requests *)

Empty ==
  [region |-> "us-central1", strategy |-> "balanced", force |-> FALSE, term |-> 0,
   compute |-> Nothing, storage |-> Nothing, database |-> Nothing, network |-> Nothing,
   kubernetes |-> Nothing, business |-> Nothing, availability |-> Nothing, selected |-> <<>>]
Selected(service, quantity, form) == [service |-> service, quantity |-> quantity, form |-> form]
SqlForm(form, size) ==
  [form EXCEPT !.number["size_gb"] = size, !.number["vcpu"] = 2, !.number["ram_gb"] = 160]
Vm == DefaultCompute([family |-> "n1", vcpu |-> 2, count |-> 2])
Disk == AsStorage([EmptyForm EXCEPT !.number = [size_gb |-> 20]])
Database == [DefaultDatabase(0, FALSE) EXCEPT !.size = 10]
Cluster == [DefaultKubernetes EXCEPT !.autopilot = FALSE]

\* Every shape around the families' bounds and increments, forced or not.
Shapes ==
  {[Empty EXCEPT !.strategy = s, !.force = f,
     !.compute = [Vm EXCEPT !.family = family, !.kind = kind, !.vcpu = vcpu, !.ram = ram]] :
     s \in {"conservative", "balanced", "performance"}, f \in BOOLEAN,
     family \in DOMAIN MCCapability, kind \in {"unset", "predefined", "custom"},
     vcpu \in {1, 2, 3, 4, 5, 34}, ram \in {15, 72, 150, 152, 320, 700}}
\* Named types, known and not, offered in the region and not, with and without a
\* shape, of the declared family and not.
Names ==
  {[Empty EXCEPT !.force = f, !.region = g, !.compute = [Vm EXCEPT !.family = family, !.machineType = name,
     !.vcpu = vcpu, !.ram = vcpu * 75, !.gpu = gpu, !.gpuCount = 5]] :
     f \in BOOLEAN, g \in {"us-central1", "asia-south1"}, family \in {"e2", "n1"},
     name \in {"e2-medium", "n1-standard-4", "n4a-standard-2", "x9"},
     vcpu \in {0, 3}, gpu \in {"none", "t4", "a100"}}
\* Both fleets, in every provisioning model and under every commitment.
Fleets ==
  {[Empty EXCEPT !.term = term,
     !.compute = [Vm EXCEPT !.spot = vmSpot, !.gpu = "t4", !.gpuCount = gpus,
                      !.os = IF gpus = 0 THEN "windows" ELSE "linux", !.hours = hours],
     !.storage = [Disk EXCEPT !.localSsds = 1],
     !.kubernetes = [Cluster EXCEPT !.spot = gkeSpot, !.autopilot = auto, !.pods = pods,
                       !.enterprise = TRUE, !.regional = regional, !.gpus = gpus, !.nodes = nodes],
     !.selected = extra] :
     term \in 0..3, vmSpot \in BOOLEAN, gkeSpot \in BOOLEAN, auto \in BOOLEAN, pods \in {0, 2},
     regional \in BOOLEAN, gpus \in {0, 1}, hours \in {0, 176, 744},
     nodes \in {0, 3},
     extra \in {<<>>, <<Selected("filestore", 1, DefaultForm("filestore"))>>}}
\* A number below zero, in a field that has no minimum.
Negative(form) == [form EXCEPT !.number["capacity_gb"] = -9000]
Refunds ==
  {[Empty EXCEPT !.term = term, !.compute = Vm,
     !.selected = <<Selected("filestore", 1, Negative(DefaultForm("filestore")))>>] : term \in {0, 1}}
Storages ==
  {[Empty EXCEPT !.storage = [Disk EXCEPT !.type = type, !.size = size, !.snapshots = snap,
      !.snapshotGb = gb, !.iops = iops, !.extra = extra]] :
     type \in {"pd-balanced", "pd-extreme"}, size \in {5, 20, 70000}, snap \in BOOLEAN, gb \in {0, 7},
     iops \in {0, 100}, extra \in {<<>>, <<5, 20>>}}
Databases ==
  {[Empty EXCEPT !.strategy = s,
     !.database = [Database EXCEPT !.required = needed, !.tier = tier, !.engine = engine, !.vcpu = vcpu,
       !.ram = ram, !.size = size, !.ha = ha, !.backup = size, !.commitment = term]] :
     s \in {"conservative", "performance"}, needed \in BOOLEAN, tier \in {"custom", "shared-core"},
     engine \in {"postgres", "sqlserver"}, vcpu \in {1, 2, 3}, ram \in {34, 160, 200}, size \in {0, 10},
     ha \in BOOLEAN, term \in {0, 1, 3}}
Networks ==
  {[Empty EXCEPT !.network = [balancer |-> lb, ips |-> ips, egress |-> gb, cdn |-> cdn, vpn |-> FALSE]] :
     lb \in BOOLEAN, ips \in {0, 1}, gb \in {0, 50}, cdn \in BOOLEAN}
Availability == [ha |-> FALSE, uptime |-> 0, dr |-> FALSE, backup |-> "none"]
Businesses ==
  {[Empty EXCEPT !.business = [users |-> users, peak |-> peak], !.selected = selected,
     !.availability = IF stated THEN [Availability EXCEPT !.ha = ha, !.uptime = uptime] ELSE Nothing] :
     users \in {0, 100, 101, 501, 1001, 5001, 10001}, peak \in {0, 600}, stated \in BOOLEAN, ha \in BOOLEAN,
     uptime \in {0, 9990, 9995, 9999, 10000}, selected \in {<<>>, <<Selected("cloud-sql", 1, SqlForm(DefaultForm("cloud-sql"), 20))>>}}

-----------------------------------------------------------------------------
(* Forms *)

AsAdded == [service \in DOMAIN Cards |-> DefaultForm(service)]

\* An amount worth more than a cent in every field.
Worth(service, card, field) ==
  LET of == {i \in DOMAIN card.prices : card.prices[i].of = field}
      per == IF of = {} THEN 1 ELSE card.prices[CHOOSE i \in of : TRUE].per
  IN CASE field \in {"log_volume_gb_per_month", "avg_duration_ms", "avg_execution_time_ms"} -> 100
       [] service = "cloud-run" /\ field \in {"vcpu_count", "memory_gb"} -> 4000
       [] service = "interconnect" /\ field = "connections" -> 1
       [] OTHER -> AtMost(per * 20, card.numbers[field].high)
FullFrom(service, card, form) ==
  [form EXCEPT !.number = [f \in DOMAIN card.numbers |-> Worth(service, card, f)]]
Full == [service \in DOMAIN Cards |-> FullFrom(service, Cards[service], AsAdded[service])]

\* Filled in with each option in turn; with a field cleared, or holding something else.
FilledIn(card, full) ==
  {[full EXCEPT !.choice[f] = option] :
     <<f, option>> \in UNION {{f} \X card.choices[f].options : f \in DOMAIN card.choices}}
  \cup {full}
Spoilt(card, form) ==
  UNION {{[form EXCEPT !.blank = {f}, !.number = [g \in DOMAIN @ \ {f} |-> @[g]]],
          [form EXCEPT !.text = {f}, !.number = [g \in DOMAIN @ \ {f} |-> @[g]]]} : f \in DOMAIN card.numbers}

\* The cards one at a time: as they are added, left empty, spoilt and filled in.
FormsOf(card, form, full) ==
  {form, EmptyForm} \cup Spoilt(card, form) \cup (IF card.binding = "none" THEN FilledIn(card, full) ELSE {})
Forms ==
  {[Empty EXCEPT !.selected = <<Selected(service, 1, form)>>] :
     <<service, form>> \in
       UNION {{s} \X FormsOf(Cards[s], AsAdded[s], Full[s]) : s \in DOMAIN Cards}}

Volumes(full) ==
  {Selected("cloud-logging", q, [full EXCEPT !.number["retention_days"] = days,
              !.number["extended_retention_gb_per_month"] = gb]) : q \in {1, 3}, days \in {30, 31}, gb \in {0, 7}}
SomeSelections(default, full) ==
  {Selected("persistent-disk", 1, [default["persistent-disk"] EXCEPT !.number["size_gb"] = n]) : n \in {1, 20}}
  \cup {Selected("cloud-sql", 1, SqlForm(default["cloud-sql"], n)) : n \in {1, 20}}
  \cup {Selected("gke", q, default["gke"]) : q \in {1, 3}}
  \cup {Selected("alloydb", q, [default["alloydb"] EXCEPT !.number["storage_gb"] = n]) :
           n \in {13, 50}, q \in {1, 3}}
  \cup {Selected("pubsub", q, full["pubsub"]) : q \in {1, 3}} \cup Volumes(full["cloud-logging"])
  \cup {Selected("vpc", 1, EmptyForm), Selected("retired", 1, EmptyForm)}
OneOrTwo(some) ==
  {[Empty EXCEPT !.selected = selected, !.storage = storage] :
     selected \in {<<a>> : a \in some} \cup {<<a, b>> : a, b \in some}, storage \in {Nothing, Disk}}
Selections == OneOrTwo(SomeSelections(AsAdded, Full))

MCRequests ==
  [shapes |-> Shapes, names |-> Names, fleets |-> Fleets, storages |-> Storages,
   databases |-> Databases, networks |-> Networks, businesses |-> Businesses, forms |-> Forms,
   selections |-> Selections, refunds |-> Refunds]

-----------------------------------------------------------------------------
(* Questions for the advisers *)

\* VMs named and by shape, of predefined types and custom, and fleets whose discounts
\* go by other names.
MCAnalysed ==
  {[Empty EXCEPT !.strategy = s,
     !.compute = [Vm EXCEPT !.family = family, !.kind = kind, !.vcpu = vcpu, !.ram = vcpu * 80, !.hours = hours]] :
     s \in {"conservative", "performance"}, family \in {"n1", "n2"}, kind \in {"unset", "custom"},
     vcpu \in {2, 4, 8, 15}, hours \in {0, 176}}
  \cup {[Empty EXCEPT !.compute = [Vm EXCEPT !.family = "n2", !.machineType = "n2-standard-8"], !.strategy = "performance"],
        [Empty EXCEPT !.storage = Disk], [Empty EXCEPT !.kubernetes = Cluster],
        [Empty EXCEPT !.compute = [Vm EXCEPT !.gpu = "t4", !.gpuCount = 5]]}
  \cup {[Empty EXCEPT !.compute = [Vm EXCEPT !.spot = spot, !.gpu = "t4", !.gpuCount = gpus], !.kubernetes = cluster,
          !.selected = <<Selected("cloud-run-functions", 9, Full["cloud-run-functions"])>>] :
          spot \in BOOLEAN, gpus \in {0, 1}, cluster \in {Nothing, Cluster}}
MCUsages ==
  {[peak |-> peak, average |-> AtMost(peak, 20), ramUse |-> ram] :
     peak \in {3, 10, 30, 39, 60, 90, 100}, ram \in {Nothing, 10, 60, 95}}

-----------------------------------------------------------------------------
(* Workbooks and texts *)

Cell(kind, value) == [kind |-> kind, value |-> value]
Num(n) == Cell("number", n)
Yes == Cell("flag", TRUE)
No == Cell("flag", FALSE)
Word(w) == Cell("name", w)
Odd == Cell("other", "odd")
Blank == Cell("blank", 0)
Spaces == Cell("empty", "")
Endless == Cell("infinite", 0)

\* A section at a time, in and out of its model's bounds, and readings of its cells.
SectionCells ==
  [compute |-> {[vcpu |-> v, ram |-> r] : v \in {Num(2), Num(0), Num(417), Odd, Blank, Spaces, Endless, Yes}, r \in {Num(160), Odd}}
               \cup {[machineType |-> Word("e2-medium"), family |-> f, count |-> c] :
                       f \in {Word("n1"), Word("x9"), Num(1)}, c \in {Num(2), Num(0)}},
   storage |-> {[size |-> n, snapshots |-> b, type |-> Word("pd-balanced"), colour |-> Odd] :
                  n \in {Num(20), Num(0), Blank}, b \in {Yes, No, Num(1), Num(0), Num(2)}},
   database |-> {[required |-> b, size |-> n, vcpu |-> v, engine |-> Word("postgres")] :
                   b \in {Yes, No}, n \in {Num(10), Num(0), Num(-1)}, v \in {Num(2), Num(0), Num(3)}},
   network |-> {[balancer |-> b, ips |-> n, vpn |-> Yes] : b \in {Yes, No, Endless}, n \in {Num(0), Num(2), Num(-1)}},
   kubernetes |-> {[required |-> Yes, autopilot |-> b, nodes |-> n] : b \in {Yes, No}, n \in {Num(0), Num(3)}},
   availability |-> {[ha |-> b, uptime |-> n] : b \in {Yes, No}, n \in {Num(9995), Num(10001)}},
   business |-> {[users |-> n, peak |-> m] : n \in {Num(0), Num(600), Odd}, m \in {Blank, Spaces, Num(900)}}]
Tops == {[name |-> Word("shop"), region |-> Word("us-central1")], [name |-> Blank, strategy |-> Word("performance")],
         [name |-> Num(7), region |-> Word("mars"), strategy |-> Word("balanced")]}
Sheets ==
  {"top" :> t : t \in Tops}
  \cup {(s :> c) @@ ("top" :> t) : <<s, c>> \in UNION {{s} \X SectionCells[s] : s \in DOMAIN SectionCells}, t \in Tops}
Pairs ==
  {("storage" :> c) @@ ("database" :> d) @@ ("top" :> [name |-> Word("shop")]) :
     c \in SectionCells.storage, d \in SectionCells.database}
Uploaded(cells, auto, force) == [readable |-> TRUE, cells |-> cells, auto |-> auto, force |-> force, term |-> 1]
MCUploads ==
  {Uploaded(c, auto, FALSE) : c \in Sheets, auto \in BOOLEAN} \cup {Uploaded(c, TRUE, TRUE) : c \in Pairs}
  \cup {[Uploaded([top |-> <<>>], TRUE, FALSE) EXCEPT !.readable = FALSE]}
MCAnswers ==
  {[cells |-> c, unmapped |-> u, listed |-> l] :
     c \in {("top" :> t) : t \in Tops}
           \cup {(s :> c) @@ ("top" :> [region |-> Word("mars")]) :
                   <<s, c>> \in UNION {{s} \X SectionCells[s] : s \in {"compute", "network", "availability"}}},
     u \in {{}, {"rack"}}, l \in BOOLEAN}

Stated == [users |-> 600, peak |-> 900, uptime |-> 9990, egress |-> 50, database |-> 10, vcpu |-> 3, ram |-> 160]
TextOf(said, number, type, family, place, hint, auto) ==
  [said |-> said, number |-> number, type |-> type, family |-> family, place |-> place, hint |-> hint,
   auto |-> auto, force |-> FALSE, term |-> 0]
Restricted(S) == [f \in S |-> Stated[f]]
MCTexts ==
  {TextOf(said, Restricted(S), type, family, Nothing, Nothing, TRUE) :
     said \in {{}, {"custom"}, {"ha", "gpu"}}, S \in {T \cup {"users"} : T \in SUBSET {"uptime", "database", "vcpu", "ram"}},
     type \in {Nothing, "n1-standard-4"}, family \in {Nothing, "n1"}}
  \cup {TextOf(said, Restricted(S), Nothing, Nothing, place, hint, auto) :
          said \in {{"balancer"}, {"cdn", "vpn"}, {"containers"}, {"dr"}, {"vpn"}}, S \in SUBSET {"users", "peak", "egress"},
          place \in {Nothing, "us-central1"}, hint \in {Nothing, "asia-south1", "mars"}, auto \in BOOLEAN}
  \cup {TextOf({}, [Stated EXCEPT ![f] = n], Nothing, Nothing, Nothing, Nothing, TRUE) :
          <<f, n>> \in {<<"vcpu", 0>>, <<"vcpu", 500>>, <<"uptime", 10001>>, <<"egress", 0>>, <<"users", 0>>}}
=============================================================================
