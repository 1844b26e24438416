--------------------------- MODULE Normalization ---------------------------
(***************************************************************************)
(* NormalizationEngine (normalization/engine.py, normalization/strategy.py)*)
(* turns a requirement into a specification that can be bought, and notes  *)
(* an assumption, here the field it is about, for what it substitutes.     *)
(* Every region of the API is in the catalog, so the region's fallback is  *)
(* not reachable here.                                                     *)
(***************************************************************************)
EXTENDS PricingCatalog

\* select_value: the supported value a strategy takes for a requested one.
SelectValue(requested, supported, strategy) ==
  LET lower == {v \in supported : v < requested}
      higher == {v \in supported : v > requested}
      largest(S) == CHOOSE v \in S : \A w \in S : w <= v
      smallest(S) == CHOOSE v \in S : \A w \in S : v <= w
      closest == CHOOSE v \in supported : \A w \in supported :
                   \/ Gap(v, requested) < Gap(w, requested)
                   \/ Gap(v, requested) = Gap(w, requested) /\ w <= v
  IN IF requested \in supported THEN requested
     ELSE CASE strategy = "conservative" -> IF lower # {} THEN largest(lower) ELSE smallest(higher)
            [] strategy = "performance" -> IF higher # {} THEN smallest(higher) ELSE largest(lower)
            [] strategy = "balanced" -> closest

Noted(substituted, field) == IF substituted THEN {field} ELSE {}

Sized(m, kind, notes) ==
  [machine |-> [family |-> m.family, vcpu |-> m.vcpu, ram |-> m.ram, kind |-> kind], notes |-> notes]

\* _clamp_custom_shape.  The RAM follows the clamped vCPU count at the clamped
\* ratio ram / vcpu, kept exact by carrying the denominator c.vcpu.
ClampCustomShape(c, cap) ==
  LET inRange == Clamped(c.vcpu, cap.minVcpu, cap.maxVcpu)
      floor == IF cap.minVcpu # 1 THEN cap.minVcpu ELSE cap.step
      vcpu == IF cap.step > 1 /\ inRange # 1
              THEN Clamped(Rounded(inRange, cap.step) * cap.step, floor, cap.maxVcpu)
              ELSE inRange
      ratioTimesVcpu == Clamped(c.ram, cap.minRam * c.vcpu, cap.maxRam * c.vcpu)
  IN [family |-> c.family, vcpu |-> vcpu,
      ram |-> Rounded(vcpu * ratioTimesVcpu, RamIncrement * c.vcpu) * RamIncrement]

\* The machine m instead of what was asked for.
Instead(m, c, kind, notes) ==
  Sized(m, kind, notes \cup Noted(m.vcpu # c.vcpu, "compute.vcpu")
                       \cup Noted(m.ram # c.ram, "compute.ram_gb"))

\* vCPUs first, then RAM.
ShapeGap(m, c) == 100000 * Gap(m.vcpu, c.vcpu) + Gap(m.ram, c.ram)
NearestType(c) == Closest(MachineTypes, TypesOf(c.family), LAMBDA m : ShapeGap(m, c))

\* _normalize_custom_compute: a family without custom shapes is reached only with force.
CustomCompute(c) ==
  LET cap == Capability[c.family]
  IN CASE cap.custom -> Instead(ClampCustomShape(c, cap), c, "custom", {})
       [] ~cap.custom /\ TypesOf(c.family) # {} ->
            Sized(NearestType(c), "predefined", {"compute.machine_type_kind"})
       [] OTHER -> Sized(c, "custom", {"compute.machine_type_kind"})

\* Of those with that many vCPUs, the one whose RAM is the closest.
NearestOf(seq, S, vcpu, ram) ==
  Closest(seq, {i \in S : seq[i].vcpu = vcpu}, LAMBDA m : Gap(m.ram, ram))

VcpuSelected(seq, S, vcpu, strategy) == SelectValue(vcpu, {seq[i].vcpu : i \in S}, strategy)

\* The vCPU count the strategy selects, then the nearest of that count.
Snapped(seq, S, vcpu, ram, strategy) ==
  NearestOf(seq, S, VcpuSelected(seq, S, vcpu, strategy), ram)

\* A faulty variant: RAM that comes with the chosen type is not noted.
PredefinedComputeRamUnnoted(c, strategy, notes) ==
  LET types == TypesOf(c.family)
      exact == Fits(MachineTypes, types, c.vcpu, c.ram)
      near == Snapped(MachineTypes, types, c.vcpu, c.ram, strategy)
  IN IF exact # {} THEN Sized(First(MachineTypes, exact), "predefined", notes)
     ELSE Sized(near, "predefined", notes \cup Noted(near.vcpu # c.vcpu, "compute.vcpu"))

\* The type of exactly that shape, or the one it snaps to.
PredefinedCompute(c, strategy, notes) ==
  LET types == TypesOf(c.family)
      exact == Fits(MachineTypes, types, c.vcpu, c.ram)
  IN IF exact # {} THEN Sized(First(MachineTypes, exact), "predefined", notes)
     ELSE Instead(Snapped(MachineTypes, types, c.vcpu, c.ram, strategy), c, "predefined", notes)

\* _normalize_compute.  A machine type given by name wins; vcpu = 0 is a shape
\* that was not given with it.
NormalizeCompute(c, strategy) ==
  LET type == TypeNamed(c.machineType)
      unknown == Noted(c.machineType # "none", "compute.machine_type")
  IN CASE Known(c.machineType) ->
            Sized(type, "predefined", Noted(type.family # c.family, "compute.machine_family"))
       [] ~Known(c.machineType) /\ c.machineType # "none" /\ c.vcpu = 0 ->
            Sized(Closest(MachineTypes, TypesOf(c.family), LAMBDA m : m.vcpu), "predefined", unknown)
       [] c.machineType = "none" /\ c.kind = "custom" -> CustomCompute(c)
       [] OTHER -> PredefinedCompute(c, strategy, unknown)

\* _normalize_running_hours: hours is the product of hours per day and days per
\* month, 0 when neither was given.
RunningHours(c) == AtMost(c.hours, HoursPerMonth)

\* _normalize_disk: every disk type of the API is in the catalog.
DiskSize(type, size) == Clamped(size, DiskMin[type], DiskMax)

SmallestTier(tiers) == Closest(Tiers, tiers, LAMBDA t : 100000 * t.vcpu + t.ram)

\* _normalize_database.
NormalizeDatabase(d, strategy) ==
  LET tiers == TiersFor(d.engine)
      exact == Fits(Tiers, tiers, d.vcpu, d.ram)
      near == Snapped(Tiers, tiers, d.vcpu, d.ram, strategy)
  IN CASE d.tier = "shared-core" -> [tier |-> SmallestTier(tiers), notes |-> {}]
       [] d.tier # "shared-core" /\ exact # {} -> [tier |-> First(Tiers, exact), notes |-> {}]
       [] OTHER -> [tier |-> near, notes |-> {"database.tier"}]

\* _normalize_kubernetes: 0 nodes for Autopilot.
NodeCount(k) == IF k.autopilot THEN 0 ELSE Clamped(k.nodes, MinNodes, MaxNodes)

Disks(s) ==
  <<DiskSize(s.type, s.size)>> \o [i \in DOMAIN s.extra |-> DiskSize(s.type, s.extra[i])]

\* The specification, and the noted fields.
Specified(req, compute, disks, database, nodes) ==
  [spec |-> [compute |-> compute.machine,
             hours |-> IF compute.machine = Nothing THEN 0 ELSE RunningHours(req.compute),
             disks |-> disks, tier |-> database.tier, nodes |-> nodes],
   notes |-> compute.notes \cup database.notes
             \cup Noted(disks # <<>> /\ disks[1] # req.storage.size, "storage.size_gb")
             \cup Noted(disks # <<>> /\ Tail(disks) # req.storage.extra, "storage.additional_disks")
             \cup Noted(nodes # Nothing /\ ~req.kubernetes.autopilot /\ nodes # req.kubernetes.nodes,
                        "kubernetes.node_count")]

\* NormalizationEngine.normalize: the sections that were not given, or are not
\* required, have no part in the specification.
Normalize(req) ==
  LET given(s) == req[s] # Nothing
      required(s) == given(s) /\ req[s].required
  IN Specified(req,
       IF given("compute") THEN NormalizeCompute(req.compute, req.strategy)
       ELSE [machine |-> Nothing, notes |-> {}],
       IF given("storage") THEN Disks(req.storage) ELSE <<>>,
       IF required("database") THEN NormalizeDatabase(req.database, req.strategy)
       ELSE [tier |-> Nothing, notes |-> {}],
       IF required("kubernetes") THEN NodeCount(req.kubernetes) ELSE Nothing)
=============================================================================
