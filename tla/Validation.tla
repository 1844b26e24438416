---------------------------- MODULE Validation ----------------------------
(***************************************************************************)
(* ValidationRuleEngine: the rules of validation/rules.py, each reduced to *)
(* the field it complains about and how severely.  A rule that is content  *)
(* yields nothing here.  An uptime target is in hundredths of a percent.   *)
(***************************************************************************)
EXTENDS ServiceForms

Warning(field) == {[field |-> field, severity |-> "warning"]}
Blocker(field) == {[field |-> field, severity |-> "blocker"]}
Unless(ok, finding) == IF ok THEN {} ELSE finding

\* Only a shape with neither a machine type nor a kind is matched to the
\* predefined sizes by the three rules below.
UsesLegacyMatching(c) == c.machineType = "none" /\ c.kind = "unset"

\* CpuValidationRule, RamValidationRule, MachineFamilyValidationRule.
ShapeFindings(c) ==
  IF ~UsesLegacyMatching(c) THEN {}
  ELSE LET types == TypesOf(c.family)
       IN Unless(\E i \in types : MachineTypes[i].vcpu = c.vcpu, Warning("compute.vcpu"))
          \cup Unless(\E i \in types : MachineTypes[i].ram = c.ram, Warning("compute.ram_gb"))
          \cup Unless(Fits(MachineTypes, types, c.vcpu, c.ram) # {}, Warning("compute.machine_family"))

\* MachineFamilyRegionValidationRule: the family that will be priced must be
\* offered in the region.
RegionFindings(c, region) ==
  LET family == IF Known(c.machineType) THEN TypeNamed(c.machineType).family ELSE c.family
  IN Unless(region \in Capability[family].regions, Blocker("compute.machine_family"))

\* MachineTypeValidationRule; a family mismatch is only a warning that is_valid.
MachineTypeFindings(c) ==
  Unless(c.machineType = "none" \/ Known(c.machineType), Blocker("compute.machine_type"))

\* A faulty variant: the vCPU increment is not checked.
CustomFindingsAnyStep(c) ==
  IF c.machineType # "none" \/ c.kind # "custom" THEN {}
  ELSE LET cap == Capability[c.family]
       IN Unless(/\ cap.custom
                 /\ cap.minVcpu <= c.vcpu /\ c.vcpu <= cap.maxVcpu
                 /\ cap.minRam * c.vcpu <= c.ram /\ c.ram <= cap.maxRam * c.vcpu
                 /\ c.ram % RamIncrement = 0,
                 Blocker("compute.machine_type_kind"))

\* CustomMachineTypeValidationRule: one vCPU is exempt from the increment.
CustomFindings(c) ==
  IF c.machineType # "none" \/ c.kind # "custom" THEN {}
  ELSE LET cap == Capability[c.family]
       IN Unless(/\ cap.custom
                 /\ cap.minVcpu <= c.vcpu /\ c.vcpu <= cap.maxVcpu
                 /\ c.vcpu = 1 \/ c.vcpu % cap.step = 0
                 /\ cap.minRam * c.vcpu <= c.ram /\ c.ram <= cap.maxRam * c.vcpu
                 /\ c.ram % RamIncrement = 0,
                 Blocker("compute.machine_type_kind"))

\* GpuValidationRule: it reads the declared family, not the one that will be priced.
GpuFindings(c) ==
  IF c.gpu = "none" THEN {}
  ELSE Unless(c.family \in GpuFamilies[c.gpu], Blocker("compute.gpu_type"))
       \cup Unless(c.gpuCount <= GpuMax[c.gpu], Warning("compute.gpu_count"))

\* DiskValidationRule: the boot disk; additional disks have no rule.
DiskFindings(s) ==
  Unless(DiskMin[s.type] <= s.size /\ s.size <= DiskMax, Warning("storage.size_gb"))

\* CloudStorageValidationRule.
SnapshotFindings(s) ==
  Unless(~s.snapshots \/ s.retention <= 365, Warning("storage.snapshot_retention_days"))

\* A faulty variant: a database of the right vCPU count is accepted with any RAM.
DatabaseFindingsByVcpu(d) ==
  IF ~d.required THEN {}
  ELSE Unless(\E i \in TiersFor(d.engine) : Tiers[i].vcpu = d.vcpu, Warning("database.vcpu_ram"))

\* CloudSqlValidationRule (every engine has tiers in this catalog).
DatabaseFindings(d) ==
  IF ~d.required THEN {}
  ELSE Unless(Fits(Tiers, TiersFor(d.engine), d.vcpu, d.ram) # {}, Warning("database.vcpu_ram"))

\* LoadBalancerValidationRule; the warning of NetworkValidationRule is_valid.
NetworkFindings(n) ==
  Unless(~n.cdn \/ n.balancer, Warning("network.cdn_enabled"))
  \cup Unless(~n.balancer \/ n.ips >= 1, Warning("network.external_ip_count"))

\* KubernetesValidationRule.
KubernetesFindings(k) ==
  IF ~k.required \/ k.autopilot THEN {}
  ELSE Unless(MinNodes <= k.nodes /\ k.nodes <= MaxNodes, Warning("kubernetes.node_count"))

\* AvailabilityValidationRule.
AvailabilityFindings(a) ==
  Unless(a.uptime <= 9999, Warning("availability.target_uptime_percent"))
  \cup Unless(a.uptime \notin 9995..9999 \/ a.ha, Warning("availability.high_availability"))

\* BackupValidationRule.
BackupFindings(a) ==
  Unless(~a.dr \/ a.backup # "none", Warning("availability.backup_frequency"))

\* ServiceCatalogConfigValidationRule: every selection, bridged or not; the field
\* is selected_services.<service>.
FormFindings(selected) ==
  UNION {Unless(/\ KnownCard(selected[i].service)
                /\ FormIssues(selected[i].service, selected[i].form) = {},
                Warning(selected[i].service)) : i \in DOMAIN selected}

\* Every rule, over the sections that were given.
Findings(req) ==
  (IF req.compute = Nothing THEN {}
   ELSE ShapeFindings(req.compute) \cup RegionFindings(req.compute, req.region)
        \cup MachineTypeFindings(req.compute) \cup CustomFindings(req.compute)
        \cup GpuFindings(req.compute))
  \cup (IF req.storage = Nothing THEN {} ELSE DiskFindings(req.storage) \cup SnapshotFindings(req.storage))
  \cup (IF req.database = Nothing THEN {} ELSE DatabaseFindings(req.database))
  \cup (IF req.network = Nothing THEN {} ELSE NetworkFindings(req.network))
  \cup (IF req.kubernetes = Nothing THEN {} ELSE KubernetesFindings(req.kubernetes))
  \cup (IF req.availability = Nothing THEN {}
        ELSE AvailabilityFindings(req.availability) \cup BackupFindings(req.availability))
  \cup FormFindings(req.selected)

HasBlockers(findings) == \E f \in findings : f.severity = "blocker"
=============================================================================
