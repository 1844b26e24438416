-------------------------- MODULE PricingCatalog --------------------------
(***************************************************************************)
(* The catalog the estimate pipeline reads (catalog/mock_data.py,          *)
(* catalog/models.py, catalog/base.py) and the arithmetic its stages share *)
(* with it.  RAM is in twentieths of a GB, so that a custom shape's        *)
(* 0.25 GB increment (5) and N1's 0.9 GB per vCPU (18) are integers.       *)
(***************************************************************************)
EXTENDS Integers, Sequences, FiniteSets

CONSTANTS
  MachineTypes,   \* the predefined types in catalog order: [name, family, vcpu, ram]
  Capability,     \* family -> [custom, minVcpu, maxVcpu, step, minRam, maxRam, regions]
  Tiers,          \* Cloud SQL tiers in catalog order: [tier, vcpu, ram, engines]
  DiskMin,        \* disk type -> the smallest size it is sold in
  DiskMax,
  MinNodes,
  MaxNodes,
  GpuFamilies,    \* gpu type -> the machine families it can be attached to
  GpuMax,         \* gpu type -> the largest number per instance
  Nothing         \* a section that was not given

RamIncrement == 5
HoursPerMonth == 730

Families == DOMAIN Capability

ASSUME CatalogAssumption ==
  /\ DOMAIN MachineTypes \subseteq Nat
  /\ \A i \in DOMAIN MachineTypes :
       /\ MachineTypes[i].family \in Families /\ MachineTypes[i].name # "none"
       /\ MachineTypes[i].vcpu \in Nat \ {0} /\ MachineTypes[i].ram \in Nat \ {0}
  /\ \A f \in Families : \E i \in DOMAIN MachineTypes : MachineTypes[i].family = f
  /\ \A f \in Families :
       Capability[f].custom =>
         /\ Capability[f].step \in Nat \ {0}
         /\ Capability[f].minVcpu \in Nat \ {0} /\ Capability[f].maxVcpu \in Nat
         /\ Capability[f].minVcpu <= Capability[f].maxVcpu
         /\ Capability[f].minRam \in Nat /\ Capability[f].maxRam \in Nat
         /\ Capability[f].minRam <= Capability[f].maxRam
  /\ DOMAIN Tiers \subseteq Nat
  /\ DiskMax \in Nat /\ \A d \in DOMAIN DiskMin : DiskMin[d] \in Nat /\ DiskMin[d] <= DiskMax
  /\ MinNodes \in Nat \ {0} /\ MaxNodes \in Nat /\ MinNodes <= MaxNodes
  /\ Nothing \notin Int

\* Python's round(n / d): the nearest integer, and the even one of two.
Rounded(n, d) ==
  LET q == n \div d
      r == n % d
  IN IF 2 * r > d \/ (2 * r = d /\ q % 2 = 1) THEN q + 1 ELSE q

Gap(x, y) == IF x < y THEN y - x ELSE x - y
AtLeast(x, low) == IF x < low THEN low ELSE x
AtMost(x, high) == IF x > high THEN high ELSE x
Clamped(x, low, high) == AtMost(AtLeast(x, low), high)

\* A list that was filtered is the set of the indices it keeps, or the elements at
\* these indices in their order.
Nth(S, n) == CHOOSE i \in S : Cardinality({j \in S : j <= i}) = n
Picked(seq, S) == [n \in 1..Cardinality(S) |-> seq[Nth(S, n)]]

\* Its first element:
First(seq, S) == seq[CHOOSE i \in S : \A j \in S : i <= j]

\* Python's min(list, key=Distance): the first of the closest elements.
Closest(seq, S, Distance(_)) ==
  seq[CHOOSE i \in S : \A j \in S :
        \/ Distance(seq[i]) < Distance(seq[j])
        \/ Distance(seq[i]) = Distance(seq[j]) /\ i <= j]

TypesOf(family) == {i \in DOMAIN MachineTypes : MachineTypes[i].family = family}
Named(name) == {i \in DOMAIN MachineTypes : MachineTypes[i].name = name}
Known(name) == Named(name) # {}
TypeNamed(name) == First(MachineTypes, Named(name))
Fits(seq, S, vcpu, ram) == {i \in S : seq[i].vcpu = vcpu /\ seq[i].ram = ram}

\* The tiers that run an engine, or every tier when none does.
TiersFor(engine) ==
  LET some == {i \in DOMAIN Tiers : engine \in Tiers[i].engines}
  IN IF some # {} THEN some ELSE DOMAIN Tiers
=============================================================================
