---- MODULE EstimateApi_proofs ----
(***************************************************************************)
(* Proofs about the estimate pipeline and whoever asks it for estimates,   *)
(* for every catalog, every set of requests and every upload that the      *)
(* assumptions of the modules allow.                                       *)
(*                                                                         *)
(* What a request has at each stage is a function of its requirement       *)
(* (Staged), and every requirement under way is one that its model accepts *)
(* (AllAccepted).  Only the two together are inductive: rightsizing asks   *)
(* for a size that the estimate before it determined.  From them follow    *)
(* the safety properties of an estimate; those that compare sums (Apart,   *)
(* Reconciled) rest on lemmas about lists and sums over sets of indices.   *)
(***************************************************************************)
EXTENDS EstimateApi, WellFoundedInduction, FiniteSetTheorems, TLAPS

-----------------------------------------------------------------------------
(* Least elements *)

\* The order that minima are taken in.
Smaller == {pair \in Nat \X Nat : pair[1] < pair[2]}

\* It is well founded.
LEMMA SmallerWellFounded == IsWellFoundedOn(Smaller, Nat)
BY NatLessThanWellFounded DEF OpToRel, Smaller

\* A set of naturals has a least element,
LEMMA Least ==
  ASSUME NEW S, S \subseteq Nat, S # {}
  PROVE  \E i \in S : \A j \in S : i <= j
<1>1. PICK i \in S : \A j \in S : ~ (<<j, i>> \in Smaller)
  BY SmallerWellFounded, WFMin
<1>2. ASSUME NEW j \in S PROVE i <= j
  <2>1. CASE j < i
    <3>1. <<j, i>> \in Nat \X Nat /\ <<j, i>>[1] < <<j, i>>[2]
      BY <2>1
    <3>2. QED
      BY <1>1, <3>1 DEF Smaller
  <2>2. QED
    BY <2>1
<1>3. QED
  BY <1>2

\* and a bounded one a greatest.
LEMMA Greatest ==
  ASSUME NEW S, S \subseteq Nat, S # {}, NEW bound \in Nat, \A i \in S : i <= bound
  PROVE  \E i \in S : \A j \in S : j <= i
<1> DEFINE T == {bound - i : i \in S}
<1>1. T \subseteq Nat /\ T # {}
  <2>1. \A i \in S : i \in Nat /\ bound - i \in Nat
    OBVIOUS
  <2>2. QED
    BY <2>1
<1>2. PICK t \in T : \A u \in T : t <= u
  BY <1>1, Least
<1>3. PICK i \in S : t = bound - i
  OBVIOUS
<1>4. ASSUME NEW j \in S PROVE j <= i
  <2>1. bound - j \in T
    OBVIOUS
  <2>2. QED
    BY <1>2, <1>3, <2>1
<1>5. QED
  BY <1>4

\* So an element of any set is least by a measure,
LEMMA LeastBy ==
  ASSUME NEW S, S # {}, NEW m \in [S -> Nat]
  PROVE  \E i \in S : \A j \in S : m[i] <= m[j]
<1> DEFINE T == {m[i] : i \in S}
<1>1. T \subseteq Nat /\ T # {}
  OBVIOUS
<1>2. PICK t \in T : \A u \in T : t <= u
  BY <1>1, Least
<1>3. PICK i \in S : t = m[i]
  OBVIOUS
<1>4. \A j \in S : m[i] <= m[j]
  BY <1>2, <1>3
<1>5. QED
  BY <1>4

\* and of the closest there is a first.
LEMMA FirstClosest ==
  ASSUME NEW S, S \subseteq Nat, S # {}, NEW d \in [S -> Nat]
  PROVE  \E i \in S : \A j \in S : d[i] < d[j] \/ (d[i] = d[j] /\ i <= j)
<1>1. PICK k \in S : \A j \in S : d[k] <= d[j]
  BY LeastBy
<1> DEFINE T == {i \in S : d[i] = d[k]}
<1>2. T \subseteq Nat /\ T # {}
  OBVIOUS
<1>3. PICK i \in T : \A j \in T : i <= j
  BY <1>2, Least
<1>4. ASSUME NEW j \in S PROVE d[i] < d[j] \/ (d[i] = d[j] /\ i <= j)
  <2>1. d[i] = d[k] /\ d[k] <= d[j] /\ d[k] \in Nat /\ d[j] \in Nat
    BY <1>1
  <2>2. CASE d[j] = d[k]
    BY <1>3, <2>1, <2>2
  <2>3. CASE d[j] # d[k]
    BY <2>1, <2>3
  <2>4. QED
    BY <2>2, <2>3
<1>5. QED
  BY <1>4

\* The first element of a filtered list is of it.
LEMMA FirstIn ==
  ASSUME NEW seq, NEW S, S \subseteq Nat, S # {}
  PROVE  \E i \in S : First(seq, S) = seq[i] /\ \A j \in S : i <= j
BY Least DEF First

\* The strategies select a value that is supported.
LEMMA StrategySelects ==
  ASSUME NEW requested \in Nat, NEW supported, supported \subseteq Nat, supported # {},
         NEW strategy \in Strategies
  PROVE  SelectValue(requested, supported, strategy) \in supported
<1> DEFINE lower == {v \in supported : v < requested}
           higher == {v \in supported : v > requested}
<1>1. lower # {} => \E v \in lower : \A w \in lower : w <= v
  <2>1. ASSUME NEW v \in lower PROVE v \in Nat /\ v <= requested
    OBVIOUS
  <2>2. QED
    BY <2>1, Greatest
<1>2. higher # {} => \E v \in higher : \A w \in higher : v <= w
  <2>1. higher \subseteq Nat
    OBVIOUS
  <2>2. QED
    BY <2>1, Least
<1>3. \E v \in supported : \A w \in supported :
        \/ Gap(v, requested) < Gap(w, requested)
        \/ Gap(v, requested) = Gap(w, requested) /\ w <= v
  <2> DEFINE m == [v \in supported |-> 2 * Gap(v, requested) + (IF v > requested THEN 0 ELSE 1)]
  <2>1. m \in [supported -> Nat]
    <3>1. \A v \in supported : Gap(v, requested) \in Nat
      BY DEF Gap
    <3>2. \A v \in supported : 2 * Gap(v, requested) + (IF v > requested THEN 0 ELSE 1) \in Nat
      BY <3>1
    <3>3. QED
      BY <3>2
  <2>2. PICK v \in supported : \A w \in supported : m[v] <= m[w]
    BY <2>1, LeastBy
  <2>3. ASSUME NEW w \in supported
        PROVE  \/ Gap(v, requested) < Gap(w, requested)
               \/ Gap(v, requested) = Gap(w, requested) /\ w <= v
    <3>1. m[v] <= m[w]
      BY <2>2
    <3>2. v \in Nat /\ w \in Nat
      OBVIOUS
    <3>3. QED
      BY <3>1, <3>2 DEF Gap
  <2>4. QED
    BY <2>3
<1>4. CASE requested \in supported
  BY <1>4 DEF SelectValue
<1>5. CASE requested \notin supported
  <2>1. lower # {} \/ higher # {}
    <3>1. PICK v \in supported : TRUE
      OBVIOUS
    <3>2. QED
      BY <1>5, <3>1
  <2>2. CASE strategy = "conservative"
    BY <1>1, <1>2, <1>5, <2>1, <2>2 DEF SelectValue
  <2>3. CASE strategy = "performance"
    BY <1>1, <1>2, <1>5, <2>1, <2>3 DEF SelectValue
  <2>4. CASE strategy = "balanced"
    BY <1>3, <1>5, <2>4 DEF SelectValue
  <2>5. QED
    BY <2>2, <2>3, <2>4 DEF Strategies
<1>6. QED
  BY <1>4, <1>5

-----------------------------------------------------------------------------
(* The arithmetic of the catalog *)

\* A multiple is rounded to itself, and rounding yields an integer.
LEMMA Multiple ==
  ASSUME NEW k \in Int, NEW d \in Nat \ {0}
  PROVE  k * d \in Int /\ (k * d) \div d = k /\ (k * d) % d = 0
OBVIOUS

\* What divides evenly is a multiple.
LEMMA Divisible ==
  ASSUME NEW n \in Int, NEW d \in Nat \ {0}, n % d = 0
  PROVE  n = (n \div d) * d /\ n \div d \in Int
OBVIOUS

\* Rounding changes nothing that divides evenly,
LEMMA RoundedExact ==
  ASSUME NEW k \in Int, NEW d \in Nat \ {0}
  PROVE  Rounded(k * d, d) = k
BY Multiple DEF Rounded

\* and yields an integer otherwise.
LEMMA RoundedInt ==
  ASSUME NEW n \in Int, NEW d \in Nat \ {0}
  PROVE  Rounded(n, d) \in Int
BY DEF Rounded

\* What a number divides is not below it.
LEMMA NoLess ==
  ASSUME NEW n \in Nat \ {0}, NEW d \in Nat \ {0}, n % d = 0
  PROVE  d <= n
OBVIOUS

\* Products of integers are integers.
LEMMA Product == \A x, y \in Int : x * y \in Int
OBVIOUS

\* Clamping keeps to the integers,
LEMMA ClampedInt == \A x, low, high \in Int : Clamped(x, low, high) \in Int
BY DEF Clamped, AtLeast, AtMost

\* and to the naturals.
LEMMA ClampedNat == \A x \in Int, low, high \in Nat : Clamped(x, low, high) \in Nat
BY DEF Clamped, AtLeast, AtMost

\* A value in range is clamped to itself.
LEMMA ClampedSame == \A x, low, high \in Int : low <= x /\ x <= high => Clamped(x, low, high) = x
BY DEF Clamped, AtLeast, AtMost

-----------------------------------------------------------------------------
(* The machine that is bought *)

\* A family that is sold has types, of so many vCPUs and so much RAM.
LEMMA TypesSold ==
  ASSUME NEW f \in Families
  PROVE  /\ TypesOf(f) \subseteq Nat /\ TypesOf(f) # {}
         /\ \A i \in TypesOf(f) : /\ MachineTypes[i].family = f
                                  /\ MachineTypes[i].vcpu \in Nat /\ MachineTypes[i].ram \in Nat
<1>1. PICK i \in DOMAIN MachineTypes : MachineTypes[i].family = f
  BY CatalogAssumption
<1>2. QED
  BY <1>1, CatalogAssumption DEF TypesOf

\* A shape that no type has snaps to a type of its family.
LEMMA SnapsInFamily ==
  ASSUME NEW f \in Families, NEW vcpu \in Nat, NEW ram \in Nat, NEW strategy \in Strategies
  PROVE  \E i \in TypesOf(f) :
           /\ Snapped(MachineTypes, TypesOf(f), vcpu, ram, strategy) = MachineTypes[i]
           /\ MachineTypes[i].vcpu = VcpuSelected(MachineTypes, TypesOf(f), vcpu, strategy)
<1> DEFINE types == TypesOf(f)
           sold == {MachineTypes[i].vcpu : i \in types}
           selected == VcpuSelected(MachineTypes, types, vcpu, strategy)
           near == {i \in types : MachineTypes[i].vcpu = selected}
           d == [i \in near |-> Gap(MachineTypes[i].ram, ram)]
<1>1. selected \in sold
  <2>1. sold \subseteq Nat /\ sold # {}
    BY TypesSold
  <2> HIDE DEF sold
  <2>2. SelectValue(vcpu, sold, strategy) \in sold
    BY <2>1, StrategySelects
  <2>3. QED
    BY <2>2 DEF sold, VcpuSelected
<1>2. near \subseteq Nat /\ near # {}
  BY <1>1, TypesSold
<1>3. d \in [near -> Nat]
  <2>1. \A i \in near : Gap(MachineTypes[i].ram, ram) \in Nat
    BY TypesSold DEF Gap
  <2>2. QED
    BY <2>1
<1>4. \E i \in near : \A j \in near : d[i] < d[j] \/ (d[i] = d[j] /\ i <= j)
  <2> HIDE DEF d, near
  <2>1. QED
    BY <1>2, <1>3, FirstClosest
<1>5. \E i \in near : NearestOf(MachineTypes, types, selected, ram) = MachineTypes[i]
  BY <1>4 DEF NearestOf, Closest
<1>6. QED
  BY <1>5 DEF Snapped

\* So is the type that is closest to a shape, where the family has no custom ones,
LEMMA NearestInFamily ==
  ASSUME NEW c, c.family \in Families, c.vcpu \in Nat, c.ram \in Nat
  PROVE  \E i \in TypesOf(c.family) : NearestType(c) = MachineTypes[i]
<1> DEFINE types == TypesOf(c.family)
           d == [i \in types |-> ShapeGap(MachineTypes[i], c)]
<1>1. types \subseteq Nat /\ types # {}
  BY TypesSold
<1>2. d \in [types -> Nat]
  <2>1. \A i \in types : Gap(MachineTypes[i].vcpu, c.vcpu) \in Nat /\ Gap(MachineTypes[i].ram, c.ram) \in Nat
    BY TypesSold DEF Gap
  <2>2. \A i \in types : ShapeGap(MachineTypes[i], c) \in Nat
    BY <2>1 DEF ShapeGap
  <2>3. QED
    BY <2>2
<1>3. \E i \in types : \A j \in types : d[i] < d[j] \/ (d[i] = d[j] /\ i <= j)
  <2> HIDE DEF d, types
  <2>1. QED
    BY <1>1, <1>2, FirstClosest
<1>4. QED
  BY <1>3 DEF Closest, NearestType

\* and the smallest of them.
LEMMA SmallestInFamily ==
  ASSUME NEW f \in Families
  PROVE  \E i \in TypesOf(f) : Closest(MachineTypes, TypesOf(f), LAMBDA m : m.vcpu) = MachineTypes[i]
<1> DEFINE types == TypesOf(f)
           d == [i \in types |-> MachineTypes[i].vcpu]
<1>1. types \subseteq Nat /\ types # {} /\ d \in [types -> Nat]
  BY TypesSold
<1>2. \E i \in types : \A j \in types : d[i] < d[j] \/ (d[i] = d[j] /\ i <= j)
  <2> HIDE DEF d, types
  <2>1. QED
    BY <1>1, FirstClosest
<1>3. QED
  BY <1>2 DEF Closest

\* What a family with custom shapes makes of one,
LEMMA ClampedShape ==
  ASSUME NEW c, ComputeAccepted(c), c.vcpu # 0, Capability[c.family].custom
  PROVE  LET shape == ClampCustomShape(c, Capability[c.family])
         IN shape.family = c.family /\ shape.vcpu \in Nat /\ shape.ram \in Int
<1> DEFINE cap == Capability[c.family]
           inRange == Clamped(c.vcpu, cap.minVcpu, cap.maxVcpu)
           floor == IF cap.minVcpu # 1 THEN cap.minVcpu ELSE cap.step
           stepped == Rounded(inRange, cap.step) * cap.step
           vcpu == IF cap.step > 1 /\ inRange # 1 THEN Clamped(stepped, floor, cap.maxVcpu) ELSE inRange
           ratio == Clamped(c.ram, cap.minRam * c.vcpu, cap.maxRam * c.vcpu)
           ram == Rounded(vcpu * ratio, RamIncrement * c.vcpu)
<1>1. /\ c.vcpu \in Nat \ {0} /\ c.vcpu \in Int /\ c.ram \in Int
      /\ cap.step \in Nat \ {0} /\ cap.minVcpu \in Nat /\ cap.maxVcpu \in Nat
      /\ cap.minRam \in Int /\ cap.maxRam \in Int
  BY CatalogAssumption DEF ComputeAccepted
<1>2. vcpu \in Nat
  <2>1. inRange \in Nat
    BY <1>1, ClampedNat
  <2>2. stepped \in Int
    BY <1>1, <2>1, RoundedInt, Product
  <2>3. Clamped(stepped, floor, cap.maxVcpu) \in Nat
    <3>1. floor \in Nat
      BY <1>1
    <3> HIDE DEF stepped, floor
    <3>2. QED
      BY <1>1, <2>2, <3>1, ClampedNat
  <2>4. QED
    BY <2>1, <2>3
<1>3. ratio \in Int
  BY <1>1, ClampedInt, Product
<1>4. ram \in Int
  <2>1. vcpu * ratio \in Int
    BY <1>2, <1>3, Product
  <2>2. RamIncrement * c.vcpu \in Nat \ {0}
    BY <1>1 DEF RamIncrement
  <2>3. QED
    BY <2>1, <2>2, RoundedInt
<1>5. ram * RamIncrement \in Int
  BY <1>4 DEF RamIncrement
<1>6. ClampCustomShape(c, cap) = [family |-> c.family, vcpu |-> vcpu, ram |-> ram * RamIncrement]
  BY DEF ClampCustomShape
<1>7. QED
  BY <1>2, <1>5, <1>6

\* and that it leaves those alone that validation has nothing against.
LEMMA ShapeKept ==
  ASSUME NEW c, ComputeAccepted(c), c.machineType = "none", c.kind = "custom", CustomFindings(c) = {}
  PROVE  LET cap == Capability[c.family]
             shape == ClampCustomShape(c, cap)
         IN cap.custom /\ shape.vcpu = c.vcpu /\ shape.ram = c.ram
<1> DEFINE cap == Capability[c.family]
           inRange == Clamped(c.vcpu, cap.minVcpu, cap.maxVcpu)
           floor == IF cap.minVcpu # 1 THEN cap.minVcpu ELSE cap.step
           stepped == Rounded(inRange, cap.step) * cap.step
           vcpu == IF cap.step > 1 /\ inRange # 1 THEN Clamped(stepped, floor, cap.maxVcpu) ELSE inRange
           ratio == Clamped(c.ram, cap.minRam * c.vcpu, cap.maxRam * c.vcpu)
           ram == Rounded(vcpu * ratio, RamIncrement * c.vcpu)
<1>1. /\ cap.custom
      /\ cap.minVcpu <= c.vcpu /\ c.vcpu <= cap.maxVcpu
      /\ c.vcpu = 1 \/ c.vcpu % cap.step = 0
      /\ cap.minRam * c.vcpu <= c.ram /\ c.ram <= cap.maxRam * c.vcpu
      /\ c.ram % RamIncrement = 0
  BY DEF CustomFindings, Unless, Blocker
<1>2. /\ c.vcpu \in Nat \ {0} /\ c.vcpu \in Int /\ c.ram \in Int
      /\ cap.step \in Nat \ {0} /\ cap.minVcpu \in Int /\ cap.maxVcpu \in Int
      /\ cap.minRam \in Int /\ cap.maxRam \in Int
  BY <1>1, CatalogAssumption DEF ComputeAccepted
<1>3. vcpu = c.vcpu
  <2>1. inRange = c.vcpu
    BY <1>1, <1>2, ClampedSame
  <2>2. ASSUME cap.step > 1, c.vcpu # 1
        PROVE  Clamped(stepped, floor, cap.maxVcpu) = c.vcpu
    <3>1. c.vcpu % cap.step = 0
      BY <1>1, <2>2
    <3>2. c.vcpu = (c.vcpu \div cap.step) * cap.step /\ c.vcpu \div cap.step \in Int
      BY <1>2, <3>1, Divisible
    <3>3. Rounded(c.vcpu, cap.step) = c.vcpu \div cap.step
      BY <1>2, <3>2, RoundedExact
    <3>4. stepped = c.vcpu
      BY <2>1, <3>2, <3>3
    <3>5. cap.step <= c.vcpu
      BY <1>2, <3>1, NoLess
    <3>6. floor \in Int /\ floor <= c.vcpu
      BY <1>1, <1>2, <3>5
    <3>7. QED
      BY <1>1, <1>2, <3>4, <3>6, ClampedSame
  <2>3. QED
    BY <2>1, <2>2
<1>4. ratio = c.ram
  <2>1. cap.minRam * c.vcpu \in Int /\ cap.maxRam * c.vcpu \in Int
    BY <1>2, Product
  <2>2. QED
    BY <1>1, <1>2, <2>1, ClampedSame
<1>5. ram * RamIncrement = c.ram
  <2> DEFINE k == c.ram \div RamIncrement
             d == RamIncrement * c.vcpu
  <2>1. c.ram = k * RamIncrement /\ k \in Int
    BY <1>1, <1>2 DEF RamIncrement
  <2>2. d \in Nat \ {0}
    BY <1>2 DEF RamIncrement
  <2>3. c.vcpu * c.ram = k * d
    <3>1. \A x, y, z \in Int : x * (y * z) = y * (z * x)
      OBVIOUS
    <3>2. c.vcpu * (k * RamIncrement) = k * (RamIncrement * c.vcpu)
      BY <1>2, <2>1, <3>1 DEF RamIncrement
    <3>3. QED
      BY <2>1, <3>2
  <2>4. ram = k
    <3>1. ram = Rounded(k * d, d)
      BY <1>3, <1>4, <2>3
    <3> HIDE DEF k, d, ram
    <3>2. QED
      BY <2>1, <2>2, <3>1, RoundedExact
  <2>5. QED
    BY <2>1, <2>4
<1>6. ClampCustomShape(c, cap) = [family |-> c.family, vcpu |-> vcpu, ram |-> ram * RamIncrement]
  BY DEF ClampCustomShape
<1>7. QED
  BY <1>1, <1>3, <1>5, <1>6

\* The machine that is bought has a shape, and where it differs from what was asked
\* for there is a note.
Bought(c, n) ==
  /\ n.machine.vcpu \in Nat /\ n.machine.ram \in Int
  /\ n.machine.family # c.family => "compute.machine_family" \in n.notes
  /\ c.machineType = "none" =>
       /\ n.machine.vcpu # c.vcpu => n.notes \cap {"compute.vcpu", "compute.machine_type_kind"} # {}
       /\ n.machine.ram # c.ram => n.notes \cap {"compute.ram_gb", "compute.machine_type_kind"} # {}

\* It is so of a custom shape,
LEMMA CustomBought ==
  ASSUME NEW c, ComputeAccepted(c), c.vcpu # 0
  PROVE  Bought(c, CustomCompute(c))
<1>1. CASE Capability[c.family].custom
  <2> DEFINE shape == ClampCustomShape(c, Capability[c.family])
  <2>1. shape.family = c.family /\ shape.vcpu \in Nat /\ shape.ram \in Int
    BY <1>1, ClampedShape
  <2>2. CustomCompute(c) = Instead(shape, c, "custom", {})
    BY <1>1 DEF CustomCompute
  <2> HIDE DEF shape
  <2>3. QED
    BY <2>1, <2>2 DEF Bought, Instead, Sized, Noted
<1>2. CASE ~Capability[c.family].custom
  <2> DEFINE near == NearestType(c)
  <2>1. c.family \in Families /\ c.vcpu \in Nat /\ c.ram \in Nat
    BY DEF ComputeAccepted
  <2>2. PICK i \in TypesOf(c.family) : near = MachineTypes[i]
    BY <2>1, NearestInFamily
  <2>3. CustomCompute(c) = Sized(near, "predefined", {"compute.machine_type_kind"})
    BY <1>2, <2>1, TypesSold DEF CustomCompute
  <2> HIDE DEF near
  <2>4. near.family = c.family /\ near.vcpu \in Nat /\ near.ram \in Int
    BY <2>1, <2>2, TypesSold
  <2>5. QED
    BY <2>3, <2>4 DEF Bought, Sized
<1>3. QED
  BY <1>1, <1>2

\* of a predefined one,
LEMMA PredefinedBought ==
  ASSUME NEW c, ComputeAccepted(c), NEW strategy \in Strategies, NEW notes
  PROVE  Bought(c, PredefinedCompute(c, strategy, notes))
<1> DEFINE types == TypesOf(c.family)
           exact == Fits(MachineTypes, types, c.vcpu, c.ram)
           near == Snapped(MachineTypes, types, c.vcpu, c.ram, strategy)
<1>1. c.family \in Families /\ c.vcpu \in Nat /\ c.ram \in Nat
  BY DEF ComputeAccepted
<1>2. CASE exact # {}
  <2>1. exact \subseteq types /\ exact \subseteq Nat
    BY <1>1, TypesSold DEF Fits
  <2>2. PICK i \in exact : First(MachineTypes, exact) = MachineTypes[i]
    BY <1>2, <2>1, FirstIn
  <2>3. /\ MachineTypes[i].family = c.family
        /\ MachineTypes[i].vcpu = c.vcpu /\ MachineTypes[i].ram = c.ram
    BY <1>1, TypesSold DEF Fits
  <2>4. PredefinedCompute(c, strategy, notes) = Sized(MachineTypes[i], "predefined", notes)
    BY <1>2, <2>2 DEF PredefinedCompute
  <2>5. QED
    BY <1>1, <2>3, <2>4 DEF Bought, Sized
<1>3. CASE exact = {}
  <2>1. PICK i \in types : near = MachineTypes[i]
    BY <1>1, SnapsInFamily
  <2>2. near.family = c.family /\ near.vcpu \in Nat /\ near.ram \in Int
    BY <1>1, <2>1, TypesSold
  <2>3. PredefinedCompute(c, strategy, notes) = Instead(near, c, "predefined", notes)
    BY <1>3 DEF PredefinedCompute
  <2> HIDE DEF near
  <2>4. QED
    BY <2>2, <2>3 DEF Bought, Instead, Sized, Noted
<1>4. QED
  BY <1>2, <1>3

\* and of a machine type that is asked for by name.
LEMMA ComputeBought ==
  ASSUME NEW c, ComputeAccepted(c), NEW strategy \in Strategies
  PROVE  Bought(c, NormalizeCompute(c, strategy))
<1> DEFINE unknown == Noted(c.machineType # "none", "compute.machine_type")
<1>1. ~Known("none")
  BY CatalogAssumption DEF Known, Named
<1>2. CASE Known(c.machineType)
  <2>1. Named(c.machineType) \subseteq Nat /\ Named(c.machineType) # {}
    BY <1>2, CatalogAssumption DEF Known, Named
  <2>2. PICK i \in Named(c.machineType) : TypeNamed(c.machineType) = MachineTypes[i]
    BY <2>1, FirstIn DEF TypeNamed
  <2>3. MachineTypes[i].vcpu \in Nat /\ MachineTypes[i].ram \in Int
    BY CatalogAssumption DEF Named
  <2>4. NormalizeCompute(c, strategy)
          = Sized(MachineTypes[i], "predefined",
                  Noted(MachineTypes[i].family # c.family, "compute.machine_family"))
    BY <1>1, <1>2, <2>2 DEF NormalizeCompute
  <2>5. QED
    BY <1>1, <1>2, <2>3, <2>4 DEF Bought, Sized, Noted
<1>3. CASE ~Known(c.machineType) /\ c.machineType # "none" /\ c.vcpu = 0
  <2> DEFINE smallest == Closest(MachineTypes, TypesOf(c.family), LAMBDA m : m.vcpu)
  <2>1. c.family \in Families
    BY DEF ComputeAccepted
  <2>2. PICK i \in TypesOf(c.family) : smallest = MachineTypes[i]
    BY <2>1, SmallestInFamily
  <2>3. NormalizeCompute(c, strategy) = Sized(smallest, "predefined", unknown)
    BY <1>3 DEF NormalizeCompute
  <2> HIDE DEF smallest
  <2>4. smallest.family = c.family /\ smallest.vcpu \in Nat /\ smallest.ram \in Int
    BY <2>1, <2>2, TypesSold
  <2>5. QED
    BY <1>3, <2>3, <2>4 DEF Bought, Sized
<1>4. CASE c.machineType = "none" /\ c.kind = "custom"
  <2>1. NormalizeCompute(c, strategy) = CustomCompute(c)
    BY <1>1, <1>4 DEF NormalizeCompute
  <2>2. c.vcpu # 0
    BY <1>4 DEF ComputeAccepted
  <2>3. QED
    BY <2>1, <2>2, CustomBought
<1>5. CASE /\ ~Known(c.machineType)
           /\ ~(c.machineType # "none" /\ c.vcpu = 0)
           /\ ~(c.machineType = "none" /\ c.kind = "custom")
  <2>1. NormalizeCompute(c, strategy) = PredefinedCompute(c, strategy, unknown)
    BY <1>5 DEF NormalizeCompute
  <2>2. QED
    BY <2>1, PredefinedBought
<1>6. QED
  BY <1>2, <1>3, <1>4, <1>5

\* What is said of the other sections of the specification, too.
LEMMA SpecificationExplained ==
  ASSUME NEW r, Accepted(r)
  PROVE  LET n == Normalize(r)
         IN /\ r.compute # Nothing => /\ n.spec.compute = NormalizeCompute(r.compute, r.strategy).machine
                                      /\ NormalizeCompute(r.compute, r.strategy).notes \subseteq n.notes
            /\ r.storage # Nothing =>
                 /\ n.spec.disks[1] # r.storage.size => "storage.size_gb" \in n.notes
                 /\ Tail(n.spec.disks) # r.storage.extra => "storage.additional_disks" \in n.notes
            /\ n.spec.tier # Nothing /\ r.database.tier = "custom"
                 /\ <<n.spec.tier.vcpu, n.spec.tier.ram>> # <<r.database.vcpu, r.database.ram>>
                 => "database.tier" \in n.notes
            /\ n.spec.nodes # Nothing /\ ~r.kubernetes.autopilot /\ n.spec.nodes # r.kubernetes.nodes
                 => "kubernetes.node_count" \in n.notes
<1> DEFINE n == Normalize(r)
           compute == IF r.compute # Nothing THEN NormalizeCompute(r.compute, r.strategy)
                      ELSE [machine |-> Nothing, notes |-> {}]
           disks == IF r.storage # Nothing THEN Disks(r.storage) ELSE <<>>
           database == IF r.database # Nothing /\ r.database.required
                       THEN NormalizeDatabase(r.database, r.strategy)
                       ELSE [tier |-> Nothing, notes |-> {}]
           nodes == IF r.kubernetes # Nothing /\ r.kubernetes.required THEN NodeCount(r.kubernetes)
                    ELSE Nothing
<1>1. n = Specified(r, compute, disks, database, nodes)
  BY DEF Normalize
<1>2. /\ n.spec.compute = compute.machine /\ n.spec.disks = disks
      /\ n.spec.tier = database.tier /\ n.spec.nodes = nodes
      /\ compute.notes \subseteq n.notes /\ database.notes \subseteq n.notes
      /\ disks # <<>> /\ disks[1] # r.storage.size => "storage.size_gb" \in n.notes
      /\ disks # <<>> /\ Tail(disks) # r.storage.extra => "storage.additional_disks" \in n.notes
      /\ nodes # Nothing /\ ~r.kubernetes.autopilot /\ nodes # r.kubernetes.nodes
           => "kubernetes.node_count" \in n.notes
  <2> HIDE DEF n, compute, disks, database, nodes
  <2>1. QED
    BY <1>1 DEF Specified, Noted
<1>3. r.storage # Nothing => disks # <<>>
  <2> SUFFICES ASSUME r.storage # Nothing PROVE Disks(r.storage) # <<>>
    OBVIOUS
  <2> DEFINE boot == DiskSize(r.storage.type, r.storage.size)
             more == [i \in DOMAIN r.storage.extra |-> DiskSize(r.storage.type, r.storage.extra[i])]
             sizes == {boot} \cup {more[i] : i \in DOMAIN more}
  <2>1. r.storage.extra \in Seq(Nat)
    BY DEF Accepted, StorageAccepted
  <2>2. more \in Seq(sizes) /\ <<boot>> \in Seq(sizes)
    BY <2>1
  <2>3. Len(<<boot>> \o more) > 0
    <3> HIDE DEF boot, more, sizes
    <3>1. QED
      BY <2>2
  <2>4. Disks(r.storage) = <<boot>> \o more
    BY DEF Disks
  <2> HIDE DEF boot, more
  <2>5. QED
    BY <2>3, <2>4
<1>4. database.tier # Nothing /\ r.database.tier = "custom"
        /\ <<database.tier.vcpu, database.tier.ram>> # <<r.database.vcpu, r.database.ram>>
        => "database.tier" \in database.notes
  <2> DEFINE d == r.database
             tiers == TiersFor(d.engine)
             exact == Fits(Tiers, tiers, d.vcpu, d.ram)
  <2> SUFFICES ASSUME r.database # Nothing /\ r.database.required, d.tier = "custom"
               PROVE  LET b == NormalizeDatabase(d, r.strategy)
                      IN \/ "database.tier" \in b.notes
                         \/ <<b.tier.vcpu, b.tier.ram>> = <<d.vcpu, d.ram>>
    OBVIOUS
  <2>1. CASE exact # {}
    <3>1. exact \subseteq Nat
      BY CatalogAssumption DEF Fits, TiersFor
    <3>2. PICK i \in exact : First(Tiers, exact) = Tiers[i]
      BY <2>1, <3>1, FirstIn
    <3>3. Tiers[i].vcpu = d.vcpu /\ Tiers[i].ram = d.ram
      BY DEF Fits
    <3>4. NormalizeDatabase(d, r.strategy).tier = First(Tiers, exact)
      BY <2>1 DEF NormalizeDatabase
    <3>5. QED
      BY <3>2, <3>3, <3>4
  <2>2. CASE exact = {}
    BY <2>2 DEF NormalizeDatabase
  <2>3. QED
    BY <2>1, <2>2
<1>5. QED
  BY <1>2, <1>3, <1>4

-----------------------------------------------------------------------------
(* The working requirement *)

\* What is recommended is accepted, and a section that it fills in is noted.
LEMMA RecommendedAccepted ==
  ASSUME NEW r, Accepted(r)
  PROVE  LET w == Recommended(r).work
         IN /\ Accepted(w) /\ w.selected = r.selected
            /\ \A s \in {"storage", "database", "kubernetes"} :
                 w[s] # r[s] => s \in Recommended(r).notes
            /\ r.compute # Nothing => w.compute = r.compute
<1>1. CASE r.compute # Nothing \/ r.business = Nothing
  BY <1>1 DEF Recommended
<1>2. CASE r.compute = Nothing /\ r.business # Nothing
  <2> DEFINE users == UsersOf(r.business)
             stated == r.availability # Nothing
             ha == stated /\ r.availability.ha
             headroom == ha \/ (stated /\ r.availability.uptime >= 9990)
             given == IF r.network = Nothing THEN DefaultNetwork ELSE r.network
             needsBalancer == (users > 100 \/ headroom) /\ ~given.balancer
             needsDatabase == r.database = Nothing /\ (users > 500 \/ ha)
             needsKubernetes == r.kubernetes = Nothing /\ users > 5000
             compute == DefaultCompute(SizeCompute(users, headroom))
             network == IF needsBalancer THEN [given EXCEPT !.balancer = TRUE, !.ips = AtLeast(@, 1)]
                        ELSE r.network
             database == IF needsDatabase THEN DefaultDatabase(users, headroom) ELSE r.database
             kubernetes == IF needsKubernetes THEN DefaultKubernetes ELSE r.kubernetes
             w == [r EXCEPT !.compute = compute, !.network = network, !.database = database,
                            !.kubernetes = kubernetes]
             notes == {"compute"} \cup Noted(needsBalancer, "network.load_balancer_required")
                       \cup Noted(needsDatabase, "database") \cup Noted(needsKubernetes, "kubernetes")
  <2>1. Recommended(r) = [work |-> w, notes |-> notes]
    BY <1>2 DEF Recommended
  <2>2. ComputeAccepted(compute)
    <3>1. users \in Nat
      BY <1>2 DEF Accepted, UsersOf, AtLeast
    <3> DEFINE size == SizeCompute(users, headroom)
    <3>2. size.vcpu \in {2, 4, 8, 16} /\ size.family \in {"e2", "n2"} /\ size.count \in Int
      <4> HIDE DEF users, headroom
      <4>1. QED
        BY <3>1 DEF SizeCompute, AtLeast
    <3>3. compute = DefaultCompute(size)
      OBVIOUS
    <3> HIDE DEF size, compute
    <3>4. /\ size.family \in Families
          /\ size.vcpu \in Nat \ {0} /\ size.vcpu * 80 \in Nat \ {0} /\ size.count \in Int
      BY <3>2, StockAssumption
    <3>5. QED
      BY <3>3, <3>4 DEF ComputeAccepted, DefaultCompute
  <2> HIDE DEF compute, network, users, headroom, given, needsBalancer
  <2>3. /\ Sections \cup {"region", "strategy", "force", "term", "selected"} \subseteq DOMAIN r
        /\ DOMAIN w = DOMAIN r /\ w.region = r.region
        /\ w.compute = compute /\ w.database = database /\ w.kubernetes = kubernetes
        /\ w.storage = r.storage /\ w.business = r.business /\ w.strategy = r.strategy
        /\ w.network = network /\ w.selected = r.selected
    BY DEF Accepted, Sections
  <2>4. Accepted(w)
    <3>1. kubernetes # Nothing => KubernetesAccepted(kubernetes)
      BY DEF DefaultKubernetes, KubernetesAccepted, Accepted
    <3>2. database # Nothing => DatabaseAccepted(database)
      BY DEF DefaultDatabase, DatabaseAccepted, Accepted
    <3>3. network # Nothing => NetworkAccepted(network)
      <4>1. NetworkAccepted(given)
        BY DEF given, DefaultNetwork, NetworkAccepted, Accepted
      <4>2. NetworkAccepted([given EXCEPT !.balancer = TRUE, !.ips = AtLeast(@, 1)])
        <5> HIDE DEF given
        <5>1. QED
          BY <4>1 DEF NetworkAccepted, AtLeast
      <4>3. QED
        BY <4>2 DEF network, Accepted
    <3> HIDE DEF w, database, kubernetes
    <3>4. QED
      BY <2>2, <2>3, <3>1, <3>2, <3>3 DEF Accepted
  <2>5. /\ database # r.database => "database" \in notes
        /\ kubernetes # r.kubernetes => "kubernetes" \in notes
    BY DEF Noted
  <2>6. \A s \in {"storage", "database", "kubernetes"} : w[s] # r[s] => s \in notes
    <3> HIDE DEF w, database, kubernetes, notes
    <3>1. QED
      BY <2>3, <2>5
  <2>7. QED
    <3> HIDE DEF w, notes
    <3>1. QED
      BY <1>2, <2>1, <2>3, <2>4, <2>6
<1>3. QED
  BY <1>1, <1>2

\* The form of a section that is taken is one of the selections'.
LEMMA SourceSelected ==
  ASSUME NEW w, Accepted(w), NEW s \in Taken(w)
  PROVE  \E i \in Bound(w, s) : /\ i \in DOMAIN w.selected /\ Source(w, s) = w.selected[i].form
                               /\ \A j \in Bound(w, s) : i <= j
<1>1. Bound(w, s) \subseteq Nat /\ Bound(w, s) # {} /\ Bound(w, s) \subseteq DOMAIN w.selected
  BY DEF Taken, Bound, Accepted
<1>2. \E i \in Bound(w, s) : \A j \in Bound(w, s) : i <= j
  BY <1>1, Least
<1>3. QED
  BY <1>1, <1>2 DEF Source

\* The numbers of a node pool that is taken from a form are numbers.
LEMMA NodesRead ==
  ASSUME NEW form, \A f \in DOMAIN form.number : form.number[f] \in Int
  PROVE  KubernetesAccepted(AsKubernetes(form))
<1> DEFINE perDay == Entry(form, "hours_per_day", 24)
           k == AsKubernetes(form)
<1>1. \A f : \A d \in Int : Entry(form, f, d) \in Int
  BY DEF Entry
<1>2. /\ k.nodes \in Int /\ k.vcpu \in Int /\ k.ram \in Int /\ k.disk \in Int /\ k.pods \in Int
      /\ k.gpus \in Int
  BY <1>1 DEF AsKubernetes
<1>3. k.hours \in Int
  <2>1. k.hours = CASE "days_per_month" \in DOMAIN form.number -> perDay * form.number["days_per_month"]
                    [] "hours_per_day" \in DOMAIN form.number /\ ~("days_per_month" \in DOMAIN form.number)
                         -> (perDay * HoursPerMonth) \div 24
                    [] OTHER -> 0
    BY DEF AsKubernetes
  <2>2. perDay \in Int
    BY <1>1
  <2> HIDE DEF perDay, k
  <2>3. CASE "days_per_month" \in DOMAIN form.number
    <3>1. k.hours = perDay * form.number["days_per_month"]
      BY <2>1, <2>3
    <3>2. QED
      BY <2>2, <2>3, <3>1, Product
  <2>4. (perDay * HoursPerMonth) \div 24 \in Int
    BY <2>2 DEF HoursPerMonth
  <2>5. QED
    BY <2>1, <2>3, <2>4
<1>4. QED
  BY <1>2, <1>3 DEF KubernetesAccepted

\* A form that can be read is a section that is accepted.
LEMMA ReadAccepted ==
  ASSUME NEW w, Accepted(w), Readable(w)
  PROVE  /\ "storage" \in Taken(w) => StorageAccepted(AsSection("storage", Source(w, "storage")))
         /\ "database" \in Taken(w) => DatabaseAccepted(AsSection("database", Source(w, "database")))
         /\ "kubernetes" \in Taken(w) => KubernetesAccepted(AsSection("kubernetes", Source(w, "kubernetes")))
<1>1. ASSUME NEW s \in Taken(w)
      PROVE  /\ ReadsAs(s, Source(w, s))
             /\ \A f \in DOMAIN Source(w, s).number : Source(w, s).number[f] \in Int
  <2>1. PICK i \in DOMAIN w.selected : Source(w, s) = w.selected[i].form
    BY SourceSelected
  <2>2. QED
    BY <2>1 DEF Readable, Accepted, SelectionAccepted
<1>2. ASSUME "storage" \in Taken(w)
      PROVE  StorageAccepted(AsSection("storage", Source(w, "storage")))
  <2> DEFINE form == Source(w, "storage")
             card == Cards["persistent-disk"]
  <2>1. /\ "size_gb" \in DOMAIN form.number /\ form.number["size_gb"] \in Int
        /\ \A f \in DOMAIN card.choices \cap DOMAIN form.choice : form.choice[f] \in card.choices[f].options
    BY <1>1, <1>2 DEF ReadsAs
  <2> HIDE DEF form, card
  <2>2. /\ Entry(form, "size_gb", 0) \in Int /\ Entry(form, "snapshot_storage_gb", 0) \in Int
        /\ Entry(form, "provisioned_iops", 0) \in Int /\ Entry(form, "local_ssd_count", 0) \in Int
    BY <1>1, <1>2 DEF Entry, form
  <2>3. Chosen(form, "disk_type", "pd-balanced") \in DOMAIN DiskMin
    BY <2>1, StockAssumption DEF Chosen, card
  <2>4. <<>> \in Seq(Nat)
    OBVIOUS
  <2>5. QED
    BY <2>2, <2>3, <2>4 DEF StorageAccepted, AsSection, AsStorage, form
<1>3. ASSUME "database" \in Taken(w)
      PROVE  DatabaseAccepted(AsSection("database", Source(w, "database")))
  <2> DEFINE form == Source(w, "database")
  <2>1. Entry(form, "size_gb", 0) \in Int /\ Entry(form, "backup_storage_gb", 0) \in Int
    BY <1>1, <1>3 DEF Entry
  <2> HIDE DEF form
  <2>2. DatabaseAccepted(AsDatabase(form))
    BY <2>1 DEF DatabaseAccepted, AsDatabase
  <2>3. QED
    BY <2>2 DEF AsSection, form
<1>4. ASSUME "kubernetes" \in Taken(w)
      PROVE  KubernetesAccepted(AsSection("kubernetes", Source(w, "kubernetes")))
  <2>1. KubernetesAccepted(AsKubernetes(Source(w, "kubernetes")))
    BY <1>1, <1>4, NodesRead
  <2>2. QED
    BY <2>1 DEF AsSection
<1>5. QED
  BY <1>2, <1>3, <1>4

\* Bridging fills in a section that was not given, and nothing else.
LEMMA BridgedAccepted ==
  ASSUME NEW w, Accepted(w), Readable(w)
  PROVE  /\ Accepted(Bridged(w))
         /\ Bridged(w).compute = w.compute /\ Bridged(w).strategy = w.strategy
         /\ Bridged(w).selected = w.selected /\ Bridged(w).region = w.region
         /\ Bridged(w).network = w.network /\ Bridged(w).availability = w.availability
         /\ \A s \in {"storage", "database", "kubernetes"} :
              Bridged(w)[s] = IF s \in Taken(w) THEN AsSection(s, Source(w, s)) ELSE w[s]
<1> DEFINE read(s) == IF s \in Taken(w) THEN AsSection(s, Source(w, s)) ELSE w[s]
           b == [w EXCEPT !.storage = read("storage"), !.database = read("database"),
                          !.kubernetes = read("kubernetes")]
<1>1. Bridged(w) = b
  BY DEF Bridged
<1>2. /\ read("storage") # Nothing => StorageAccepted(read("storage"))
      /\ read("database") # Nothing => DatabaseAccepted(read("database"))
      /\ read("kubernetes") # Nothing => KubernetesAccepted(read("kubernetes"))
  BY ReadAccepted DEF Accepted
<1> HIDE DEF read
<1>3. /\ Sections \cup {"region", "strategy", "force", "term", "selected"} \subseteq DOMAIN w
      /\ DOMAIN b = DOMAIN w
      /\ b.storage = read("storage") /\ b.database = read("database") /\ b.kubernetes = read("kubernetes")
      /\ b.compute = w.compute /\ b.business = w.business /\ b.strategy = w.strategy
      /\ b.selected = w.selected /\ b.region = w.region /\ b.network = w.network
      /\ b.availability = w.availability
  BY DEF Accepted, Sections
<1> HIDE DEF b
<1>4. Accepted(b)
  BY <1>2, <1>3 DEF Accepted
<1>5. \A s \in {"storage", "database", "kubernetes"} : b[s] = read(s)
  BY <1>3
<1>6. QED
  BY <1>1, <1>3, <1>4, <1>5 DEF read

-----------------------------------------------------------------------------
(* The stages *)

\* What a request has at each stage is a function of its requirement.
Staged ==
  LET asked == Recommended(req)
  IN /\ stage \in Stages
     /\ stage = "idle" => rest = <<>> /\ noted = {}
     /\ stage = "submitted" => work = req /\ rest = <<>> /\ noted = {}
     /\ stage = "recommended" => work = asked.work /\ rest = <<>> /\ noted = asked.notes
     /\ stage \in {"bridged", "blocked", "validated", "normalized", "done"} =>
          rest = LeftOver(asked.work) /\ work = Bridged(asked.work) /\ Readable(asked.work)
     /\ stage \in {"bridged", "blocked", "validated"} => noted = asked.notes
     /\ stage \in {"blocked", "validated", "normalized", "done"} => found = Findings(work)
     /\ stage \in {"validated", "normalized", "done"} => ~Blocked(work)
     /\ stage \in {"normalized", "done"} => spec = Normalize(work).spec
     /\ stage = "normalized" => noted = asked.notes \cup Normalize(work).notes
     /\ stage = "done" =>
          /\ noted = asked.notes \cup Normalize(work).notes \cup ServiceNotes(rest)
          /\ cost = Calculate(work, spec, ExtraItems(rest), work.term) /\ Quoted(work, spec)

\* A request starts with nothing of another one.
LEMMA StartStaged ==
  ASSUME Staged, NEW r, Start(r) \/ Another(r)
  PROVE  Staged'
BY DEF Start, Another, Staged, Stages

\* A response forgets the request.
LEMMA RespondStaged == ASSUME Respond PROVE Staged'
BY DEF Respond, Staged, Stages

\* A stage adds what it computes from the requirement.
LEMMA StageStaged ==
  ASSUME Staged,
         Recommend \/ Bridge \/ BridgeRaises \/ Validate \/ NormalizeSpec
           \/ PriceAll \/ PricingFormRaises \/ PriceFails
  PROVE  Staged'
<1>1. CASE Recommend
  BY <1>1 DEF Recommend, Staged, Stages
<1>2. CASE Bridge
  BY <1>2 DEF Bridge, Staged, Stages
<1>3. CASE Validate
  BY <1>3 DEF Validate, Staged, Stages
<1>4. CASE NormalizeSpec
  BY <1>4 DEF NormalizeSpec, Staged, Stages
<1>5. CASE PriceAll
  BY <1>5 DEF PriceAll, Staged, Stages
<1>6. CASE BridgeRaises \/ PricingFormRaises \/ PriceFails
  BY <1>6 DEF BridgeRaises, PricingFormRaises, PriceFails, Staged, Stages
<1>7. QED
  BY <1>1, <1>2, <1>3, <1>4, <1>5, <1>6

\* What a step of the API does to the estimate.
LEMMA Estimates ==
  ASSUME [ApiNext]_apiVars
  PROVE  \/ \E r : Start(r) \/ Another(r)
         \/ Respond
         \/ Recommend \/ Bridge \/ BridgeRaises \/ Validate \/ NormalizeSpec
              \/ PriceAll \/ PricingFormRaises \/ PriceFails
         \/ UNCHANGED vars
<1>1. CASE Estimating
  BY <1>1 DEF Estimating, Submit
<1>2. CASE Working
  BY <1>2 DEF Working
<1>3. CASE Advising
  <2>1. CASE AskRightsizing \/ AskCommitment
    BY <2>1 DEF AskRightsizing, AskCommitment
  <2>2. CASE WeighCurrent
    BY <2>2 DEF WeighCurrent, Answered
  <2>3. CASE WeighResized \/ AdviceFails \/ AdviceLeaves
    BY <2>3 DEF WeighResized, Answered, AdviceFails, AdviceLeaves
  <2>4. CASE WeighTerm
    BY <2>4 DEF WeighTerm, Answered
  <2>5. QED
    BY <1>3, <2>1, <2>2, <2>3, <2>4 DEF Advising, Advise, Ask
<1>4. CASE TakingIn
  BY <1>4 DEF TakingIn, TakeIn, EstimateExtracted, FoldEstimate, IntakeLeaves
<1>5. QED
  BY <1>1, <1>2, <1>3, <1>4 DEF ApiNext, apiVars

-----------------------------------------------------------------------------
(* The requests *)

\* Every estimate under way is of an accepted requirement, whoever asked for it.
AllAccepted ==
  /\ stage # "idle" => Accepted(req)
  /\ advice # Nothing =>
       /\ {"kind", "pc"} \subseteq DOMAIN advice
       /\ Asks("rightsizing", "current") =>
            /\ {"usage", "action"} \subseteq DOMAIN advice
            /\ advice.usage \in Usages /\ req.compute # Nothing
  /\ intake # Nothing =>
       /\ {"stage", "of", "requirement", "issues", "source", "attempt", "read"} \subseteq DOMAIN intake
       /\ intake.stage = "uploaded" => intake.of \in Uploads
       /\ intake.stage = "extracted" => Accepted(intake.requirement)

\* Another term makes no difference to that.
LEMMA TermAccepted ==
  ASSUME NEW r, Accepted(r), NEW term
  PROVE  Accepted([r EXCEPT !.term = term])
<1> DEFINE e == [r EXCEPT !.term = term]
<1>1. /\ DOMAIN e = DOMAIN r /\ e.region = r.region /\ e.strategy = r.strategy /\ e.compute = r.compute
      /\ e.storage = r.storage /\ e.database = r.database /\ e.network = r.network
      /\ e.kubernetes = r.kubernetes /\ e.business = r.business /\ e.selected = r.selected
  BY DEF Accepted, Sections
<1> HIDE DEF e
<1>2. QED
  BY <1>1 DEF Accepted

\* Nor does force with a term.
LEMMA ForcedAccepted ==
  ASSUME NEW r, Accepted(r), NEW force, NEW term
  PROVE  Accepted([r EXCEPT !.force = force, !.term = term])
<1> DEFINE e == [r EXCEPT !.force = force, !.term = term]
<1>1. /\ DOMAIN e = DOMAIN r /\ e.region = r.region /\ e.strategy = r.strategy /\ e.compute = r.compute
      /\ e.storage = r.storage /\ e.database = r.database /\ e.network = r.network
      /\ e.kubernetes = r.kubernetes /\ e.business = r.business /\ e.selected = r.selected
  BY DEF Accepted, Sections
<1> HIDE DEF e
<1>2. QED
  BY <1>1 DEF Accepted

\* The size that rightsizing aims at is one that may be asked for.
LEMMA TargetSizeAccepted ==
  ASSUME NEW current, current.vcpu \in Int, current.ram \in Int, NEW usage \in Usages, NEW action
  PROVE  LET size == TargetSize(current, usage, action)
         IN size.vcpu \in Nat \ {0} /\ size.ram \in Nat \ {0}
<1> DEFINE ratio == IF usage.ramUse = Nothing THEN usage.peak ELSE AtLeast(usage.peak, usage.ramUse)
           vcpu == current.vcpu * ratio
           up == IF action = "upsize" THEN -((-vcpu) \div TargetPeak) ELSE vcpu \div TargetPeak
           ram == 2 * Rounded(current.ram * ratio, 2 * TargetPeak)
<1>1. ratio \in Int
  BY AdviceAssumption DEF AtLeast
<1>2. up \in Int
  <2>1. vcpu \in Int
    BY <1>1, Product
  <2> HIDE DEF vcpu
  <2>2. QED
    BY <2>1 DEF TargetPeak
<1>3. ram \in Int
  <2>1. current.ram * ratio \in Int
    BY <1>1, Product
  <2>2. Rounded(current.ram * ratio, 130) \in Int
    BY <2>1, RoundedInt
  <2>3. 2 * TargetPeak = 130
    BY DEF TargetPeak
  <2>4. QED
    BY <2>2, <2>3
<1>4. TargetSize(current, usage, action) = [vcpu |-> AtLeast(up, 1), ram |-> AtLeast(ram, 20)]
  BY DEF TargetSize
<1> HIDE DEF up, ram
<1>5. QED
  BY <1>2, <1>3, <1>4 DEF AtLeast

\* So a requirement that is resized is accepted,
LEMMA ResizedAccepted ==
  ASSUME NEW r, Accepted(r), r.compute # Nothing,
         NEW size, size.vcpu \in Nat \ {0}, size.ram \in Nat \ {0}
  PROVE  Accepted(Resized(r, size))
<1> DEFINE c == [r.compute EXCEPT !.machineType = "none", !.kind = "unset", !.vcpu = size.vcpu,
                                  !.ram = size.ram]
           e == [r EXCEPT !.force = TRUE, !.compute = c]
<1>1. Resized(r, size) = e
  BY DEF Resized
<1>2. ComputeAccepted(c)
  BY DEF Accepted, ComputeAccepted
<1> HIDE DEF c
<1>3. /\ DOMAIN e = DOMAIN r /\ e.region = r.region /\ e.strategy = r.strategy /\ e.compute = c
      /\ e.storage = r.storage /\ e.database = r.database /\ e.network = r.network
      /\ e.kubernetes = r.kubernetes /\ e.business = r.business /\ e.selected = r.selected
  BY DEF Accepted, Sections
<1> HIDE DEF e
<1>4. QED
  BY <1>1, <1>2, <1>3 DEF Accepted

\* What an estimate is for, once it is made.
LEMMA WorkAccepted ==
  ASSUME Staged, AllAccepted, stage = "done"
  PROVE  LET asked == Recommended(req)
         IN /\ Accepted(asked.work) /\ Accepted(work) /\ work = Bridged(asked.work) /\ Readable(asked.work)
            /\ spec = Normalize(work).spec
            /\ asked.notes \subseteq noted /\ Normalize(work).notes \subseteq noted
            /\ req.compute # Nothing => work.compute = req.compute
<1>1. Accepted(req)
  BY DEF AllAccepted
<1>2. /\ work = Bridged(Recommended(req).work) /\ Readable(Recommended(req).work) /\ spec = Normalize(work).spec
      /\ noted = Recommended(req).notes \cup Normalize(work).notes \cup ServiceNotes(rest)
  BY DEF Staged
<1>3. /\ Accepted(Recommended(req).work)
      /\ req.compute # Nothing => Recommended(req).work.compute = req.compute
  BY <1>1, RecommendedAccepted
<1>4. Accepted(work) /\ work.compute = Recommended(req).work.compute
  BY <1>2, <1>3, BridgedAccepted
<1>5. QED
  BY <1>2, <1>3, <1>4

\* An adviser asks with the requirement it was given, with another term or resized.
LEMMA AdviceAccepted ==
  ASSUME Staged, AllAccepted, Advising
  PROVE  AllAccepted'
<1>1. intake = Nothing /\ intake' = Nothing
  BY DEF Advising
<1>2. CASE AskRightsizing /\ advice = Nothing /\ stage = "idle"
  <2>1. PICK r \in Analysed, usage \in Usages :
          IF r.compute = Nothing
          THEN advice' = [kind |-> "refused", pc |-> "answered"] /\ UNCHANGED vars
          ELSE /\ advice' = [kind |-> "rightsizing", pc |-> "current", of |-> r, usage |-> usage,
                             action |-> Action(usage), current |-> Nothing, target |-> Nothing,
                             advised |-> Nothing, savings |-> 0]
               /\ Start([r EXCEPT !.term = 0])
    BY <1>2 DEF AskRightsizing
  <2>2. CASE r.compute = Nothing
    BY <1>1, <1>2, <2>1, <2>2 DEF AllAccepted, Asks, vars
  <2>3. CASE r.compute # Nothing
    <3>1. Accepted([r EXCEPT !.term = 0]) /\ Accepted(r)
      BY AdviceAssumption, TermAccepted
    <3>2. req' = [r EXCEPT !.term = 0] /\ req'.compute = r.compute
      BY <2>1, <2>3, <3>1 DEF Start, Accepted, Sections
    <3>3. QED
      BY <1>1, <2>1, <2>3, <3>1, <3>2 DEF AllAccepted, Asks
  <2>4. QED
    BY <2>2, <2>3
<1>3. CASE AskCommitment /\ advice = Nothing /\ stage = "idle"
  <2>1. PICK r \in Analysed, steady \in BOOLEAN :
          /\ advice' = [kind |-> "commitment", pc |-> "pricing", of |-> r, steady |-> steady, discountable |-> 0,
                        savings |-> <<>>, totals |-> <<>>, years |-> 0]
          /\ Start([r EXCEPT !.term = 0])
    BY <1>3 DEF AskCommitment
  <2>2. Accepted([r EXCEPT !.term = 0])
    BY AdviceAssumption, TermAccepted
  <2>3. QED
    BY <1>1, <2>1, <2>2 DEF AllAccepted, Asks, Start
<1>4. ASSUME NEW what, Answered(what), {"kind", "pc"} \subseteq DOMAIN what
      PROVE  AllAccepted'
  <2>1. advice'.pc = "answered" /\ {"kind", "pc"} \subseteq DOMAIN advice'
    BY <1>4 DEF Answered
  <2>2. QED
    BY <1>1, <1>4, <2>1 DEF Answered, AllAccepted, Asks, Respond
<1>5. CASE WeighCurrent
  <2> DEFINE size == TargetSize(spec.compute, advice.usage, advice.action)
             weighed == [advice EXCEPT !.current = spec.compute, !.target = size, !.savings = ComputeMonthly]
  <2>1. /\ Asks("rightsizing", "current") /\ stage = "done"
        /\ {"kind", "pc"} \subseteq DOMAIN advice
        /\ advice.usage \in Usages /\ req.compute # Nothing
    BY <1>5 DEF WeighCurrent, AllAccepted, Asks
  <2>2. \/ Answered(weighed)
        \/ Answered([weighed EXCEPT !.action = "keep", !.advised = spec.compute, !.savings = 0])
        \/ advice' = [weighed EXCEPT !.pc = "resized"] /\ Another(Resized(req, size))
    BY <1>5 DEF WeighCurrent
  <2>3. {"kind", "pc"} \subseteq DOMAIN weighed /\ weighed.kind = advice.kind
    BY <2>1
  <2>4. CASE Answered(weighed)
    BY <1>4, <2>3, <2>4
  <2>5. CASE Answered([weighed EXCEPT !.action = "keep", !.advised = spec.compute, !.savings = 0])
    BY <1>4, <2>3, <2>5
  <2>6. CASE advice' = [weighed EXCEPT !.pc = "resized"] /\ Another(Resized(req, size))
    <3>1. size.vcpu \in Nat \ {0} /\ size.ram \in Nat \ {0}
      <4>1. /\ Accepted(work) /\ work.compute # Nothing
            /\ spec.compute = NormalizeCompute(work.compute, work.strategy).machine
        BY <2>1, WorkAccepted, SpecificationExplained
      <4>2. ComputeAccepted(work.compute) /\ work.strategy \in Strategies
        BY <4>1 DEF Accepted
      <4>3. spec.compute.vcpu \in Int /\ spec.compute.ram \in Int
        BY <4>1, <4>2, ComputeBought DEF Bought
      <4>4. QED
        BY <2>1, <4>3, TargetSizeAccepted
    <3> HIDE DEF size
    <3>2. Accepted(Resized(req, size))
      <4>1. Accepted(req)
        BY <2>1 DEF AllAccepted
      <4>2. QED
        BY <2>1, <3>1, <4>1, ResizedAccepted
    <3>3. advice'.pc = "resized" /\ {"kind", "pc"} \subseteq DOMAIN advice'
      BY <2>3, <2>6
    <3>4. QED
      BY <1>1, <2>6, <3>2, <3>3 DEF AllAccepted, Asks, Another
  <2>7. QED
    BY <2>2, <2>4, <2>5, <2>6
<1>6. CASE WeighResized
  <2>1. /\ Answered([advice EXCEPT !.advised = spec.compute, !.savings = @ - ComputeMonthly])
        /\ {"kind", "pc"} \subseteq DOMAIN advice
    BY <1>6 DEF WeighResized, AllAccepted, Asks
  <2>2. QED
    BY <1>4, <2>1
<1>7. CASE WeighTerm
  <2> DEFINE term == req.term
             later == {t \in CandidateTerms : t > term}
             priced == [advice EXCEPT
                          !.discountable = IF term = 0 THEN Discountable ELSE @,
                          !.savings = IF term = 0 THEN @ ELSE @ @@ (term :> CommittedSavings),
                          !.totals = @ @@ (term :> cost.total)]
  <2>1. /\ Asks("commitment", "pricing") /\ stage = "done" /\ Accepted(req)
        /\ {"kind", "pc"} \subseteq DOMAIN advice
    BY <1>7 DEF WeighTerm, AllAccepted, Asks
  <2>2. \/ Answered([priced EXCEPT !.years = BestTerm(priced)])
        \/ /\ advice' = priced
           /\ Another([req EXCEPT !.term = CHOOSE t \in later : \A u \in later : t <= u])
    BY <1>7 DEF WeighTerm
  <2>3. {"kind", "pc"} \subseteq DOMAIN priced /\ priced.kind = "commitment"
    BY <2>1 DEF Asks
  <2> HIDE DEF priced
  <2>4. CASE Answered([priced EXCEPT !.years = BestTerm(priced)])
    BY <1>4, <2>3, <2>4
  <2>5. CASE /\ advice' = priced
             /\ Another([req EXCEPT !.term = CHOOSE t \in later : \A u \in later : t <= u])
    <3>1. Accepted([req EXCEPT !.term = CHOOSE t \in later : \A u \in later : t <= u])
      BY <2>1, TermAccepted
    <3>2. QED
      BY <1>1, <2>3, <2>5, <3>1 DEF AllAccepted, Asks, Another
  <2>6. QED
    BY <2>2, <2>4, <2>5
<1>8. CASE AdviceFails \/ AdviceLeaves
  BY <1>1, <1>8 DEF AdviceFails, AdviceLeaves, AllAccepted, Asks, Respond, vars
<1>9. QED
  BY <1>2, <1>3, <1>5, <1>6, <1>7, <1>8 DEF Advising, Advise, Ask

\* A section that is built has the values that were read over its defaults.
LEMMA BuiltAccepted ==
  ASSUME NEW cells, NEW blanks, Legible(cells, blanks)
  PROVE  Accepted(Build(Taking(cells, blanks).sections).requirement)
<1> DEFINE taken == Taking(cells, blanks).sections
           r == Build(taken).requirement
<1>1. /\ DOMAIN taken = DOMAIN FieldSchema
      /\ \A s \in DOMAIN FieldSchema : \A f \in DOMAIN taken[s] :
           /\ s \in DOMAIN cells /\ f \in DOMAIN cells[s] /\ f \in DOMAIN FieldSchema[s]
           /\ Coercible(cells[s][f], FieldSchema[s][f])
           /\ taken[s][f] = Coerced(cells[s][f], FieldSchema[s][f])
  <2> DEFINE good == {e \in Entries(cells, blanks) : Coercible(cells[e[1]][e[2]], FieldSchema[e[1]][e[2]])}
             of(s) == {e[2] : e \in {d \in good : d[1] = s}}
  <2>1. taken = [s \in DOMAIN FieldSchema |-> [f \in of(s) |-> Coerced(cells[s][f], FieldSchema[s][f])]]
    BY DEF Taking
  <2>2. ASSUME NEW s \in DOMAIN FieldSchema, NEW f \in of(s)
        PROVE  /\ s \in DOMAIN cells /\ f \in DOMAIN cells[s] /\ f \in DOMAIN FieldSchema[s]
               /\ Coercible(cells[s][f], FieldSchema[s][f])
    <3>1. PICK e \in good : e[1] = s /\ e[2] = f
      OBVIOUS
    <3>2. PICK t \in DOMAIN cells : e \in {t} \X DOMAIN cells[t]
      BY DEF Entries
    <3>3. e[1] = t /\ e[2] \in DOMAIN cells[t]
      BY <3>2
    <3>4. e[2] \in DOMAIN FieldSchema[e[1]]
      BY DEF Entries
    <3>5. QED
      BY <3>1, <3>3, <3>4
  <2> HIDE DEF taken, of
  <2>3. QED
    BY <2>1, <2>2
<1>2. /\ FieldSchema.compute.vcpu = Whole /\ FieldSchema.compute.ram = Decimal
      /\ FieldSchema.compute.family = OneOf(Families) /\ FieldSchema.compute.machineType = Text
      /\ FieldSchema.top.strategy = OneOf({"conservative", "balanced", "performance"})
      /\ FieldSchema.business.users = Whole /\ FieldSchema.business.peak = Whole
      /\ "extra" \notin DOMAIN FieldSchema.storage
      /\ FieldSchema.storage.type = OneOf(DOMAIN DiskMin) /\ FieldSchema.storage.size = Whole
      /\ FieldSchema.kubernetes.nodes = Whole /\ FieldSchema.top.region = OneOf(DOMAIN RegionPercent)
      /\ {"top", "compute", "storage", "database", "network", "kubernetes", "business"}
           \subseteq DOMAIN FieldSchema
  BY DEF FieldSchema
<1>3. SectionKeys = Sections
  BY DEF SectionKeys, Sections, FieldSchema
<1> HIDE DEF taken
<1>4. ASSUME NEW s \in {"compute", "storage", "database", "network", "kubernetes", "business"},
             NEW f \in DOMAIN taken[s], FieldSchema[s][f] \in {Whole, Decimal}
      PROVE  taken[s][f] \in Int
  <2> DEFINE cell == cells[s][f]
             field == FieldSchema[s][f]
  <2>1. /\ Coercible(cell, field) /\ taken[s][f] = Coerced(cell, field)
        /\ s \in DOMAIN cells /\ f \in DOMAIN cells[s]
    BY <1>1, <1>2, <1>4
  <2>2. field.type \in {"whole", "decimal"}
    BY <1>4 DEF Whole, Decimal
  <2> HIDE DEF cell, field
  <2>3. cell.kind = "number" /\ taken[s][f] = cell.value
    BY <2>1, <2>2 DEF Coercible, Coerced
  <2>4. QED
    BY <2>1, <2>3 DEF Legible, cell
<1>5. "machineType" \in DOMAIN taken.compute => taken.compute.machineType # "none"
  BY <1>1, <1>2 DEF Coerced, Text, Legible
<1>6. /\ "family" \in DOMAIN taken.compute => taken.compute.family \in Families
      /\ "strategy" \in DOMAIN taken.top => taken.top.strategy \in Strategies
      /\ "region" \in DOMAIN taken.top => taken.top.region \in DOMAIN RegionPercent
      /\ "type" \in DOMAIN taken.storage => taken.storage.type \in DOMAIN DiskMin
  <2>1. ASSUME NEW cell, NEW options, Coercible(cell, OneOf(options))
        PROVE  Coerced(cell, OneOf(options)) \in options
    BY <2>1 DEF Coercible, Coerced, OneOf
  <2>2. QED
    BY <1>1, <1>2, <2>1 DEF Strategies
<1>7. "extra" \notin DOMAIN taken.storage
  BY <1>1, <1>2
  \* A number is one that was read or a default.
<1>16. ASSUME NEW s \in {"compute", "storage", "database", "network", "kubernetes", "business"},
              NEW f \in DOMAIN Defaults[s], Defaults[s][f] \in Int,
              f \in DOMAIN FieldSchema[s] => FieldSchema[s][f] \in {Whole, Decimal}
       PROVE  WithDefaults(taken[s], Defaults[s])[f] \in Int
  <2>1. f \in DOMAIN taken[s] => taken[s][f] \in Int
    BY <1>1, <1>2, <1>4, <1>16
  <2>2. QED
    BY <1>16, <2>1 DEF WithDefaults
<1> DEFINE built(s) == IF taken[s] = <<>> \/ ~Accepts(s, taken[s]) THEN Nothing
                       ELSE WithDefaults(taken[s], Defaults[s])
<1>8. /\ Sections \cup {"region", "strategy", "force", "term", "selected"} \subseteq DOMAIN r
      /\ \A s \in {"compute", "storage", "database", "network", "kubernetes", "business"} : r[s] = built(s)
      /\ r.region = IF "region" \in DOMAIN taken.top THEN taken.top.region ELSE DefaultRegion
      /\ r.strategy = IF "strategy" \in DOMAIN taken.top THEN taken.top.strategy ELSE "balanced"
      /\ r.selected = <<>>
  <2>1. {"compute", "storage", "database", "network", "kubernetes", "business"} \subseteq SectionKeys
    BY <1>3 DEF Sections
  <2> HIDE DEF taken
  <2>2. QED
    BY <2>1 DEF Build, WithDefaults, Sections
<1>9. r.compute # Nothing => ComputeAccepted(r.compute)
  <2> SUFFICES ASSUME r.compute # Nothing PROVE ComputeAccepted(r.compute)
    OBVIOUS
  <2>1. r.compute = WithDefaults(taken.compute, Defaults.compute) /\ Accepts("compute", taken.compute)
    BY <1>8
  <2>2. /\ DOMAIN Defaults.compute = {"family", "machineType", "kind", "vcpu", "ram", "count", "gpu",
                                      "gpuCount", "spot", "os", "hours"}
        /\ Defaults.compute.family = "e2" /\ Defaults.compute.machineType = "none"
        /\ Defaults.compute.vcpu = 0 /\ Defaults.compute.ram = 0
        /\ Defaults.compute.count = 1 /\ Defaults.compute.gpuCount = 0 /\ Defaults.compute.hours = 0
    BY DEF Defaults, DefaultCompute
  <2>3. /\ "vcpu" \in DOMAIN taken.compute => taken.compute.vcpu \in Int /\ 1 <= taken.compute.vcpu
        /\ "ram" \in DOMAIN taken.compute => taken.compute.ram \in Int /\ 1 <= taken.compute.ram
        /\ "machineType" \in DOMAIN taken.compute \/ {"vcpu", "ram"} \subseteq DOMAIN taken.compute
    BY <1>2, <1>4, <2>1 DEF Accepts
  <2>8. r.compute.count \in Int /\ r.compute.gpuCount \in Int /\ r.compute.hours \in Int
    <3>1. \A f \in {"count", "gpuCount", "hours"} :
            f \in DOMAIN FieldSchema.compute => FieldSchema.compute[f] \in {Whole, Decimal}
      BY DEF FieldSchema
    <3> HIDE DEF r
    <3>2. QED
      BY <1>16, <2>1, <2>2, <3>1
  <2> HIDE DEF r
  <2>4. /\ r.compute.family \in Families
        /\ {"family", "machineType", "kind", "vcpu", "ram", "count", "gpuCount", "hours"}
             \subseteq DOMAIN r.compute
    BY <1>6, <2>1, <2>2, StockAssumption DEF WithDefaults
  <2>5. r.compute.vcpu \in Nat /\ r.compute.ram \in Nat
    BY <2>1, <2>2, <2>3 DEF WithDefaults
  <2>6. r.compute.machineType = "none" => r.compute.vcpu # 0 /\ r.compute.ram # 0
    BY <1>5, <2>1, <2>2, <2>3 DEF WithDefaults
  <2>7. QED
    BY <2>4, <2>5, <2>6, <2>8 DEF ComputeAccepted
<1>10. r.storage # Nothing => StorageAccepted(r.storage)
  <2> SUFFICES ASSUME r.storage # Nothing PROVE StorageAccepted(r.storage)
    OBVIOUS
  <2>1. r.storage = WithDefaults(taken.storage, Defaults.storage) /\ Accepts("storage", taken.storage)
    BY <1>8
  <2>2. /\ {"type", "size", "extra", "snapshotGb", "iops", "localSsds"} \subseteq DOMAIN Defaults.storage
        /\ Defaults.storage.type = Chosen(EmptyForm, "disk_type", "pd-balanced")
        /\ Defaults.storage.extra = <<>> /\ Defaults.storage.snapshotGb = 0
        /\ Defaults.storage.iops = 0 /\ Defaults.storage.localSsds = 0
    BY DEF Defaults, AsStorage, Entry, EmptyForm, None
  <2>3. Chosen(EmptyForm, "disk_type", "pd-balanced") \in DOMAIN DiskMin
    BY StockAssumption DEF Chosen, EmptyForm, None
  <2>4. "size" \in DOMAIN taken.storage /\ taken.storage.size \in Int
    BY <1>2, <1>4, <2>1 DEF Accepts
  <2>5. <<>> \in Seq(Nat)
    OBVIOUS
  <2>9. r.storage.snapshotGb \in Int /\ r.storage.iops \in Int /\ r.storage.localSsds \in Int
    <3>1. {"snapshotGb", "iops", "localSsds"} \cap DOMAIN FieldSchema.storage = {}
      BY DEF FieldSchema
    <3> HIDE DEF r
    <3>2. QED
      BY <1>16, <2>1, <2>2, <3>1
  <2> HIDE DEF r
  <2>6. r.storage.extra = <<>>
    BY <1>7, <2>1, <2>2 DEF WithDefaults
  <2>7. r.storage.type \in DOMAIN DiskMin /\ r.storage.size \in Int
    BY <1>6, <2>1, <2>2, <2>3, <2>4 DEF WithDefaults
  <2>8. QED
    BY <2>5, <2>6, <2>7, <2>9 DEF StorageAccepted
<1>11. r.business # Nothing => r.business.users \in Nat /\ r.business.peak \in Nat
  <2> SUFFICES ASSUME r.business # Nothing PROVE r.business.users \in Nat /\ r.business.peak \in Nat
    OBVIOUS
  <2>1. r.business = WithDefaults(taken.business, Defaults.business) /\ Accepts("business", taken.business)
    BY <1>8
  <2>2. /\ DOMAIN Defaults.business = {"users", "peak"}
        /\ Defaults.business.users = 0 /\ Defaults.business.peak = 0
    BY DEF Defaults
  <2>3. /\ "users" \in DOMAIN taken.business => taken.business.users \in Int /\ 0 <= taken.business.users
        /\ "peak" \in DOMAIN taken.business => taken.business.peak \in Int /\ 0 <= taken.business.peak
    BY <1>2, <1>4, <2>1 DEF Accepts
  <2> HIDE DEF r
  <2>4. QED
    BY <2>1, <2>2, <2>3 DEF WithDefaults
<1>12. r.strategy \in Strategies /\ r.selected \in Seq(Range(r.selected)) /\ DOMAIN r.selected = {}
       /\ r.region \in DOMAIN RegionPercent
  <2>1. <<>> \in Seq(Range(<<>>)) /\ DOMAIN <<>> = {}
    OBVIOUS
  <2> HIDE DEF r
  <2>2. QED
    BY <1>6, <1>8, <2>1, IntakeAssumption DEF Strategies
<1>13. r.kubernetes # Nothing => KubernetesAccepted(r.kubernetes)
  <2> SUFFICES ASSUME r.kubernetes # Nothing PROVE KubernetesAccepted(r.kubernetes)
    OBVIOUS
  <2> DEFINE fields == {"nodes", "vcpu", "ram", "disk", "gpus", "pods", "hours"}
  <2>1. r.kubernetes = WithDefaults(taken.kubernetes, Defaults.kubernetes)
    BY <1>8
  <2>2. fields \subseteq DOMAIN Defaults.kubernetes /\ \A f \in fields : Defaults.kubernetes[f] \in Int
    <3>1. Defaults.kubernetes = [AsKubernetes(EmptyForm) EXCEPT !.required = FALSE]
      BY DEF Defaults
    <3>2. KubernetesAccepted(AsKubernetes(EmptyForm))
      BY NodesRead DEF EmptyForm, None
    <3>3. fields \cup {"required"} \subseteq DOMAIN AsKubernetes(EmptyForm)
      BY DEF AsKubernetes
    <3>4. QED
      BY <3>1, <3>2, <3>3 DEF KubernetesAccepted
  <2>3. \A f \in fields : f \in DOMAIN FieldSchema.kubernetes => FieldSchema.kubernetes[f] \in {Whole, Decimal}
    BY DEF FieldSchema
  <2> HIDE DEF r, fields
  <2>4. \A f \in fields : r.kubernetes[f] \in Int
    BY <1>16, <2>1, <2>2, <2>3
  <2>5. QED
    BY <2>4 DEF KubernetesAccepted, fields
<1>17. r.database # Nothing => DatabaseAccepted(r.database)
  <2> SUFFICES ASSUME r.database # Nothing PROVE DatabaseAccepted(r.database)
    OBVIOUS
  <2>1. r.database = WithDefaults(taken.database, Defaults.database)
    BY <1>8
  <2>2. /\ {"size", "backup"} \subseteq DOMAIN Defaults.database
        /\ Defaults.database.size = 0 /\ Defaults.database.backup = 0
    BY DEF Defaults, AsDatabase, Entry, EmptyForm, None
  <2>3. \A f \in {"size", "backup"} : f \in DOMAIN FieldSchema.database => FieldSchema.database[f] \in {Whole, Decimal}
    BY DEF FieldSchema
  <2> HIDE DEF r
  <2>4. QED
    BY <1>16, <2>1, <2>2, <2>3 DEF DatabaseAccepted
<1>18. r.network # Nothing => NetworkAccepted(r.network)
  <2> SUFFICES ASSUME r.network # Nothing PROVE NetworkAccepted(r.network)
    OBVIOUS
  <2>1. r.network = WithDefaults(taken.network, Defaults.network)
    BY <1>8
  <2>2. /\ {"balancer", "ips", "egress"} \subseteq DOMAIN Defaults.network
        /\ Defaults.network.ips = 0 /\ Defaults.network.egress = 0
    BY DEF Defaults, DefaultNetwork
  <2>3. \A f \in {"ips", "egress"} : FieldSchema.network[f] \in {Whole, Decimal}
    BY DEF FieldSchema
  <2> HIDE DEF r
  <2>4. r.network.ips \in Int /\ r.network.egress \in Int
    BY <1>16, <2>1, <2>2, <2>3
  <2>5. {"balancer", "ips", "egress"} \subseteq DOMAIN r.network
    BY <2>1, <2>2 DEF WithDefaults
  <2>6. QED
    BY <2>4, <2>5 DEF NetworkAccepted
<1> HIDE DEF r
<1>14. Accepted(r)
  BY <1>8, <1>9, <1>10, <1>11, <1>12, <1>13, <1>17, <1>18 DEF Accepted
<1>15. QED
  BY <1>14 DEF r, taken

\* So has a requirement that is read from a text.
LEMMA TextAccepted ==
  ASSUME NEW t \in Texts, ~TextRaises(t)
  PROVE  Accepted(FromText(t))
<1> DEFINE r == FromText(t)
           has(f) == f \in DOMAIN t.number
<1>1. /\ \A f \in DOMAIN t.number : t.number[f] \in Nat
      /\ t.family # Nothing => t.family \in Families
      /\ t.type # "none"
  BY IntakeAssumption
<1>2. /\ Sections \cup {"region", "strategy", "force", "term", "selected"} \subseteq DOMAIN r
      /\ r.strategy = "balanced" /\ r.storage = Nothing /\ r.selected = <<>>
      /\ r.region \in DOMAIN RegionPercent
  <2>1. r.region \in DOMAIN RegionPercent
    BY DEF TextRaises
  <2>2. QED
    BY <2>1 DEF FromText, Sections
<1>3. r.compute # Nothing => ComputeAccepted(r.compute)
  <2> DEFINE family == IF t.family = Nothing THEN "e2" ELSE t.family
  <2> SUFFICES ASSUME r.compute # Nothing PROVE ComputeAccepted(r.compute)
    OBVIOUS
  <2>1. family \in Families
    BY <1>1, StockAssumption
  <2>2. CASE t.type # Nothing
    <3>1. r.compute = [Defaults.compute EXCEPT !.family = family, !.machineType = t.type]
      BY <2>2 DEF FromText
    <3> HIDE DEF r, family
    <3>2. QED
      BY <1>1, <2>1, <3>1 DEF Defaults, DefaultCompute, ComputeAccepted
  <2>3. CASE t.type = Nothing
    <3>1. /\ has("vcpu") /\ has("ram")
          /\ r.compute = [Defaults.compute EXCEPT
                            !.family = family, !.vcpu = t.number["vcpu"], !.ram = t.number["ram"],
                            !.kind = IF "custom" \in t.said THEN "custom" ELSE @]
      BY <2>3 DEF FromText
    <3> DEFINE stated == [f \in {"vcpu", "ram"} \cap DOMAIN t.number |-> t.number[f]]
    <3>2. Accepts("compute", stated)
      BY <2>3 DEF TextRaises
    <3>3. 1 <= t.number["vcpu"] /\ 1 <= t.number["ram"]
      BY <3>1, <3>2 DEF Accepts
    <3> HIDE DEF r, family
    <3>4. QED
      BY <1>1, <2>1, <3>1, <3>3 DEF Defaults, DefaultCompute, ComputeAccepted
  <2>4. QED
    BY <2>2, <2>3
<1>4. r.business.users \in Nat /\ r.business.peak \in Nat
  <2> DEFINE given(f, other) == CASE has(f) -> t.number[f] [] ~has(f) /\ has(other) -> t.number[other]
                                  [] OTHER -> 0
  <2>1. r.business = [users |-> given("users", "peak"), peak |-> given("peak", "users")]
    BY DEF FromText
  <2>2. given("users", "peak") \in Nat /\ given("peak", "users") \in Nat
    BY <1>1
  <2> HIDE DEF r, given
  <2>3. QED
    BY <2>1, <2>2
<1>5. <<>> \in Seq(Range(<<>>)) /\ DOMAIN <<>> = {}
  OBVIOUS
<1>6. r.kubernetes # Nothing => KubernetesAccepted(r.kubernetes)
  <2> SUFFICES ASSUME r.kubernetes # Nothing PROVE KubernetesAccepted(r.kubernetes)
    OBVIOUS
  <2>1. r.kubernetes = [Defaults.kubernetes EXCEPT !.required = TRUE, !.autopilot = TRUE]
    BY DEF FromText
  <2>2. Defaults.kubernetes = [AsKubernetes(EmptyForm) EXCEPT !.required = FALSE]
    BY DEF Defaults
  <2>3. KubernetesAccepted(AsKubernetes(EmptyForm))
    BY NodesRead DEF EmptyForm, None
  <2>4. {"nodes", "vcpu", "ram", "disk", "gpus", "pods", "hours", "required", "autopilot"}
           \subseteq DOMAIN AsKubernetes(EmptyForm)
    BY DEF AsKubernetes
  <2>5. PICK k : k = AsKubernetes(EmptyForm)
    OBVIOUS
  <2> HIDE DEF r
  <2>6. PICK given : given = [k EXCEPT !.required = FALSE]
    OBVIOUS
  <2>9. r.kubernetes = [given EXCEPT !.required = TRUE, !.autopilot = TRUE]
    BY <2>1, <2>2, <2>5, <2>6
  <2>7. KubernetesAccepted(given) /\ DOMAIN given = DOMAIN k
    BY <2>3, <2>4, <2>5, <2>6 DEF KubernetesAccepted
  <2>8. QED
    BY <2>4, <2>5, <2>7, <2>9 DEF KubernetesAccepted
<1>9. r.database # Nothing => DatabaseAccepted(r.database)
  <2> SUFFICES ASSUME r.database # Nothing PROVE DatabaseAccepted(r.database)
    OBVIOUS
  <2> DEFINE ha == "ha" \in t.said \/ (has("uptime") /\ t.number["uptime"] >= 9990)
  <2>1. /\ has("database")
        /\ r.database = [Defaults.database EXCEPT !.required = TRUE, !.size = t.number["database"], !.ha = ha]
    BY DEF FromText
  <2>2. /\ {"required", "size", "ha", "backup"} \subseteq DOMAIN Defaults.database
        /\ Defaults.database.backup = 0
    BY DEF Defaults, AsDatabase, Entry, EmptyForm, None
  <2> HIDE DEF r, ha
  <2>3. QED
    BY <1>1, <2>1, <2>2 DEF DatabaseAccepted
<1>10. r.network # Nothing => NetworkAccepted(r.network)
  <2> SUFFICES ASSUME r.network # Nothing PROVE NetworkAccepted(r.network)
    OBVIOUS
  <2> DEFINE egress == IF has("egress") THEN t.number["egress"] ELSE 0
             balancer == "balancer" \in t.said
  <2>1. r.network = [balancer |-> balancer, ips |-> IF balancer THEN 1 ELSE 0, egress |-> egress,
                     cdn |-> "cdn" \in t.said, vpn |-> "vpn" \in t.said]
    BY DEF FromText
  <2>2. egress \in Int
    BY <1>1
  <2> HIDE DEF r, egress, balancer
  <2>3. QED
    BY <2>1, <2>2 DEF NetworkAccepted
<1> HIDE DEF r
<1>7. Accepted(r)
  BY <1>2, <1>3, <1>4, <1>5, <1>6, <1>9, <1>10 DEF Accepted, Strategies
<1>8. QED
  BY <1>7 DEF r

\* What is heeded of an answer is as legible as the answer.
LEMMA HeededLegible ==
  ASSUME NEW cells, NEW blanks, Legible(cells, blanks)
  PROVE  Legible(Heeded(cells), blanks)
<1> DEFINE top == [f \in {g \in DOMAIN cells.top \cap {"name", "region"} :
                             /\ cells.top[g].kind = "name"
                             /\ Coercible(cells.top[g], FieldSchema.top[g])} |-> cells.top[f]]
           of(s) == IF s # "top" THEN cells[s] ELSE top
<1>1. Heeded(cells) = [s \in DOMAIN cells |-> of(s)]
  BY DEF Heeded
<1>2. DOMAIN top \subseteq DOMAIN cells.top /\ \A f \in DOMAIN top : top[f] = cells.top[f]
  OBVIOUS
<1> HIDE DEF top
<1>3. ASSUME NEW s \in DOMAIN cells
      PROVE  DOMAIN of(s) \subseteq DOMAIN cells[s] /\ \A f \in DOMAIN of(s) : of(s)[f] = cells[s][f]
  BY <1>2
<1> HIDE DEF of
<1>4. QED
  BY <1>1, <1>3 DEF Legible

\* The fields of an intake that asks.
IntakeFields == {"stage", "of", "requirement", "issues", "source", "attempt", "read"}

\* What becomes of an answer of the model: it fails the request, a requirement is built
\* of what is heeded of it, or no section is in it.
AnswerFails(a) ==
  intake' = [[intake EXCEPT !.stage = "failed"] EXCEPT !.read = Heeded(a.cells)]
AnswerIssues(a) ==
  Taking(Heeded(a.cells), AnswerBlanks).issues \cup {Issue("warning", "sheet", label) : label \in a.unmapped}
AnswerTaken(a) ==
  LET built == Build(Taking(Heeded(a.cells), AnswerBlanks).sections)
  IN intake' = [[intake EXCEPT !.requirement = built.requirement, !.source = "ai",
                   !.issues = AnswerIssues(a) \cup built.issues,
                   !.stage = IF intake.of.auto THEN "extracted" ELSE "answered"]
                EXCEPT !.read = Heeded(a.cells)]
AnswerUnread(a) ==
  /\ intake' = [[intake EXCEPT !.issues = AnswerIssues(a) \cup {Unmappable}, !.stage = "answered"]
                EXCEPT !.read = Heeded(a.cells)]
  /\ \A s \in SectionKeys : Taking(Heeded(a.cells), AnswerBlanks).sections[s] = <<>>
AnsweredWith(a) == AnswerFails(a) \/ AnswerTaken(a) \/ AnswerUnread(a)
LEMMA AnsweringWith ==
  ASSUME ModelAnswers
  PROVE  \E a \in Answers : AnsweredWith(a)
<1> DEFINE taken(a) == Taking(Heeded(a.cells), AnswerBlanks)
           some(a) == \E s \in SectionKeys : taken(a).sections[s] # <<>>
           broken(a) == Overflows(Heeded(a.cells), AnswerBlanks) \/ ~a.listed
           built(a) == Build(taken(a).sections)
           issues(a) == taken(a).issues \cup {Issue("warning", "sheet", label) : label \in a.unmapped}
           fails == [intake EXCEPT !.stage = "failed"]
           takes(a) == [intake EXCEPT !.requirement = built(a).requirement, !.source = "ai",
                          !.issues = issues(a) \cup built(a).issues,
                          !.stage = IF intake.of.auto THEN "extracted" ELSE "answered"]
           unread(a) == [intake EXCEPT !.issues = issues(a) \cup {Unmappable}, !.stage = "answered"]
<1>1. PICK a \in Answers :
        intake' = [(CASE broken(a) -> fails
                      [] ~broken(a) /\ some(a) -> takes(a)
                      [] OTHER -> unread(a))
                   EXCEPT !.read = Heeded(a.cells)]
  BY DEF ModelAnswers
<1>2. CASE broken(a)
  <2> HIDE DEF broken, some, takes, unread
  <2>1. QED
    BY <1>1, <1>2 DEF AnsweredWith, AnswerFails
<1>3. CASE ~broken(a) /\ some(a)
  <2>1. intake' = [takes(a) EXCEPT !.read = Heeded(a.cells)]
    <3> HIDE DEF broken, some, takes, unread, fails
    <3>1. QED
      BY <1>1, <1>3
  <2>2. AnswerTaken(a)
    BY <2>1 DEF AnswerTaken, AnswerIssues
  <2>3. QED
    BY <2>2 DEF AnsweredWith
<1>4. CASE ~broken(a) /\ ~some(a)
  <2>1. intake' = [unread(a) EXCEPT !.read = Heeded(a.cells)]
    <3> HIDE DEF broken, some, takes, unread, fails
    <3>1. QED
      BY <1>1, <1>4
  <2>2. AnswerUnread(a)
    BY <1>4, <2>1 DEF AnswerUnread, AnswerIssues
  <2>3. QED
    BY <2>2 DEF AnsweredWith
<1>5. QED
  BY <1>2, <1>3, <1>4

\* An intake asks with what it has read.
LEMMA IntakeAccepted ==
  ASSUME AllAccepted, TakingIn
  PROVE  AllAccepted'
<1>1. advice = Nothing /\ advice' = Nothing
  BY DEF TakingIn
  \* A step that leaves the estimate alone is about the intake's record.
<1>2. ASSUME UNCHANGED vars, IntakeFields \subseteq DOMAIN intake',
             intake'.stage = "uploaded" => intake'.of \in Uploads,
             intake'.stage = "extracted" => Accepted(intake'.requirement)
      PROVE  AllAccepted'
  BY <1>1, <1>2 DEF AllAccepted, IntakeFields, vars
<1>3. intake # Nothing => IntakeFields \subseteq DOMAIN intake
  BY DEF AllAccepted, IntakeFields
<1>4. ASSUME NEW requirement, NEW issues, NEW source, Extracted(requirement, issues, source),
             intake # Nothing, UNCHANGED vars, requirement # Nothing => Accepted(requirement)
      PROVE  AllAccepted'
  <2>1. /\ IntakeFields \subseteq DOMAIN intake' /\ intake'.requirement = requirement
        /\ intake'.stage = "answered" \/ (intake'.stage = "extracted" /\ requirement # Nothing)
    BY <1>3, <1>4 DEF Extracted, IntakeFields
  <2>2. QED
    BY <1>2, <1>4, <2>1
<1>5. CASE Upload /\ UNCHANGED vars
  <2>1. PICK u \in Uploads :
          intake' = [stage |-> "uploaded", of |-> u, read |-> u.cells, attempt |-> 0, requirement |-> Nothing,
                     issues |-> {}, source |-> "unrecognized", notes |-> {}]
    BY <1>5 DEF Upload
  <2>2. QED
    BY <1>2, <1>5, <2>1 DEF IntakeFields
<1>6. CASE ExtractText /\ UNCHANGED vars
  <2>1. PICK t \in Texts :
          intake' = [stage |-> CASE TextRaises(t) -> "failed" [] ~TextRaises(t) /\ t.auto -> "extracted"
                                 [] OTHER -> "answered",
                     of |-> t, read |-> <<>>, attempt |-> 0, requirement |-> FromText(t), issues |-> {},
                     source |-> "text", notes |-> TextNotes(t)]
    BY <1>6 DEF ExtractText
  <2>2. intake'.stage = "extracted" => Accepted(intake'.requirement)
    <3>1. CASE TextRaises(t)
      BY <2>1, <3>1
    <3>2. CASE ~TextRaises(t)
      BY <2>1, <3>2, TextAccepted
    <3>3. QED
      BY <3>1, <3>2
  <2>3. intake'.stage # "uploaded" /\ IntakeFields \subseteq DOMAIN intake'
    BY <2>1 DEF IntakeFields
  <2>4. QED
    BY <1>2, <1>6, <2>2, <2>3
<1>15. ASSUME Unrecognized, intake # Nothing, UNCHANGED vars
       PROVE  AllAccepted'
  <2>1. IntakeFields \subseteq DOMAIN intake' /\ intake'.stage = "answered"
    BY <1>3, <1>15 DEF Unrecognized, IntakeFields
  <2>2. QED
    BY <1>2, <1>15, <2>1
<1>7. CASE intake # Nothing /\ ReadTemplate /\ UNCHANGED vars
  <2> DEFINE taken == Taking(intake.of.cells, SheetBlanks)
             built == Build(taken.sections)
  <2>1. Accepted(built.requirement)
    BY <1>7, BuiltAccepted, IntakeAssumption DEF ReadTemplate, AllAccepted
  <2>2. \/ intake' = [intake EXCEPT !.stage = "failed"]
        \/ Extracted(built.requirement, taken.issues \cup built.issues, "template")
        \/ intake' = [intake EXCEPT !.stage = "asked", !.read = <<>>]
        \/ Unrecognized
    BY <1>7 DEF ReadTemplate
  <2>3. CASE \/ intake' = [intake EXCEPT !.stage = "failed"]
             \/ intake' = [intake EXCEPT !.stage = "asked", !.read = <<>>]
    <3>1. IntakeFields \subseteq DOMAIN intake' /\ intake'.stage \in {"failed", "asked"}
      BY <1>3, <1>7, <2>3 DEF IntakeFields
    <3>2. QED
      BY <1>2, <1>7, <3>1
  <2> HIDE DEF taken, built
  <2>4. QED
    BY <1>4, <1>7, <1>15, <2>1, <2>2, <2>3
<1>8. CASE intake # Nothing /\ ModelBusy /\ UNCHANGED vars
  <2>1. CASE Unrecognized
    BY <1>8, <1>15, <2>1
  <2>2. CASE intake' = [intake EXCEPT !.attempt = @ + 1]
    BY <1>2, <1>3, <1>8, <2>2 DEF ModelBusy, IntakeFields
  <2>3. QED
    BY <1>8, <2>1, <2>2 DEF ModelBusy
<1>9. CASE intake # Nothing /\ ModelRefuses /\ UNCHANGED vars
  BY <1>9, <1>15 DEF ModelRefuses
<1>10. CASE intake # Nothing /\ ModelAnswers /\ UNCHANGED vars
  <2>1. PICK a \in Answers :
          \/ /\ intake'.stage \in {"failed", "answered"}
             /\ IntakeFields \subseteq DOMAIN intake'
          \/ /\ IntakeFields \subseteq DOMAIN intake'
             /\ intake'.requirement = Build(Taking(Heeded(a.cells), AnswerBlanks).sections).requirement
             /\ intake'.stage \in {"extracted", "answered"}
    <3>1. PICK a \in Answers : AnsweredWith(a)
      BY <1>10, AnsweringWith
    <3>2. QED
      BY <1>3, <1>10, <3>1 DEF AnsweredWith, AnswerFails, AnswerTaken, AnswerUnread, IntakeFields
  <2>2. Accepted(Build(Taking(Heeded(a.cells), AnswerBlanks).sections).requirement)
    BY BuiltAccepted, HeededLegible, IntakeAssumption
  <2>3. QED
    BY <1>2, <1>10, <2>1, <2>2
<1>11. CASE intake # Nothing /\ EstimateExtracted
  <2> DEFINE r == [intake.requirement EXCEPT !.force = intake.of.force, !.term = intake.of.term]
  <2>1. Accepted(r)
    BY <1>11, ForcedAccepted DEF EstimateExtracted, AllAccepted
  <2>2. intake' = [intake EXCEPT !.stage = "pricing"] /\ Start(r)
    BY <1>11 DEF EstimateExtracted
  <2> HIDE DEF r
  <2>3. QED
    BY <1>1, <1>3, <1>11, <2>1, <2>2 DEF AllAccepted, IntakeFields, Start
<1>12. CASE intake # Nothing /\ FoldEstimate
  <2>1. /\ IntakeFields \subseteq DOMAIN intake' /\ UNCHANGED vars
        /\ intake'.stage \in {"failed", "answered"}
    BY <1>3, <1>12 DEF FoldEstimate, IntakeFields
  <2>2. QED
    BY <1>2, <2>1
<1>13. CASE intake # Nothing /\ IntakeLeaves
  BY <1>1, <1>13 DEF IntakeLeaves, AllAccepted, Respond, vars
<1>14. QED
  BY <1>5, <1>6, <1>7, <1>8, <1>9, <1>10, <1>11, <1>12, <1>13 DEF TakingIn, TakeIn

\* The two invariants together are inductive: advice is of a size that the estimate
\* before it determined.
LEMMA RequestsStep ==
  ASSUME Staged, AllAccepted, [ApiNext]_apiVars
  PROVE  Staged' /\ AllAccepted'
<1>1. Staged'
  <2>1. CASE UNCHANGED vars
    BY <2>1 DEF vars, Staged
  <2>2. QED
    BY <2>1, Estimates, StartStaged, RespondStaged, StageStaged
<1>2. CASE UNCHANGED apiVars
  BY <1>1, <1>2 DEF apiVars, vars, AllAccepted, Asks
<1>3. CASE Estimating
  <2>1. CASE Submit
    <3>1. PICK kind \in DOMAIN Requests : \E r \in Requests[kind] : Start(r)
      BY <2>1 DEF Submit
    <3>2. PICK r \in Requests[kind] : Start(r)
      BY <3>1
    <3>3. Accepted(r)
      BY RequestsAssumption
    <3>4. QED
      BY <1>1, <1>3, <3>2, <3>3 DEF Estimating, AllAccepted, Start
  <2>2. CASE Respond
    BY <1>1, <1>3, <2>2 DEF Estimating, AllAccepted, Respond
  <2>3. QED
    BY <1>3, <2>1, <2>2 DEF Estimating
<1>4. CASE Working
  <2>1. stage # "idle" /\ UNCHANGED <<req, advice, intake>>
    BY <1>4 DEF Working, Recommend, Bridge, BridgeRaises, Validate, NormalizeSpec, PriceAll,
                PricingFormRaises, PriceFails
  <2>2. QED
    BY <1>1, <2>1 DEF AllAccepted, Asks
<1>5. CASE Advising
  BY <1>1, <1>5, AdviceAccepted
<1>6. CASE TakingIn
  BY <1>1, <1>6, IntakeAccepted
<1>7. QED
  BY <1>1, <1>2, <1>3, <1>4, <1>5, <1>6 DEF ApiNext

\* At every stage of every estimate (pipeline.run, domain/context.py), what has been
\* computed is what the requirement determines, and nothing of another request; and
\* every requirement under way is an accepted one, whoever asked for it.
THEOREM Determined == ApiSpec => [](Staged /\ AllAccepted)
<1>1. ApiInit => Staged /\ AllAccepted
  BY DEF ApiInit, Init, Staged, Stages, AllAccepted
<1>2. Staged /\ AllAccepted /\ [ApiNext]_apiVars => Staged' /\ AllAccepted'
  BY RequestsStep
<1>3. QED
  BY <1>1, <1>2, PTL DEF ApiSpec

\* Whatever the catalog and the requests, an estimate that is for something else than
\* the customer asked for says so.
THEOREM Explained == ApiSpec => []SubstitutionsExplained
<1>1. Staged /\ AllAccepted => SubstitutionsExplained
  <2> SUFFICES ASSUME Staged, AllAccepted, stage = "done" PROVE SubstitutionsExplained
    BY DEF SubstitutionsExplained
  <2> DEFINE n == Normalize(work)
  <2>1. Accepted(work) /\ spec = n.spec /\ n.notes \subseteq noted
    BY WorkAccepted
  <2>2. ASSUME Given("compute")
        PROVE  \E m : /\ Bought(work.compute, m) /\ spec.compute = m.machine /\ m.notes \subseteq noted
    <3>1. ComputeAccepted(work.compute) /\ work.strategy \in Strategies
      BY <2>1, <2>2 DEF Accepted, Given
    <3>2. Bought(work.compute, NormalizeCompute(work.compute, work.strategy))
      BY <3>1, ComputeBought
    <3>3. /\ spec.compute = NormalizeCompute(work.compute, work.strategy).machine
          /\ NormalizeCompute(work.compute, work.strategy).notes \subseteq noted
      BY <2>1, <2>2, SpecificationExplained DEF Given
    <3>4. QED
      BY <3>2, <3>3
  <2>3. /\ Given("compute") /\ spec.compute.family # work.compute.family => "compute.machine_family" \in noted
        /\ ByShape =>
             /\ spec.compute.vcpu # work.compute.vcpu => noted \cap {"compute.vcpu", "compute.machine_type_kind"} # {}
             /\ spec.compute.ram # work.compute.ram => noted \cap {"compute.ram_gb", "compute.machine_type_kind"} # {}
    BY <2>2 DEF Bought, ByShape
  <2>4. /\ Given("storage") =>
             /\ spec.disks[1] # work.storage.size => "storage.size_gb" \in noted
             /\ Tail(spec.disks) # work.storage.extra => "storage.additional_disks" \in noted
        /\ spec.tier # Nothing /\ work.database.tier = "custom"
             /\ <<spec.tier.vcpu, spec.tier.ram>> # <<work.database.vcpu, work.database.ram>>
             => "database.tier" \in noted
        /\ spec.nodes # Nothing /\ ~work.kubernetes.autopilot /\ spec.nodes # work.kubernetes.nodes
             => "kubernetes.node_count" \in noted
    BY <2>1, SpecificationExplained DEF Given
  <2>5. QED
    BY <2>3, <2>4 DEF SubstitutionsExplained
<1>2. QED
  BY <1>1, Determined, PTL

\* A custom shape that validation has nothing against is priced to the vCPU and the
\* quarter of a GB, whatever the family's increments and bounds.
THEOREM PricedAsAsked == ApiSpec => []CustomPricedAsAsked
<1>1. Staged /\ AllAccepted => CustomPricedAsAsked
  <2> SUFFICES ASSUME Staged, AllAccepted,
                      stage = "done", ByShape, work.compute.kind = "custom", ~HasBlockers(found)
               PROVE  /\ spec.compute.kind = "custom"
                      /\ spec.compute.vcpu = work.compute.vcpu /\ spec.compute.ram = work.compute.ram
    BY DEF CustomPricedAsAsked
  <2> DEFINE c == work.compute
  <2>1. /\ Accepted(work) /\ c # Nothing /\ c.machineType = "none"
        /\ spec = Normalize(work).spec
    BY WorkAccepted DEF ByShape, Given
  <2>2. ComputeAccepted(c)
    BY <2>1 DEF Accepted
  <2>3. CustomFindings(c) = {}
    <3>1. CustomFindings(c) \subseteq found
      BY <2>1 DEF Staged, Findings
    <3>2. \A f \in CustomFindings(c) : f.severity = "blocker"
      BY DEF CustomFindings, Unless, Blocker
    <3>3. QED
      BY <3>1, <3>2 DEF HasBlockers
  <2> DEFINE shape == ClampCustomShape(c, Capability[c.family])
  <2>4. Capability[c.family].custom /\ shape.vcpu = c.vcpu /\ shape.ram = c.ram
    BY <2>1, <2>2, <2>3, ShapeKept
  <2>5. CustomCompute(c).machine = [family |-> shape.family, vcpu |-> shape.vcpu, ram |-> shape.ram,
                                    kind |-> "custom"]
    BY <2>4 DEF CustomCompute, Instead, Sized
  <2>6. ~Known(c.machineType)
    BY <2>1, CatalogAssumption DEF Known, Named
  <2>7. spec.compute = CustomCompute(c).machine
    <3>1. NormalizeCompute(c, work.strategy) = CustomCompute(c)
      BY <2>1, <2>6 DEF NormalizeCompute
    <3>2. QED
      BY <2>1, <3>1, SpecificationExplained
  <2> HIDE DEF shape
  <2>8. QED
    BY <2>4, <2>5, <2>7
<1>2. QED
  BY <1>1, Determined, PTL

-----------------------------------------------------------------------------
(* The selections *)

\* How many members of a set of indices there are up to one of them.
Rank(S, i) == Cardinality({j \in S : j <= i})

\* The members of a finite set of indices are ranked in their order.
LEMMA Ranked ==
  ASSUME NEW S, S \subseteq Nat, IsFiniteSet(S)
  PROVE  /\ \A i \in S : Rank(S, i) \in 1..Cardinality(S)
         /\ \A i, j \in S : i < j => Rank(S, i) < Rank(S, j)
<1> DEFINE upTo(k) == {j \in S : j <= k}
<1>1. \A k \in S : IsFiniteSet(upTo(k)) /\ upTo(k) \subseteq S /\ Cardinality(upTo(k)) \in Nat
  <2>1. ASSUME NEW k \in S PROVE IsFiniteSet(upTo(k))
    <3>1. upTo(k) \subseteq S
      OBVIOUS
    <3>2. QED
      BY <3>1, FS_Subset
  <2>2. QED
    BY <2>1, FS_CardinalityType
<1>2. ASSUME NEW i \in S PROVE Cardinality(upTo(i)) \in 1..Cardinality(S)
  <2>1. i \in upTo(i)
    OBVIOUS
  <2>2. Cardinality(upTo(i)) # 0
    BY <1>1, <2>1, FS_EmptySet
  <2>3. Cardinality(upTo(i)) <= Cardinality(S) /\ Cardinality(upTo(i)) \in Nat /\ Cardinality(S) \in Nat
    BY <1>1, FS_Subset, FS_CardinalityType
  <2>4. QED
    BY <2>2, <2>3
<1>3. ASSUME NEW k \in S, NEW l \in S, k < l
      PROVE  Cardinality(upTo(k)) < Cardinality(upTo(l))
  <2>0. k \in Nat /\ l \in Nat /\ k < l
    BY <1>3
  <2>1. /\ upTo(k) \subseteq upTo(l)
        /\ l \in upTo(l)
        /\ l \notin upTo(k)
    <3>1. ASSUME NEW j \in upTo(k) PROVE j \in upTo(l)
      <4>1. j \in Nat /\ j \in S /\ j <= k
        OBVIOUS
      <4>2. j <= l
        BY <2>0, <4>1
      <4>3. QED
        BY <4>1, <4>2
    <3>2. l <= l /\ ~(l <= k)
      BY <2>0
    <3>3. QED
      BY <3>1, <3>2
  <2> HIDE DEF upTo
  <2>2. QED
    BY <1>1, <2>1, FS_Subset
<1>4. QED
  BY <1>2, <1>3 DEF Rank

\* So no two have the same rank,
LEMMA RankedApart ==
  ASSUME NEW S, S \subseteq Nat, IsFiniteSet(S), NEW i \in S, NEW k \in S, Rank(S, k) = Rank(S, i)
  PROVE  k = i
<1>1. Rank(S, i) \in Nat /\ Rank(S, k) \in Nat
  <2>1. Cardinality(S) \in Nat
    BY FS_CardinalityType
  <2>2. Rank(S, i) \in 1..Cardinality(S) /\ Rank(S, k) \in 1..Cardinality(S)
    BY Ranked
  <2>3. QED
    BY <2>1, <2>2
<1>2. ~(i < k) /\ ~(k < i)
  <2>1. i < k => Rank(S, i) < Rank(S, k)
    BY Ranked
  <2>2. k < i => Rank(S, k) < Rank(S, i)
    BY Ranked
  <2> HIDE DEF Rank
  <2>3. \A x, y \in Nat : x = y => ~(x < y)
    OBVIOUS
  <2>4. QED
    BY <1>1, <2>1, <2>2, <2>3
<1>3. i \in Nat /\ k \in Nat
  OBVIOUS
<1>4. QED
  BY <1>2, <1>3

\* each is the n-th for an n,
LEMMA NthReached ==
  ASSUME NEW S, S \subseteq Nat, IsFiniteSet(S), NEW i \in S
  PROVE  \E n \in 1..Cardinality(S) : Nth(S, n) = i
<1>1. \A k \in S : Rank(S, k) = Rank(S, i) => k = i
  BY RankedApart
<1>2. Rank(S, i) \in 1..Cardinality(S)
  BY Ranked
<1>3. Nth(S, Rank(S, i)) = i
  BY <1>1 DEF Nth, Rank
<1>4. QED
  BY <1>2, <1>3

\* The n-th of a set of indices is of rank n.
LEMMA NthRanked ==
  ASSUME NEW S, S \subseteq Nat, IsFiniteSet(S), NEW n \in 1..Cardinality(S)
  PROVE  /\ Nth(S, n) \in S /\ Rank(S, Nth(S, n)) = n
         /\ \A i \in S : Rank(S, i) = n => Nth(S, n) = i
<1> DEFINE T == 1..Cardinality(S)
           f == [i \in S |-> Rank(S, i)]
<1>1. Cardinality(S) \in Nat
  BY FS_CardinalityType
<1>2. IsFiniteSet(T) /\ Cardinality(T) = Cardinality(S)
  BY <1>1, FS_Interval
<1>3. f \in [S -> T] /\ \A i, j \in S : f[i] = f[j] => i = j
  <2>1. \A i \in S : Rank(S, i) \in 1..Cardinality(S)
    BY Ranked
  <2>2. \A i, j \in S : Rank(S, i) = Rank(S, j) => i = j
    BY RankedApart
  <2>3. QED
    BY <2>1, <2>2
<1> HIDE DEF f, T
<1>4. f \in Injection(S, T)
  BY <1>3 DEF Injection, IsInjective
<1>5. f \in Surjection(S, T)
  BY <1>2, <1>4, FS_Injection
<1>6. \E i \in S : f[i] = n
  BY <1>5 DEF Surjection, T
<1>7. \E i \in S : Rank(S, i) = n
  BY <1>6 DEF f
<1>8. Nth(S, n) \in S /\ Rank(S, Nth(S, n)) = n
  BY <1>7 DEF Nth, Rank
<1>9. \A i \in S : Rank(S, i) = n => Nth(S, n) = i
  BY <1>8, RankedApart
<1>10. QED
  BY <1>8, <1>9

\* and the n-th is one of them.
LEMMA NthIn ==
  ASSUME NEW S, S \subseteq Nat, IsFiniteSet(S), NEW n \in 1..Cardinality(S)
  PROVE  Nth(S, n) \in S
BY NthRanked

\* So a selection that is left over is among those that are priced.
LEMMA LeftOverReached ==
  ASSUME NEW w, Accepted(w), NEW i \in DOMAIN w.selected,
         \/ BindingOf(w.selected[i]) = "none"
         \/ \E j \in Bound(w, BindingOf(w.selected[i])) : j < i
  PROVE  \E n \in DOMAIN LeftOver(w) : LeftOver(w)[n] = w.selected[i]
<1> DEFINE left == {k \in DOMAIN w.selected :
                      \/ BindingOf(w.selected[k]) = "none"
                      \/ \E j \in Bound(w, BindingOf(w.selected[k])) : j < k}
<1>1. DOMAIN w.selected \subseteq Nat /\ IsFiniteSet(DOMAIN w.selected)
  <2>1. DOMAIN w.selected = 1..Len(w.selected) /\ Len(w.selected) \in Nat
    BY DEF Accepted
  <2>2. QED
    BY <2>1, FS_Interval
<1>2. left \subseteq Nat /\ IsFiniteSet(left) /\ i \in left
  <2>1. left \subseteq DOMAIN w.selected
    OBVIOUS
  <2>2. QED
    BY <1>1, <2>1, FS_Subset
<1>3. LeftOver(w) = [n \in 1..Cardinality(left) |-> w.selected[Nth(left, n)]]
  BY DEF LeftOver, Picked
<1> HIDE DEF left
<1>4. PICK n \in 1..Cardinality(left) : Nth(left, n) = i
  BY <1>2, NthReached
<1>5. QED
  BY <1>3, <1>4

\* A selection is priced and noted, or it is the source of its section, or the
\* section had been filled before.
THEOREM Accounted == ApiSpec => []SelectionsAccounted
<1>1. Staged /\ AllAccepted => SelectionsAccounted
  <2> SUFFICES ASSUME Staged, AllAccepted, stage = "done", NEW i \in DOMAIN req.selected
               PROVE  LET s == req.selected[i]
                      IN \/ s.service \in noted
                         \/ BindingOf(s) # "none" /\ work[BindingOf(s)] = AsSection(BindingOf(s), s.form)
                         \/ BindingOf(s) # "none" /\ (req[BindingOf(s)] # Nothing \/ BindingOf(s) \in noted)
    BY DEF SelectionsAccounted
  <2> DEFINE s == req.selected[i]
             b == BindingOf(s)
             w == Recommended(req).work
  <2>1. /\ Accepted(w) /\ w.selected = req.selected
        /\ \A section \in {"storage", "database", "kubernetes"} :
             w[section] # req[section] => section \in Recommended(req).notes
    BY RecommendedAccepted DEF AllAccepted
  <2>2. work = Bridged(w) /\ Readable(w) /\ Recommended(req).notes \subseteq noted
    BY WorkAccepted
  <2> HIDE DEF w
  <2>3. CASE b = "none" \/ \E j \in Bound(w, b) : j < i
    <3>1. PICK n \in DOMAIN LeftOver(w) : LeftOver(w)[n] = s
      BY <2>1, <2>3, LeftOverReached
    <3>2. rest = LeftOver(w) /\ ServiceNotes(rest) \subseteq noted
      BY DEF Staged, w
    <3>3. s.service \in ServiceNotes(rest)
      BY <3>1, <3>2 DEF ServiceNotes
    <3>4. QED
      BY <3>2, <3>3
  <2>4. CASE b # "none" /\ \A j \in Bound(w, b) : ~(j < i)
    <3>1. b \in {"storage", "database", "kubernetes"}
      BY <2>4, BindingAssumption DEF BindingOf, KnownCard
    <3>2. CASE w[b] # Nothing
      BY <2>1, <2>2, <2>4, <3>1, <3>2
    <3>3. CASE w[b] = Nothing
      <4>1. i \in Bound(w, b) /\ Bound(w, b) \subseteq Nat
        BY <2>1 DEF Bound, Accepted
      <4>2. \A j \in Bound(w, b) : i <= j
        BY <2>4, <4>1
      <4>3. (CHOOSE k \in Bound(w, b) : \A j \in Bound(w, b) : k <= j) = i
        <5>1. \A k \in Bound(w, b) : (\A j \in Bound(w, b) : k <= j) => k = i
          BY <4>1, <4>2
        <5>2. QED
          BY <4>1, <4>2, <5>1
      <4>4. Source(w, b) = s.form
        BY <2>1, <4>3 DEF Source
      <4>5. b \in Taken(w)
        BY <3>1, <3>3, <4>1 DEF Taken
      <4>6. work[b] = AsSection(b, s.form)
        BY <2>1, <2>2, <3>1, <4>4, <4>5, BridgedAccepted
      <4>7. QED
        BY <2>4, <4>6
    <3>4. QED
      BY <3>2, <3>3
  <2>5. QED
    BY <2>3, <2>4
<1>2. QED
  BY <1>1, Determined, PTL

-----------------------------------------------------------------------------
(* Findings and notes *)

\* The fields in which the notes are compared with the findings.
Compared == {"compute.vcpu", "compute.ram_gb", "storage.size_gb", "database.tier", "kubernetes.node_count"}

\* The notes on the price of a service are about the service and its form,
LEMMA PricedNotes ==
  ASSUME NEW service, NEW form
  PROVE  UnpricedNotes(service, form) \cap Compared = {}
BY DEF UnpricedNotes, Compared

\* and what is left over are selections that were made,
LEMMA LeftOverSelected ==
  ASSUME NEW w, Accepted(w), NEW n \in DOMAIN LeftOver(w)
  PROVE  \E i \in DOMAIN w.selected : LeftOver(w)[n] = w.selected[i]
<1> DEFINE left == {k \in DOMAIN w.selected :
                      \/ BindingOf(w.selected[k]) = "none"
                      \/ \E j \in Bound(w, BindingOf(w.selected[k])) : j < k}
<1>1. DOMAIN w.selected \subseteq Nat /\ IsFiniteSet(DOMAIN w.selected)
  <2>1. DOMAIN w.selected = 1..Len(w.selected) /\ Len(w.selected) \in Nat
    BY DEF Accepted
  <2>2. QED
    BY <2>1, FS_Interval
<1>2. left \subseteq Nat /\ IsFiniteSet(left) /\ left \subseteq DOMAIN w.selected
  <2>1. left \subseteq DOMAIN w.selected
    OBVIOUS
  <2>2. QED
    BY <1>1, <2>1, FS_Subset
<1>3. LeftOver(w) = [k \in 1..Cardinality(left) |-> w.selected[Nth(left, k)]]
  BY DEF LeftOver, Picked
<1> HIDE DEF left
<1>4. n \in 1..Cardinality(left) /\ LeftOver(w)[n] = w.selected[Nth(left, n)]
  BY <1>3
<1>5. Nth(left, n) \in left
  BY <1>2, <1>4, NthIn
<1>6. QED
  BY <1>2, <1>4, <1>5

\* so pricing the services notes nothing of what the sections are compared in.
LEMMA ServicesApart ==
  ASSUME NEW w, Accepted(w)
  PROVE  ServiceNotes(LeftOver(w)) \cap Compared = {}
<1> DEFINE extras == LeftOver(w)
<1>1. ASSUME NEW n \in DOMAIN extras
      PROVE  ({extras[n].service} \cup UnpricedNotes(extras[n].service, extras[n].form)) \cap Compared = {}
  <2>1. PICK i \in DOMAIN w.selected : extras[n] = w.selected[i]
    BY LeftOverSelected
  <2>2. extras[n].service \notin Compared
    BY <2>1 DEF Accepted, SelectionAccepted, Compared
  <2>3. UnpricedNotes(extras[n].service, extras[n].form) \cap Compared = {}
    BY PricedNotes
  <2> HIDE DEF extras
  <2>4. QED
    BY <2>2, <2>3
<1> HIDE DEF extras
<1>2. ServiceNotes(extras) \cap Compared = {}
  BY <1>1 DEF ServiceNotes
<1>3. QED
  BY <1>2 DEF extras

\* Nor does what is recommended.
LEMMA RecommendedApart ==
  ASSUME NEW r
  PROVE  Recommended(r).notes \subseteq {"compute", "network.load_balancer_required", "database", "kubernetes"}
<1>1. CASE r.compute # Nothing \/ r.business = Nothing
  BY <1>1 DEF Recommended
<1>2. CASE r.compute = Nothing /\ r.business # Nothing
  BY <1>2 DEF Recommended, Noted
<1>3. QED
  BY <1>1, <1>2

\* A finding on the boot disk, the database or the node count is of its own rule.
LEMMA FindingOf ==
  ASSUME NEW r, Accepted(r)
  PROVE  /\ "storage.size_gb" \in {f.field : f \in Findings(r)}
              <=> r.storage # Nothing /\ DiskFindings(r.storage) # {}
         /\ "kubernetes.node_count" \in {f.field : f \in Findings(r)}
              <=> r.kubernetes # Nothing /\ KubernetesFindings(r.kubernetes) # {}
         /\ r.database # Nothing /\ DatabaseFindings(r.database) # {}
              => "database.vcpu_ram" \in {f.field : f \in Findings(r)}
<1> DEFINE ofCompute == IF r.compute = Nothing THEN {}
                        ELSE ShapeFindings(r.compute) \cup RegionFindings(r.compute, r.region)
                             \cup MachineTypeFindings(r.compute) \cup CustomFindings(r.compute)
                             \cup GpuFindings(r.compute)
           ofStorage == IF r.storage = Nothing THEN {}
                        ELSE DiskFindings(r.storage) \cup SnapshotFindings(r.storage)
           ofDatabase == IF r.database = Nothing THEN {} ELSE DatabaseFindings(r.database)
           ofNetwork == IF r.network = Nothing THEN {} ELSE NetworkFindings(r.network)
           ofKubernetes == IF r.kubernetes = Nothing THEN {} ELSE KubernetesFindings(r.kubernetes)
           ofAvailability == IF r.availability = Nothing THEN {}
                             ELSE AvailabilityFindings(r.availability) \cup BackupFindings(r.availability)
           ofForms == FormFindings(r.selected)
<1>1. Findings(r) = ofCompute \cup ofStorage \cup ofDatabase \cup ofNetwork \cup ofKubernetes
                    \cup ofAvailability \cup ofForms
  BY DEF Findings
<1>2. \A f \in ofCompute : f.field \in {"compute.vcpu", "compute.ram_gb", "compute.machine_family",
                                        "compute.machine_type", "compute.machine_type_kind",
                                        "compute.gpu_type", "compute.gpu_count"}
  BY DEF ShapeFindings, RegionFindings, MachineTypeFindings, CustomFindings, GpuFindings,
         Unless, Warning, Blocker
<1>3. /\ \A f \in DiskFindings(r.storage) : f.field = "storage.size_gb"
      /\ \A f \in SnapshotFindings(r.storage) : f.field = "storage.snapshot_retention_days"
  BY DEF DiskFindings, SnapshotFindings, Unless, Warning
<1>4. \A f \in DatabaseFindings(r.database) : f.field = "database.vcpu_ram"
  BY DEF DatabaseFindings, Unless, Warning
<1>5. \A f \in ofNetwork : f.field \in {"network.cdn_enabled", "network.external_ip_count"}
  BY DEF NetworkFindings, Unless, Warning
<1>6. \A f \in KubernetesFindings(r.kubernetes) : f.field = "kubernetes.node_count"
  BY DEF KubernetesFindings, Unless, Warning
<1>7. \A f \in ofAvailability : f.field \in {"availability.target_uptime_percent",
                                             "availability.high_availability",
                                             "availability.backup_frequency"}
  BY DEF AvailabilityFindings, BackupFindings, Unless, Warning
<1>8. \A f \in ofForms : f.field \notin {"storage.size_gb", "kubernetes.node_count"}
  <2>1. ASSUME NEW f \in ofForms
        PROVE  \E i \in DOMAIN r.selected : f.field = r.selected[i].service
    BY DEF FormFindings, Unless, Warning
  <2>2. \A i \in DOMAIN r.selected : r.selected[i].service \notin {"storage.size_gb", "kubernetes.node_count"}
    BY DEF Accepted, SelectionAccepted
  <2>3. QED
    BY <2>1, <2>2
<1> HIDE DEF ofCompute, ofNetwork, ofAvailability, ofForms
<1>9. "storage.size_gb" \in {f.field : f \in Findings(r)}
        <=> r.storage # Nothing /\ DiskFindings(r.storage) # {}
  BY <1>1, <1>2, <1>3, <1>4, <1>5, <1>6, <1>7, <1>8
<1>10. "kubernetes.node_count" \in {f.field : f \in Findings(r)}
         <=> r.kubernetes # Nothing /\ KubernetesFindings(r.kubernetes) # {}
  BY <1>1, <1>2, <1>3, <1>4, <1>5, <1>6, <1>7, <1>8
<1>11. r.database # Nothing /\ DatabaseFindings(r.database) # {}
         => "database.vcpu_ram" \in {f.field : f \in Findings(r)}
  BY <1>1, <1>4
<1>12. QED
  BY <1>9, <1>10, <1>11

\* The boot disk is the first of the disks.
LEMMA BootDisk ==
  ASSUME NEW s, StorageAccepted(s)
  PROVE  Disks(s) # <<>> /\ Disks(s)[1] = DiskSize(s.type, s.size)
<1> DEFINE boot == DiskSize(s.type, s.size)
           more == [i \in DOMAIN s.extra |-> DiskSize(s.type, s.extra[i])]
           sizes == {boot} \cup {more[i] : i \in DOMAIN more}
<1>1. s.extra \in Seq(Nat)
  BY DEF StorageAccepted
<1>2. more \in Seq(sizes) /\ <<boot>> \in Seq(sizes)
  BY <1>1
<1>3. Len(<<boot>> \o more) > 0 /\ (<<boot>> \o more)[1] = boot
  <2> HIDE DEF boot, more, sizes
  <2>1. QED
    BY <1>2
<1>4. Disks(s) = <<boot>> \o more
  BY DEF Disks
<1> HIDE DEF boot, more
<1>5. QED
  BY <1>3, <1>4 DEF boot

\* A size or a count is substituted just when it is out of range.
LEMMA OutOfRange ==
  ASSUME NEW x \in Int, NEW low \in Int, NEW high \in Int, low <= high
  PROVE  /\ Clamped(x, low, high) # x <=> ~(low <= x /\ x <= high)
         /\ Clamped(x, low, high) \in Int
BY DEF Clamped, AtLeast, AtMost

\* The notes on a machine are about the machine,
LEMMA MachineNotes ==
  ASSUME NEW c, ComputeAccepted(c), NEW strategy
  PROVE  NormalizeCompute(c, strategy).notes
           \subseteq {"compute.vcpu", "compute.ram_gb", "compute.machine_type_kind",
                      "compute.machine_family", "compute.machine_type"}
<1> DEFINE fields == {"compute.vcpu", "compute.ram_gb", "compute.machine_type_kind",
                      "compute.machine_family", "compute.machine_type"}
<1>1. ASSUME NEW m, NEW kind, NEW notes, notes \subseteq fields
      PROVE  Sized(m, kind, notes).notes \subseteq fields /\ Instead(m, c, kind, notes).notes \subseteq fields
  BY <1>1 DEF Sized, Instead, Noted
<1> DEFINE unknown == Noted(c.machineType # "none", "compute.machine_type")
<1>2. unknown \subseteq fields /\ {} \subseteq fields /\ {"compute.machine_type_kind"} \subseteq fields
  BY DEF Noted
<1>3. \A b : Noted(b, "compute.machine_family") \subseteq fields
  BY DEF Noted
<1> HIDE DEF fields, unknown
<1>4. CustomCompute(c).notes \subseteq fields
  BY <1>1, <1>2, TypesSold DEF CustomCompute, ComputeAccepted
<1>5. PredefinedCompute(c, strategy, unknown).notes \subseteq fields
  BY <1>1, <1>2 DEF PredefinedCompute
<1>6. NormalizeCompute(c, strategy).notes \subseteq fields
  BY <1>1, <1>2, <1>3, <1>4, <1>5 DEF NormalizeCompute, unknown
<1>7. QED
  BY <1>6 DEF fields

\* and on its shape, where neither a machine type nor a kind was asked for, just when no
\* type has the shape.
LEMMA ShapeNotes ==
  ASSUME NEW c, ComputeAccepted(c), NEW strategy \in Strategies, UsesLegacyMatching(c)
  PROVE  NormalizeCompute(c, strategy).notes \cap {"compute.vcpu", "compute.ram_gb"} # {}
           <=> Fits(MachineTypes, TypesOf(c.family), c.vcpu, c.ram) = {}
<1> DEFINE types == TypesOf(c.family)
           exact == Fits(MachineTypes, types, c.vcpu, c.ram)
           near == Snapped(MachineTypes, types, c.vcpu, c.ram, strategy)
<1>1. c.family \in Families /\ c.vcpu \in Nat /\ c.ram \in Nat /\ c.machineType = "none" /\ c.kind = "unset"
  BY DEF ComputeAccepted, UsesLegacyMatching
<1>2. ~Known(c.machineType)
  BY <1>1, CatalogAssumption DEF Known, Named
<1>3. NormalizeCompute(c, strategy) = PredefinedCompute(c, strategy, {})
  BY <1>1, <1>2 DEF NormalizeCompute, Noted
<1>4. CASE exact # {}
  <2>1. PredefinedCompute(c, strategy, {}) = Sized(First(MachineTypes, exact), "predefined", {})
    BY <1>4 DEF PredefinedCompute
  <2>2. QED
    BY <1>3, <1>4, <2>1 DEF Sized
<1>5. CASE exact = {}
  <2>1. PICK i \in types : near = MachineTypes[i]
    BY <1>1, SnapsInFamily
  <2>2. near.vcpu # c.vcpu \/ near.ram # c.ram
    BY <1>5, <2>1 DEF Fits
  <2>3. PredefinedCompute(c, strategy, {}) = Instead(near, c, "predefined", {})
    BY <1>5 DEF PredefinedCompute
  <2> HIDE DEF near
  <2>4. QED
    BY <1>3, <1>5, <2>2, <2>3 DEF Instead, Sized, Noted
<1>6. QED
  BY <1>4, <1>5

\* The notes of the normalization, part by part.
LEMMA NormalizedNotes ==
  ASSUME NEW r, Accepted(r)
  PROVE  LET notes == Normalize(r).notes
             ofShape == {"compute.vcpu", "compute.ram_gb"}
         IN /\ r.compute # Nothing =>
                 notes \cap ofShape = NormalizeCompute(r.compute, r.strategy).notes \cap ofShape
            /\ "storage.size_gb" \in notes
                 <=> r.storage # Nothing /\ DiskSize(r.storage.type, r.storage.size) # r.storage.size
            /\ "database.tier" \in notes =>
                 /\ r.database # Nothing /\ r.database.required
                 /\ Fits(Tiers, TiersFor(r.database.engine), r.database.vcpu, r.database.ram) = {}
            /\ "kubernetes.node_count" \in notes
                 <=> /\ r.kubernetes # Nothing /\ r.kubernetes.required /\ ~r.kubernetes.autopilot
                     /\ NodeCount(r.kubernetes) # r.kubernetes.nodes
<1> DEFINE n == Normalize(r)
           compute == IF r.compute # Nothing THEN NormalizeCompute(r.compute, r.strategy)
                      ELSE [machine |-> Nothing, notes |-> {}]
           disks == IF r.storage # Nothing THEN Disks(r.storage) ELSE <<>>
           database == IF r.database # Nothing /\ r.database.required
                       THEN NormalizeDatabase(r.database, r.strategy)
                       ELSE [tier |-> Nothing, notes |-> {}]
           nodes == IF r.kubernetes # Nothing /\ r.kubernetes.required THEN NodeCount(r.kubernetes)
                    ELSE Nothing
           machine == {"compute.vcpu", "compute.ram_gb", "compute.machine_type_kind",
                       "compute.machine_family", "compute.machine_type"}
<1>1. n = Specified(r, compute, disks, database, nodes)
  BY DEF Normalize
<1>2. compute.notes \subseteq machine
  BY MachineNotes DEF Accepted
<1>3. /\ database.notes \subseteq {"database.tier"}
      /\ "database.tier" \in database.notes =>
           /\ r.database # Nothing /\ r.database.required
           /\ Fits(Tiers, TiersFor(r.database.engine), r.database.vcpu, r.database.ram) = {}
  BY DEF NormalizeDatabase
<1>4. disks # <<>> <=> r.storage # Nothing
  BY BootDisk DEF Accepted
<1>5. r.storage # Nothing => disks[1] = DiskSize(r.storage.type, r.storage.size)
  BY BootDisk DEF Accepted
<1>6. nodes # Nothing <=> r.kubernetes # Nothing /\ r.kubernetes.required
  <2>1. ASSUME r.kubernetes # Nothing PROVE NodeCount(r.kubernetes) \in Int
    <3>1. r.kubernetes.nodes \in Int /\ MinNodes \in Int /\ MaxNodes \in Int /\ MinNodes <= MaxNodes
      BY <2>1, CatalogAssumption DEF Accepted, KubernetesAccepted
    <3>2. Clamped(r.kubernetes.nodes, MinNodes, MaxNodes) \in Int
      BY <3>1, OutOfRange
    <3>3. QED
      BY <3>2 DEF NodeCount
  <2>2. QED
    BY <2>1, CatalogAssumption
<1>7. n.notes = compute.notes \cup database.notes
                \cup Noted(disks # <<>> /\ disks[1] # r.storage.size, "storage.size_gb")
                \cup Noted(disks # <<>> /\ Tail(disks) # r.storage.extra, "storage.additional_disks")
                \cup Noted(nodes # Nothing /\ ~r.kubernetes.autopilot /\ nodes # r.kubernetes.nodes,
                           "kubernetes.node_count")
  <2> HIDE DEF n, compute, disks, database, nodes
  <2>1. QED
    BY <1>1 DEF Specified
<1>8. r.compute # Nothing => compute = NormalizeCompute(r.compute, r.strategy)
  OBVIOUS
<1>9. nodes # Nothing => nodes = NodeCount(r.kubernetes)
  OBVIOUS
<1> HIDE DEF n, compute, disks, database, nodes
<1>10. "storage.size_gb" \in n.notes
         <=> r.storage # Nothing /\ DiskSize(r.storage.type, r.storage.size) # r.storage.size
  BY <1>2, <1>3, <1>4, <1>5, <1>7 DEF Noted
<1>11. "kubernetes.node_count" \in n.notes
         <=> /\ r.kubernetes # Nothing /\ r.kubernetes.required /\ ~r.kubernetes.autopilot
             /\ NodeCount(r.kubernetes) # r.kubernetes.nodes
  BY <1>2, <1>3, <1>6, <1>7, <1>9 DEF Noted
<1>12. "database.tier" \in n.notes =>
         /\ r.database # Nothing /\ r.database.required
         /\ Fits(Tiers, TiersFor(r.database.engine), r.database.vcpu, r.database.ram) = {}
  BY <1>2, <1>3, <1>7 DEF Noted
<1>13. n.notes \cap {"compute.vcpu", "compute.ram_gb"} = compute.notes \cap {"compute.vcpu", "compute.ram_gb"}
  BY <1>3, <1>7 DEF Noted
<1>14. QED
  BY <1>8, <1>10, <1>11, <1>12, <1>13 DEF n

\* Validation and normalization agree, whatever the catalog: what is substituted has
\* been announced by a finding.
THEOREM Announced == ApiSpec => []SubstitutionsAnnounced
<1>1. Staged /\ AllAccepted => SubstitutionsAnnounced
  <2> SUFFICES ASSUME Staged, AllAccepted, stage = "done" PROVE SubstitutionsAnnounced
    BY DEF SubstitutionsAnnounced
  <2>1. Accepted(work) /\ found = Findings(work)
    BY WorkAccepted DEF Staged
  <2>2. noted \cap Compared = Normalize(work).notes \cap Compared
    <3>1. /\ Recommended(req).notes \cap Compared = {}
          /\ ServiceNotes(rest) \cap Compared = {}
      <4>1. Accepted(Recommended(req).work)
        BY WorkAccepted
      <4>2. rest = LeftOver(Recommended(req).work)
        BY DEF Staged
      <4>3. ServiceNotes(LeftOver(Recommended(req).work)) \cap Compared = {}
        BY <4>1, ServicesApart
      <4>4. QED
        BY <4>2, <4>3, RecommendedApart DEF Compared
    <3>2. noted = Recommended(req).notes \cup Normalize(work).notes \cup ServiceNotes(rest)
      BY DEF Staged
    <3>3. QED
      BY <3>1, <3>2
  <2>3. ASSUME Given("compute"), UsesLegacyMatching(work.compute)
        PROVE  noted \cap {"compute.vcpu", "compute.ram_gb"} # {}
                 <=> "compute.machine_family" \in {f.field : f \in ShapeFindings(work.compute) \cap found}
    <3> DEFINE c == work.compute
               exact == Fits(MachineTypes, TypesOf(c.family), c.vcpu, c.ram)
    <3>1. ComputeAccepted(c) /\ work.strategy \in Strategies /\ c # Nothing
      BY <2>1, <2>3 DEF Accepted, Given
    <3>2. noted \cap {"compute.vcpu", "compute.ram_gb"}
            = NormalizeCompute(c, work.strategy).notes \cap {"compute.vcpu", "compute.ram_gb"}
      BY <2>1, <2>2, <3>1, NormalizedNotes DEF Compared
    <3>3. noted \cap {"compute.vcpu", "compute.ram_gb"} # {} <=> exact = {}
      BY <2>3, <3>1, <3>2, ShapeNotes
    <3>4. ShapeFindings(c) \cap found = ShapeFindings(c)
      BY <2>1, <3>1 DEF Findings
    <3>5. "compute.machine_family" \in {f.field : f \in ShapeFindings(c)} <=> exact = {}
      <4>1. ShapeFindings(c)
              = Unless(\E i \in TypesOf(c.family) : MachineTypes[i].vcpu = c.vcpu, Warning("compute.vcpu"))
                \cup Unless(\E i \in TypesOf(c.family) : MachineTypes[i].ram = c.ram, Warning("compute.ram_gb"))
                \cup Unless(exact # {}, Warning("compute.machine_family"))
        BY <2>3 DEF ShapeFindings
      <4>2. \A ok, field : /\ \A f \in Unless(ok, Warning(field)) : f.field = field
                           /\ ~ok => [field |-> field, severity |-> "warning"] \in Unless(ok, Warning(field))
                           /\ ok => Unless(ok, Warning(field)) = {}
        BY DEF Unless, Warning
      <4>3. exact # {} => "compute.machine_family" \notin {f.field : f \in ShapeFindings(c)}
        BY <4>1, <4>2
      <4>4. exact = {} => [field |-> "compute.machine_family", severity |-> "warning"] \in ShapeFindings(c)
        BY <4>1, <4>2
      <4>5. [field |-> "compute.machine_family", severity |-> "warning"].field = "compute.machine_family"
        OBVIOUS
      <4> HIDE DEF c, exact
      <4>6. QED
        BY <4>3, <4>4, <4>5
    <3> HIDE DEF c, exact
    <3>6. QED
      BY <3>3, <3>4, <3>5 DEF c
  <2>4. "storage.size_gb" \in noted <=> "storage.size_gb" \in FieldsFound
    <3> DEFINE s == work.storage
    <3>1. s # Nothing =>
            (DiskSize(s.type, s.size) # s.size <=> ~(DiskMin[s.type] <= s.size /\ s.size <= DiskMax))
      <4> SUFFICES ASSUME s # Nothing
                   PROVE  DiskSize(s.type, s.size) # s.size <=> ~(DiskMin[s.type] <= s.size /\ s.size <= DiskMax)
        OBVIOUS
      <4>1. /\ s.size \in Int /\ DiskMin[s.type] \in Int /\ DiskMax \in Int /\ DiskMin[s.type] <= DiskMax
        BY <2>1, CatalogAssumption DEF Accepted, StorageAccepted
      <4>2. QED
        BY <4>1, OutOfRange DEF DiskSize
    <3>2. DiskFindings(s) # {} <=> ~(DiskMin[s.type] <= s.size /\ s.size <= DiskMax)
      BY DEF DiskFindings, Unless, Warning
    <3>3. "storage.size_gb" \in noted <=> s # Nothing /\ DiskSize(s.type, s.size) # s.size
      BY <2>1, <2>2, NormalizedNotes DEF Compared
    <3>4. "storage.size_gb" \in FieldsFound <=> s # Nothing /\ DiskFindings(s) # {}
      BY <2>1, FindingOf DEF FieldsFound
    <3>5. QED
      BY <3>1, <3>2, <3>3, <3>4
  <2>5. "database.tier" \in noted => "database.vcpu_ram" \in FieldsFound
    <3> DEFINE d == work.database
    <3> SUFFICES ASSUME "database.tier" \in noted PROVE "database.vcpu_ram" \in FieldsFound
      OBVIOUS
    <3>1. d # Nothing /\ d.required /\ Fits(Tiers, TiersFor(d.engine), d.vcpu, d.ram) = {}
      BY <2>1, <2>2, NormalizedNotes DEF Compared
    <3>2. DatabaseFindings(d) # {}
      BY <3>1 DEF DatabaseFindings, Unless, Warning
    <3>3. QED
      BY <2>1, <3>1, <3>2, FindingOf DEF FieldsFound
  <2>6. "kubernetes.node_count" \in noted <=> "kubernetes.node_count" \in FieldsFound
    <3> DEFINE k == work.kubernetes
    <3>1. k # Nothing /\ ~k.autopilot =>
            (NodeCount(k) # k.nodes <=> ~(MinNodes <= k.nodes /\ k.nodes <= MaxNodes))
      <4> SUFFICES ASSUME k # Nothing, ~k.autopilot
                   PROVE  NodeCount(k) # k.nodes <=> ~(MinNodes <= k.nodes /\ k.nodes <= MaxNodes)
        OBVIOUS
      <4>1. k.nodes \in Int /\ MinNodes \in Int /\ MaxNodes \in Int /\ MinNodes <= MaxNodes
        BY <2>1, CatalogAssumption DEF Accepted, KubernetesAccepted
      <4>2. QED
        BY <4>1, OutOfRange DEF NodeCount
    <3>2. KubernetesFindings(k) # {}
            <=> k.required /\ ~k.autopilot /\ ~(MinNodes <= k.nodes /\ k.nodes <= MaxNodes)
      BY DEF KubernetesFindings, Unless, Warning
    <3>3. "kubernetes.node_count" \in noted
            <=> k # Nothing /\ k.required /\ ~k.autopilot /\ NodeCount(k) # k.nodes
      BY <2>1, <2>2, NormalizedNotes DEF Compared
    <3>4. "kubernetes.node_count" \in FieldsFound <=> k # Nothing /\ KubernetesFindings(k) # {}
      BY <2>1, FindingOf DEF FieldsFound
    <3>5. QED
      BY <3>1, <3>2, <3>3, <3>4
  <2>7. QED
    BY <2>3, <2>4, <2>5, <2>6 DEF SubstitutionsAnnounced
<1>2. QED
  BY <1>1, Determined, PTL

-----------------------------------------------------------------------------
(* Rightsizing *)

\* Where one is sold that is large enough, performance selects such a value,
LEMMA PerformanceSelects ==
  ASSUME NEW requested \in Nat, NEW supported, supported \subseteq Nat,
         \E v \in supported : v >= requested
  PROVE  SelectValue(requested, supported, "performance") >= requested
<1> DEFINE higher == {v \in supported : v > requested}
<1>1. CASE requested \in supported
  BY <1>1 DEF SelectValue
<1>2. CASE requested \notin supported
  <2>1. higher # {} /\ higher \subseteq Nat
    <3>1. PICK v \in supported : v >= requested
      OBVIOUS
    <3>2. v \in Nat /\ v # requested
      BY <1>2
    <3>3. v \in higher
      BY <3>1, <3>2
    <3>4. QED
      BY <3>3
  <2>2. \E v \in higher : \A w \in higher : v <= w
    BY <2>1, Least
  <2>3. SelectValue(requested, supported, "performance") = CHOOSE v \in higher : \A w \in higher : v <= w
    BY <1>2, <2>1 DEF SelectValue
  <2>4. SelectValue(requested, supported, "performance") \in higher
    BY <2>2, <2>3
  <2>5. \A v \in higher : v >= requested
    <3>1. ASSUME NEW v \in higher PROVE v >= requested
      <4>1. v \in Nat /\ v > requested
        OBVIOUS
      <4>2. QED
        BY <4>1
    <3>2. QED
      BY <3>1
  <2> HIDE DEF higher
  <2>6. QED
    BY <2>4, <2>5
<1>3. QED
  BY <1>1, <1>2

\* so a shape snaps to a machine with no fewer vCPUs.
LEMMA PerformanceSuffices ==
  ASSUME NEW c, ComputeAccepted(c), UsesLegacyMatching(c),
         \E i \in TypesOf(c.family) : MachineTypes[i].vcpu >= c.vcpu
  PROVE  NormalizeCompute(c, "performance").machine.vcpu >= c.vcpu
<1> DEFINE types == TypesOf(c.family)
           exact == Fits(MachineTypes, types, c.vcpu, c.ram)
           near == Snapped(MachineTypes, types, c.vcpu, c.ram, "performance")
           sold == {MachineTypes[i].vcpu : i \in types}
<1>1. c.family \in Families /\ c.vcpu \in Nat /\ c.ram \in Nat /\ c.machineType = "none" /\ c.kind = "unset"
  BY DEF ComputeAccepted, UsesLegacyMatching
<1>2. ~Known(c.machineType)
  BY <1>1, CatalogAssumption DEF Known, Named
<1>3. NormalizeCompute(c, "performance") = PredefinedCompute(c, "performance", {})
  BY <1>1, <1>2 DEF NormalizeCompute, Noted
<1>4. CASE exact # {}
  <2>1. exact \subseteq Nat
    BY <1>1, TypesSold DEF Fits
  <2>2. PICK i \in exact : First(MachineTypes, exact) = MachineTypes[i]
    BY <1>4, <2>1, FirstIn
  <2>3. MachineTypes[i].vcpu = c.vcpu
    BY DEF Fits
  <2>4. PredefinedCompute(c, "performance", {}).machine.vcpu = MachineTypes[i].vcpu
    BY <1>4, <2>2 DEF PredefinedCompute, Sized
  <2>5. QED
    BY <1>1, <1>3, <2>3, <2>4
<1>5. CASE exact = {}
  <2>1. sold \subseteq Nat /\ \E v \in sold : v >= c.vcpu
    BY <1>1, TypesSold
  <2> HIDE DEF sold
  <2>2. SelectValue(c.vcpu, sold, "performance") >= c.vcpu
    BY <1>1, <2>1, PerformanceSelects
  <2>3. VcpuSelected(MachineTypes, types, c.vcpu, "performance") >= c.vcpu
    BY <2>2 DEF VcpuSelected, sold
  <2>4. near.vcpu = VcpuSelected(MachineTypes, types, c.vcpu, "performance")
    BY <1>1, SnapsInFamily DEF Strategies
  <2>5. PredefinedCompute(c, "performance", {}) = Instead(near, c, "predefined", {})
    BY <1>5 DEF PredefinedCompute
  <2>6. PredefinedCompute(c, "performance", {}).machine.vcpu = near.vcpu
    <3> HIDE DEF near
    <3>1. QED
      BY <2>5 DEF Instead, Sized
  <2>7. QED
    BY <1>3, <2>3, <2>4, <2>6
<1>6. QED
  BY <1>4, <1>5

\* The larger factor has the larger product,
LEMMA ProductGrows == \A x, y, z \in Nat : y <= z => x * y <= x * z
OBVIOUS

\* a quotient rounded up is not too small,
LEMMA RoundedUp == \A n \in Nat : 65 * (-((-n) \div 65)) >= n
OBVIOUS

\* so the size that an upsize aims at carries the peak.
LEMMA TargetCarries ==
  ASSUME NEW current, current.vcpu \in Nat, NEW usage \in Usages
  PROVE  TargetPeak * TargetSize(current, usage, "upsize").vcpu >= current.vcpu * usage.peak
<1> DEFINE ratio == IF usage.ramUse = Nothing THEN usage.peak ELSE AtLeast(usage.peak, usage.ramUse)
           vcpu == current.vcpu * ratio
           up == -((-vcpu) \div TargetPeak)
<1>1. usage.peak \in Nat /\ ratio \in Nat /\ usage.peak <= ratio
  BY AdviceAssumption DEF AtLeast
<1>2. vcpu \in Nat /\ current.vcpu * usage.peak \in Nat /\ current.vcpu * usage.peak <= vcpu
  <2>1. \A x, y \in Nat : x * y \in Nat
    OBVIOUS
  <2> HIDE DEF ratio
  <2>2. QED
    BY <1>1, <2>1, ProductGrows
<1>3. up \in Int /\ 65 * up >= vcpu
  <2> HIDE DEF vcpu
  <2>1. -((-vcpu) \div 65) \in Int
    BY <1>2
  <2>2. QED
    BY <1>2, <2>1, RoundedUp DEF TargetPeak
<1>4. TargetSize(current, usage, "upsize").vcpu = AtLeast(up, 1)
  BY DEF TargetSize
<1> HIDE DEF up, vcpu
<1>5. AtLeast(up, 1) \in Int /\ AtLeast(up, 1) >= up
  BY <1>3 DEF AtLeast
<1>6. QED
  BY <1>2, <1>3, <1>4, <1>5 DEF TargetPeak

\* A rightsizing request knows what it asked for, and what it answers is AdviceFits.
Advised ==
  /\ Asks("rightsizing", "current") \/ Asks("rightsizing", "resized") =>
       /\ {"kind", "pc", "of", "usage", "action", "current", "target", "advised", "savings"}
            \subseteq DOMAIN advice
       /\ advice.of \in Analysed /\ advice.of.compute # Nothing /\ advice.usage \in Usages
  /\ Asks("rightsizing", "current") => req = [advice.of EXCEPT !.term = 0]
  /\ Asks("rightsizing", "resized") =>
       /\ advice.current.vcpu \in Nat
       /\ advice.target.vcpu \in Nat \ {0} /\ advice.target.ram \in Nat \ {0}
       /\ advice.action = "upsize" =>
            TargetPeak * advice.target.vcpu >= advice.current.vcpu * advice.usage.peak
       /\ req = Resized([advice.of EXCEPT !.term = 0], advice.target)
  /\ AdviceFits

\* A resized requirement asks for the shape it was resized to.
LEMMA ResizedAsks ==
  ASSUME NEW r \in Analysed, r.compute # Nothing, NEW size, size.vcpu \in Nat, size.ram \in Nat, NEW term
  PROVE  LET e == Resized([r EXCEPT !.term = term], size)
         IN /\ e.compute.vcpu = size.vcpu /\ e.compute.ram = size.ram /\ UsesLegacyMatching(e.compute)
            /\ e.compute.family = r.compute.family /\ e.strategy = r.strategy
            /\ e.compute # Nothing
<1> DEFINE c == [r.compute EXCEPT !.machineType = "none", !.kind = "unset", !.vcpu = size.vcpu,
                                  !.ram = size.ram]
           e == Resized([r EXCEPT !.term = term], size)
<1>0. Accepted(r)
  BY AdviceAssumption
<1>1. c.vcpu = size.vcpu /\ c.ram = size.ram /\ UsesLegacyMatching(c) /\ c.family = r.compute.family
  BY <1>0 DEF Accepted, ComputeAccepted, UsesLegacyMatching
<1>2. e.compute = c /\ e.strategy = r.strategy
  BY <1>0 DEF Resized, Accepted, Sections
<1>3. c # Nothing
  <2>1. c \in [DOMAIN r.compute -> Range(r.compute) \cup Nat \cup {"none", "unset"}]
    BY DEF Range
  <2> HIDE DEF c
  <2>2. QED
    BY <2>1, AdviceAssumption
<1> HIDE DEF c, e
<1>4. QED
  BY <1>1, <1>2, <1>3 DEF e

\* The resized estimate's machine is the answer.
LEMMA ResizedFits ==
  ASSUME Staged, AllAccepted, Advised, WeighResized
  PROVE  AdviceFits'
<1> DEFINE r == advice.of
           sold == \E i \in TypesOf(r.compute.family) : MachineTypes[i].vcpu >= advice.target.vcpu
<1>1. /\ Asks("rightsizing", "resized") /\ stage = "done"
      /\ advice' = [[advice EXCEPT !.advised = spec.compute, !.savings = @ - ComputeMonthly]
                    EXCEPT !.pc = "answered"]
  BY DEF WeighResized, Answered
<1>2. /\ {"kind", "pc", "of", "usage", "action", "current", "target", "advised", "savings"}
           \subseteq DOMAIN advice
      /\ r \in Analysed /\ r.compute # Nothing /\ advice.usage \in Usages
      /\ advice.current.vcpu \in Nat
      /\ advice.target.vcpu \in Nat \ {0} /\ advice.target.ram \in Nat \ {0}
      /\ advice.action = "upsize" =>
           TargetPeak * advice.target.vcpu >= advice.current.vcpu * advice.usage.peak
      /\ req = Resized([r EXCEPT !.term = 0], advice.target)
  BY <1>1 DEF Advised
<1>3. /\ advice'.of = r /\ advice'.action = advice.action /\ advice'.target = advice.target
      /\ advice'.current = advice.current /\ advice'.usage = advice.usage /\ advice'.advised = spec.compute
  BY <1>1, <1>2
<1>4. /\ req.compute # Nothing /\ req.compute.vcpu = advice.target.vcpu /\ UsesLegacyMatching(req.compute)
      /\ req.compute.family = r.compute.family /\ req.strategy = r.strategy
  BY <1>2, ResizedAsks
<1>5. /\ Accepted(work) /\ work.compute = req.compute /\ work.strategy = req.strategy /\ req.compute # Nothing
      /\ spec.compute = NormalizeCompute(req.compute, req.strategy).machine
  <2>2. Recommended(req).work = req
    BY <1>4 DEF Recommended
  <2>3. Accepted(work) /\ work = Bridged(req) /\ Readable(req) /\ Accepted(req) /\ spec = Normalize(work).spec
    BY <1>1, <2>2, WorkAccepted
  <2>4. work.compute = req.compute /\ work.strategy = req.strategy
    BY <2>3, BridgedAccepted
  <2>5. QED
    BY <1>4, <2>3, <2>4, SpecificationExplained
<1>6. ComputeAccepted(req.compute)
  BY <1>5 DEF Accepted
<1>7. ASSUME advice.action = "upsize", r.strategy = "performance", sold
      PROVE  TargetPeak * spec.compute.vcpu >= advice.current.vcpu * advice.usage.peak
  <2>1. spec.compute.vcpu >= advice.target.vcpu
    BY <1>4, <1>5, <1>6, <1>7, PerformanceSuffices
  <2>2. spec.compute.vcpu \in Nat
    <3>1. Bought(req.compute, NormalizeCompute(req.compute, req.strategy))
      BY <1>4, <1>6, <1>7, ComputeBought DEF Strategies
    <3>2. QED
      BY <1>5, <3>1 DEF Bought
  <2>3. advice.usage.peak \in Nat /\ advice.current.vcpu * advice.usage.peak \in Int
    BY <1>2, AdviceAssumption, Product
  <2>4. TargetPeak * advice.target.vcpu >= advice.current.vcpu * advice.usage.peak
    BY <1>2, <1>7
  <2>5. QED
    BY <1>2, <2>1, <2>2, <2>3, <2>4 DEF TargetPeak
<1>8. QED
  BY <1>3, <1>7 DEF AdviceFits

\* A rightsizing request that is weighed is answered or priced again at the target.
LEMMA CurrentAdvised ==
  ASSUME Staged, AllAccepted, Advised, WeighCurrent
  PROVE  Advised'
<1> DEFINE r == advice.of
           size == TargetSize(spec.compute, advice.usage, advice.action)
           weighed == [advice EXCEPT !.current = spec.compute, !.target = size, !.savings = ComputeMonthly]
<1>1. /\ Asks("rightsizing", "current") /\ stage = "done"
      /\ {"kind", "pc", "of", "usage", "action", "current", "target", "advised", "savings"}
           \subseteq DOMAIN advice
      /\ r \in Analysed /\ r.compute # Nothing /\ advice.usage \in Usages
      /\ req = [r EXCEPT !.term = 0]
  BY DEF WeighCurrent, Advised
<1>2. \/ advice.action = "terminate" /\ Answered(weighed)
      \/ Answered([weighed EXCEPT !.action = "keep", !.advised = spec.compute, !.savings = 0])
      \/ advice' = [weighed EXCEPT !.pc = "resized"] /\ Another(Resized(req, size))
  BY DEF WeighCurrent
<1>3. spec.compute.vcpu \in Nat /\ spec.compute.ram \in Int
  <2>1. req.compute # Nothing
    BY <1>1 DEF AllAccepted
  <2>2. /\ Accepted(work) /\ work.compute # Nothing
        /\ spec.compute = NormalizeCompute(work.compute, work.strategy).machine
    BY <1>1, <2>1, WorkAccepted, SpecificationExplained
  <2>3. ComputeAccepted(work.compute) /\ work.strategy \in Strategies
    BY <2>2 DEF Accepted
  <2>4. QED
    BY <2>2, <2>3, ComputeBought DEF Bought
<1>4. /\ size.vcpu \in Nat \ {0} /\ size.ram \in Nat \ {0}
      /\ advice.action = "upsize" => TargetPeak * size.vcpu >= spec.compute.vcpu * advice.usage.peak
  BY <1>1, <1>3, TargetSizeAccepted, TargetCarries
<1> HIDE DEF size
<1>5. CASE advice.action = "terminate" /\ Answered(weighed)
  <2>1. advice'.pc = "answered" /\ advice'.action = "terminate"
    BY <1>1, <1>5 DEF Answered
  <2>2. QED
    BY <2>1 DEF Advised, Asks, AdviceFits
<1>6. CASE Answered([weighed EXCEPT !.action = "keep", !.advised = spec.compute, !.savings = 0])
  <2>1. advice'.pc = "answered" /\ advice'.action = "keep"
    BY <1>1, <1>6 DEF Answered
  <2>2. QED
    BY <2>1 DEF Advised, Asks, AdviceFits
<1>7. CASE advice' = [weighed EXCEPT !.pc = "resized"] /\ Another(Resized(req, size))
  <2>1. /\ DOMAIN advice' = DOMAIN advice /\ advice'.pc = "resized" /\ advice'.of = r
        /\ advice'.usage = advice.usage /\ advice'.action = advice.action
        /\ advice'.current = spec.compute /\ advice'.target = size
    BY <1>1, <1>7
  <2>2. req' = Resized([r EXCEPT !.term = 0], size)
    BY <1>1, <1>7 DEF Another
  <2>3. QED
    BY <1>1, <1>3, <1>4, <2>1, <2>2 DEF Advised, Asks, AdviceFits
<1>8. QED
  BY <1>2, <1>5, <1>6, <1>7

\* A step of the API keeps what a rightsizing request knows.
LEMMA AdvisedStep ==
  ASSUME Staged, AllAccepted, Advised, [ApiNext]_apiVars
  PROVE  Advised'
<1>1. CASE UNCHANGED <<req, advice>>
  BY <1>1 DEF Advised, Asks, AdviceFits
<1>2. CASE UNCHANGED advice /\ advice = Nothing
  BY <1>2 DEF Advised, Asks, AdviceFits
<1>3. CASE UNCHANGED apiVars
  BY <1>1, <1>3 DEF apiVars, vars
<1>4. CASE Estimating
  BY <1>2, <1>4 DEF Estimating
<1>5. CASE Working
  <2>1. UNCHANGED <<req, advice>>
    BY <1>5 DEF Working, Recommend, Bridge, BridgeRaises, Validate, NormalizeSpec, PriceAll,
                PricingFormRaises, PriceFails
  <2>2. QED
    BY <1>1, <2>1
<1>6. CASE TakingIn
  BY <1>2, <1>6 DEF TakingIn
  \* Nobody but a rightsizing request that is not answered yet knows anything.
<1>7. ASSUME advice' # Nothing => advice'.kind # "rightsizing"
      PROVE  Advised'
  BY <1>7 DEF Advised, Asks, AdviceFits
<1>8. CASE AskRightsizing
  <2>1. PICK r \in Analysed, usage \in Usages :
          IF r.compute = Nothing
          THEN advice' = [kind |-> "refused", pc |-> "answered"] /\ UNCHANGED vars
          ELSE /\ advice' = [kind |-> "rightsizing", pc |-> "current", of |-> r, usage |-> usage,
                             action |-> Action(usage), current |-> Nothing, target |-> Nothing,
                             advised |-> Nothing, savings |-> 0]
               /\ Start([r EXCEPT !.term = 0])
    BY <1>8 DEF AskRightsizing
  <2>2. CASE r.compute = Nothing
    BY <1>7, <2>1, <2>2
  <2>3. CASE r.compute # Nothing
    <3>1. req' = [r EXCEPT !.term = 0]
      BY <2>1, <2>3 DEF Start
    <3>2. QED
      BY <2>1, <2>3, <3>1 DEF Advised, Asks, AdviceFits
  <2>4. QED
    BY <2>2, <2>3
<1>9. CASE AskCommitment
  BY <1>7, <1>9 DEF AskCommitment
<1>10. CASE WeighCurrent
  BY <1>10, CurrentAdvised
<1>11. CASE WeighResized
  <2>1. AdviceFits'
    BY <1>11, ResizedFits
  <2>2. advice'.pc = "answered"
    <3>1. {"pc"} \subseteq DOMAIN advice
      BY <1>11 DEF WeighResized, Advised
    <3>2. QED
      BY <1>11, <3>1 DEF WeighResized, Answered
  <2>3. QED
    BY <2>1, <2>2 DEF Advised, Asks
<1>12. CASE WeighTerm
  <2>1. advice'.kind = "commitment"
    <3>1. advice.kind = "commitment" /\ {"kind", "pc"} \subseteq DOMAIN advice
      BY <1>12 DEF WeighTerm, Asks, AllAccepted
    <3>2. QED
      BY <1>12, <3>1 DEF WeighTerm, Answered
  <2>2. QED
    BY <1>7, <2>1
<1>13. CASE AdviceFails
  BY <1>7, <1>13 DEF AdviceFails
<1>14. CASE AdviceLeaves
  BY <1>7, <1>14 DEF AdviceLeaves
<1>15. QED
  BY <1>3, <1>4, <1>5, <1>6, <1>8, <1>9, <1>10, <1>11, <1>12, <1>13, <1>14
     DEF ApiNext, Advising, Advise, Ask

\* Whatever the catalog and the measurements, an upsize ends the shortage it was
\* advised for, under the strategy and the stock that AdviceFits names.
THEOREM Carries == ApiSpec => []AdviceFits
<1>1. ApiInit => Advised
  BY DEF ApiInit, Advised, Asks, AdviceFits
<1>2. Staged /\ AllAccepted /\ Advised /\ [ApiNext]_apiVars => Advised'
  BY AdvisedStep
<1>3. Advised => AdviceFits
  BY DEF Advised
<1>4. QED
  BY <1>1, <1>2, <1>3, Determined, PTL DEF ApiSpec

-----------------------------------------------------------------------------
(* What is read *)

\* A workbook's values are those of its known, filled-in cells that hold what their
\* field takes; a warning names each of the others.
LEMMA TakingReads ==
  ASSUME NEW cells, NEW blanks
  PROVE  LET taken == Taking(cells, blanks)
         IN /\ DOMAIN taken.sections = DOMAIN FieldSchema
            /\ \A s \in DOMAIN FieldSchema : \A f \in DOMAIN taken.sections[s] :
                 /\ s \in DOMAIN cells /\ f \in DOMAIN cells[s] /\ f \in DOMAIN FieldSchema[s]
                 /\ cells[s][f].kind \notin blanks /\ Coercible(cells[s][f], FieldSchema[s][f])
                 /\ taken.sections[s][f] = Coerced(cells[s][f], FieldSchema[s][f])
            /\ \A s \in DOMAIN cells \cap DOMAIN FieldSchema : \A f \in DOMAIN cells[s] :
                 f \in DOMAIN FieldSchema[s] /\ cells[s][f].kind \notin blanks =>
                   f \in DOMAIN taken.sections[s] \/ Issue("warning", s, f) \in taken.issues
<1> DEFINE good == {e \in Entries(cells, blanks) : Coercible(cells[e[1]][e[2]], FieldSchema[e[1]][e[2]])}
           of(s) == {e[2] : e \in {d \in good : d[1] = s}}
           taken == Taking(cells, blanks)
<1>1. /\ taken.sections = [s \in DOMAIN FieldSchema |-> [f \in of(s) |-> Coerced(cells[s][f], FieldSchema[s][f])]]
      /\ taken.issues = {Issue("warning", e[1], e[2]) : e \in Entries(cells, blanks) \ good}
  BY DEF Taking
<1>2. ASSUME NEW s \in DOMAIN FieldSchema, NEW f \in of(s)
      PROVE  /\ s \in DOMAIN cells /\ f \in DOMAIN cells[s] /\ f \in DOMAIN FieldSchema[s]
             /\ cells[s][f].kind \notin blanks /\ Coercible(cells[s][f], FieldSchema[s][f])
  <2>1. PICK e \in good : e[1] = s /\ e[2] = f
    OBVIOUS
  <2>2. PICK t \in DOMAIN cells : e \in {t} \X DOMAIN cells[t]
    BY DEF Entries
  <2>3. e[1] = t /\ e[2] \in DOMAIN cells[t]
    BY <2>2
  <2>4. e[2] \in DOMAIN FieldSchema[e[1]] /\ cells[e[1]][e[2]].kind \notin blanks
    BY DEF Entries
  <2>5. QED
    BY <2>1, <2>3, <2>4
<1>3. ASSUME NEW s \in DOMAIN cells \cap DOMAIN FieldSchema, NEW f \in DOMAIN cells[s],
             f \in DOMAIN FieldSchema[s], cells[s][f].kind \notin blanks
      PROVE  f \in of(s) \/ Issue("warning", s, f) \in taken.issues
  <2> DEFINE e == <<s, f>>
  <2>1. e \in {s} \X DOMAIN cells[s] /\ e[1] = s /\ e[2] = f
    OBVIOUS
  <2>2. e \in Entries(cells, blanks)
    BY <1>3, <2>1 DEF Entries
  <2> HIDE DEF e
  <2>3. CASE Coercible(cells[s][f], FieldSchema[s][f])
    <3>1. e \in good
      BY <2>1, <2>2, <2>3
    <3>2. QED
      BY <2>1, <3>1
  <2>4. CASE ~Coercible(cells[s][f], FieldSchema[s][f])
    <3>1. e \in Entries(cells, blanks) \ good
      BY <2>1, <2>2, <2>4
    <3>2. Issue("warning", e[1], e[2]) \in taken.issues
      BY <1>1, <3>1
    <3>3. QED
      BY <2>1, <3>2
  <2>5. QED
    BY <2>3, <2>4
<1> HIDE DEF taken, of
<1>4. QED
  BY <1>1, <1>2, <1>3 DEF taken

\* Every field of the questionnaire has a default.
LEMMA FieldsDefaulted ==
  /\ DOMAIN Defaults = SectionKeys /\ SectionKeys = DOMAIN FieldSchema \ {"top"}
  /\ DOMAIN FieldSchema.top = {"name", "region", "strategy"}
  /\ \A s \in SectionKeys : DOMAIN FieldSchema[s] \subseteq DOMAIN Defaults[s]
<1>1. DOMAIN Defaults = SectionKeys
  BY DEF SectionKeys, FieldSchema, Defaults
<1>2. DOMAIN FieldSchema.top = {"name", "region", "strategy"} /\ SectionKeys = DOMAIN FieldSchema \ {"top"}
  BY DEF FieldSchema, SectionKeys
<1>3. /\ DOMAIN FieldSchema.compute \subseteq DOMAIN Defaults.compute
      /\ DOMAIN FieldSchema.storage \subseteq DOMAIN Defaults.storage
      /\ DOMAIN FieldSchema.network \subseteq DOMAIN Defaults.network
      /\ DOMAIN FieldSchema.availability \subseteq DOMAIN Defaults.availability
      /\ DOMAIN FieldSchema.business \subseteq DOMAIN Defaults.business
  BY DEF FieldSchema, Defaults, DefaultCompute, DefaultNetwork, AsStorage
<1>4. /\ DOMAIN FieldSchema.database \subseteq DOMAIN Defaults.database
      /\ DOMAIN FieldSchema.kubernetes \subseteq DOMAIN Defaults.kubernetes
  BY DEF FieldSchema, Defaults, AsDatabase, AsKubernetes
<1>5. SectionKeys = {"compute", "storage", "database", "network", "kubernetes", "availability", "business"}
  BY DEF SectionKeys, FieldSchema
<1>6. QED
  BY <1>1, <1>2, <1>3, <1>4, <1>5

\* Each section of what is built is refused, or has its values over its defaults.
LEMMA BuiltSections ==
  ASSUME NEW sections, DOMAIN sections = DOMAIN FieldSchema
  PROVE  LET built == Build(sections)
         IN /\ \A s \in SectionKeys :
                 \/ sections[s] = <<>> /\ built.requirement[s] = Nothing
                 \/ /\ sections[s] # <<>> /\ built.requirement[s] = Nothing
                    /\ Issue("blocker", s, "section") \in built.issues
                 \/ /\ sections[s] # <<>>
                    /\ built.requirement[s] = WithDefaults(sections[s], Defaults[s])
            /\ \A f \in {"region", "strategy"} \cap DOMAIN sections.top :
                 built.requirement[f] = sections.top[f]
<1> DEFINE refused == {s \in SectionKeys : sections[s] # <<>> /\ ~Accepts(s, sections[s])}
           section(s) == IF sections[s] = <<>> \/ s \in refused THEN Nothing
                         ELSE WithDefaults(sections[s], Defaults[s])
           top == WithDefaults(sections.top, [region |-> DefaultRegion, strategy |-> "balanced"])
           requirement ==
             [compute |-> section("compute"), storage |-> section("storage"), database |-> section("database"),
              network |-> section("network"), kubernetes |-> section("kubernetes"),
              availability |-> section("availability"), business |-> section("business"),
              region |-> top.region, strategy |-> top.strategy, force |-> FALSE, term |-> 0, selected |-> <<>>]
           issues == {Issue("blocker", s, "section") : s \in refused}
                     \cup (IF "name" \in DOMAIN sections.top THEN {} ELSE {Issue("warning", "top", "name")})
<1>1. Build(sections) = [requirement |-> requirement, issues |-> issues]
  BY DEF Build
<1>2. SectionKeys = {"compute", "storage", "database", "network", "kubernetes", "availability", "business"}
  BY DEF SectionKeys, FieldSchema
<1>3. \A f \in {"region", "strategy"} \cap DOMAIN sections.top : top[f] = sections.top[f]
  BY DEF WithDefaults
<1>4. \A s \in refused : Issue("blocker", s, "section") \in issues
  OBVIOUS
<1>5. \A s \in SectionKeys : section(s) = Nothing \/ section(s) = WithDefaults(sections[s], Defaults[s])
  OBVIOUS
<1>6. \A s \in SectionKeys : \/ sections[s] = <<>> /\ section(s) = Nothing
                             \/ sections[s] # <<>> /\ s \in refused /\ section(s) = Nothing
                             \/ sections[s] # <<>> /\ section(s) = WithDefaults(sections[s], Defaults[s])
  OBVIOUS
<1> HIDE DEF refused, section, top, issues
<1>7. \A s \in SectionKeys : requirement[s] = section(s)
  BY <1>2
<1>8. requirement.region = top.region /\ requirement.strategy = top.strategy
  OBVIOUS
<1>9. \A f \in {"region", "strategy"} \cap DOMAIN sections.top : requirement[f] = sections.top[f]
  BY <1>3, <1>8
<1> HIDE DEF requirement
<1>10. QED
  BY <1>1, <1>4, <1>6, <1>7, <1>9

\* What is built from a workbook accounts for every entry of it.
LEMMA ReadAccounted ==
  ASSUME NEW cells, NEW blanks, Legible(cells, blanks), Something(cells, blanks), NEW issues,
         Build(Taking(cells, blanks).sections).issues \subseteq issues,
         Taking(cells, blanks).issues \subseteq issues
  PROVE  /\ EntriesAccounted(Build(Taking(cells, blanks).sections).requirement, cells, blanks, issues)
         /\ Build(Taking(cells, blanks).sections).requirement # Nothing
<1> DEFINE taken == Taking(cells, blanks)
           r == Build(taken.sections).requirement
<1>1. /\ DOMAIN taken.sections = DOMAIN FieldSchema
      /\ \A s \in DOMAIN FieldSchema : \A f \in DOMAIN taken.sections[s] :
           /\ s \in DOMAIN cells /\ f \in DOMAIN cells[s] /\ f \in DOMAIN FieldSchema[s]
           /\ cells[s][f].kind \notin blanks /\ Coercible(cells[s][f], FieldSchema[s][f])
           /\ taken.sections[s][f] = Coerced(cells[s][f], FieldSchema[s][f])
      /\ \A s \in DOMAIN cells \cap DOMAIN FieldSchema : \A f \in DOMAIN cells[s] :
           f \in DOMAIN FieldSchema[s] /\ cells[s][f].kind \notin blanks =>
             f \in DOMAIN taken.sections[s] \/ Issue("warning", s, f) \in taken.issues
  BY TakingReads
<1>2. /\ \A s \in SectionKeys :
           \/ taken.sections[s] = <<>> /\ r[s] = Nothing
           \/ /\ taken.sections[s] # <<>> /\ r[s] = Nothing
              /\ Issue("blocker", s, "section") \in issues
           \/ /\ taken.sections[s] # <<>>
              /\ r[s] = WithDefaults(taken.sections[s], Defaults[s])
      /\ \A f \in {"region", "strategy"} \cap DOMAIN taken.sections.top : r[f] = taken.sections.top[f]
  BY <1>1, BuiltSections
<1>3. /\ r # Nothing
      /\ \A s \in SectionKeys : WithDefaults(taken.sections[s], Defaults[s]) # Nothing
  BY DEF Something
<1>4. taken.issues \subseteq issues
  OBVIOUS
<1>5. DOMAIN cells \subseteq DOMAIN FieldSchema
  BY DEF Legible
<1>6. FieldSchema.top.region.type = "enum" /\ FieldSchema.top.strategy.type = "enum"
  BY DEF FieldSchema, OneOf
<1>7. /\ DOMAIN FieldSchema.top = {"name", "region", "strategy"}
      /\ SectionKeys = DOMAIN FieldSchema \ {"top"} /\ DOMAIN Defaults = SectionKeys
      /\ \A s \in SectionKeys : DOMAIN FieldSchema[s] \subseteq DOMAIN Defaults[s]
  BY FieldsDefaulted
<1>8. "top" \in DOMAIN FieldSchema
  BY DEF FieldSchema
<1> HIDE DEF taken, r
<1>9. ASSUME NEW s \in DOMAIN cells, NEW f \in DOMAIN cells[s],
             f \in DOMAIN FieldSchema[s], cells[s][f].kind \notin blanks
      PROVE  \/ s = "top" /\ f = "name"
             \/ Issue("warning", s, f) \in issues \/ Issue("blocker", s, "section") \in issues
             \/ s = "top" /\ r[f] = cells.top[f].value
             \/ s # "top" /\ r[s] # Nothing /\ r[s][f] = Coerced(cells[s][f], FieldSchema[s][f])
  <2>1. CASE f \notin DOMAIN taken.sections[s]
    <3>1. Issue("warning", s, f) \in taken.issues
      BY <1>1, <1>5, <1>9, <2>1
    <3>2. QED
      BY <1>4, <3>1
  <2>2. CASE f \in DOMAIN taken.sections[s] /\ s = "top"
    <3>1. f \in {"name", "region", "strategy"}
      BY <1>7, <1>9, <2>2
    <3>2. taken.sections.top[f] = Coerced(cells.top[f], FieldSchema.top[f])
      BY <1>1, <1>8, <2>2
    <3>3. f \in {"region", "strategy"} => Coerced(cells.top[f], FieldSchema.top[f]) = cells.top[f].value
      BY <1>6 DEF Coerced
    <3>4. QED
      BY <1>2, <2>2, <3>1, <3>2, <3>3
  <2>3. CASE f \in DOMAIN taken.sections[s] /\ s # "top"
    <3>1. s \in SectionKeys /\ f \in DOMAIN Defaults[s]
      BY <1>5, <1>7, <1>9, <2>3
    <3>2. taken.sections[s] # <<>>
      <4>1. DOMAIN <<>> = {}
        OBVIOUS
      <4>2. QED
        BY <2>3, <4>1
    <3>3. CASE r[s] = WithDefaults(taken.sections[s], Defaults[s])
      <4>1. r[s][f] = taken.sections[s][f]
        BY <2>3, <3>1, <3>3 DEF WithDefaults
      <4>2. taken.sections[s][f] = Coerced(cells[s][f], FieldSchema[s][f])
        BY <1>1, <1>5, <2>3
      <4>3. r[s] # Nothing
        BY <1>3, <3>1, <3>3
      <4>4. QED
        BY <2>3, <4>1, <4>2, <4>3
    <3>4. QED
      BY <1>2, <3>1, <3>2, <3>3
  <2>4. QED
    BY <2>1, <2>2, <2>3
<1>10. ASSUME NEW s \in SectionKeys, NEW f \in DOMAIN Defaults[s], r[s] # Nothing, r[s][f] # Defaults[s][f]
       PROVE  /\ s \in DOMAIN cells /\ f \in DOMAIN cells[s]
              /\ f \in DOMAIN FieldSchema[s] /\ cells[s][f].kind \notin blanks
  <2>1. r[s] = WithDefaults(taken.sections[s], Defaults[s])
    BY <1>2, <1>10
  <2>2. f \in DOMAIN taken.sections[s]
    BY <1>10, <2>1 DEF WithDefaults
  <2>3. s \in DOMAIN FieldSchema
    BY <1>7
  <2>4. QED
    BY <1>1, <2>2, <2>3
<1> DEFINE all == UNION {{s} \X DOMAIN cells[s] : s \in DOMAIN cells}
           entered == {e \in all : e[2] \in DOMAIN FieldSchema[e[1]] /\ cells[e[1]][e[2]].kind \notin blanks}
<1>11. \A e \in all : e = <<e[1], e[2]>> /\ e[1] \in DOMAIN cells /\ e[2] \in DOMAIN cells[e[1]]
  OBVIOUS
<1>12. ASSUME NEW e \in entered
       PROVE  \/ e = <<"top", "name">>
              \/ Issue("warning", e[1], e[2]) \in issues \/ Issue("blocker", e[1], "section") \in issues
              \/ IF e[1] = "top" THEN r[e[2]] = cells.top[e[2]].value
                 ELSE /\ r[e[1]] # Nothing
                      /\ r[e[1]][e[2]] = Coerced(cells[e[1]][e[2]], FieldSchema[e[1]][e[2]])
  <2>1. /\ e = <<e[1], e[2]>> /\ e[1] \in DOMAIN cells /\ e[2] \in DOMAIN cells[e[1]]
        /\ e[2] \in DOMAIN FieldSchema[e[1]] /\ cells[e[1]][e[2]].kind \notin blanks
    BY <1>11
  <2> DEFINE s == e[1]
             f == e[2]
  <2>2. e = <<s, f>>
    BY <2>1
  <2>3. \/ s = "top" /\ f = "name"
        \/ Issue("warning", s, f) \in issues \/ Issue("blocker", s, "section") \in issues
        \/ s = "top" /\ r[f] = cells.top[f].value
        \/ s # "top" /\ r[s] # Nothing /\ r[s][f] = Coerced(cells[s][f], FieldSchema[s][f])
    BY <1>9, <2>1
  <2>4. QED
    BY <2>2, <2>3
<1>13. ASSUME NEW e \in Inferred(r) PROVE e \in entered
  <2>1. PICK s \in SectionKeys : e \in {s} \X DOMAIN Defaults[s]
    BY DEF Inferred
  <2>2. e = <<s, e[2]>> /\ e[1] = s /\ e[2] \in DOMAIN Defaults[s]
    BY <2>1
  <2>3. r[e[1]] # Nothing /\ r[e[1]][e[2]] # Defaults[e[1]][e[2]]
    BY DEF Inferred
  <2>4. /\ s \in DOMAIN cells /\ e[2] \in DOMAIN cells[s]
        /\ e[2] \in DOMAIN FieldSchema[s] /\ cells[s][e[2]].kind \notin blanks
    BY <1>10, <2>2, <2>3
  <2>5. e \in {s} \X DOMAIN cells[s]
    BY <2>2, <2>4
  <2>6. e \in all
    BY <2>4, <2>5
  <2>7. QED
    BY <2>2, <2>4, <2>6
<1> HIDE DEF all, entered
<1>14. EntriesAccounted(r, cells, blanks, issues)
  <2>1. Inferred(r) \subseteq entered
    BY <1>13
  <2>2. QED
    BY <1>3, <1>12, <2>1 DEF EntriesAccounted, entered, all
<1>15. QED
  BY <1>3, <1>14 DEF r, taken

\* Of an answer with no section in it a warning names every entry of a section.
LEMMA UnreadAccounted ==
  ASSUME NEW cells, NEW blanks, Legible(cells, blanks), NEW issues,
         Taking(cells, blanks).issues \subseteq issues,
         \A s \in SectionKeys : Taking(cells, blanks).sections[s] = <<>>
  PROVE  EntriesAccounted(Nothing, cells, blanks, issues)
<1> DEFINE taken == Taking(cells, blanks)
           all == UNION {{s} \X DOMAIN cells[s] : s \in DOMAIN cells}
           entered == {e \in all : e[2] \in DOMAIN FieldSchema[e[1]] /\ cells[e[1]][e[2]].kind \notin blanks}
<1>1. \A s \in DOMAIN cells \cap DOMAIN FieldSchema : \A f \in DOMAIN cells[s] :
        f \in DOMAIN FieldSchema[s] /\ cells[s][f].kind \notin blanks =>
          f \in DOMAIN taken.sections[s] \/ Issue("warning", s, f) \in taken.issues
  BY TakingReads
<1>2. DOMAIN cells \subseteq DOMAIN FieldSchema /\ SectionKeys = DOMAIN FieldSchema \ {"top"}
  BY FieldsDefaulted DEF Legible
<1>3. taken.issues \subseteq issues /\ \A s \in SectionKeys : DOMAIN taken.sections[s] = {}
  <2>1. DOMAIN <<>> = {}
    OBVIOUS
  <2>2. QED
    BY <2>1
<1> HIDE DEF taken
<1>4. \A e \in all : e[1] \in DOMAIN cells /\ e[2] \in DOMAIN cells[e[1]]
  OBVIOUS
<1>5. ASSUME NEW e \in entered
      PROVE  e[1] = "top" \/ Issue("warning", e[1], e[2]) \in issues
  <2>1. /\ e[1] \in DOMAIN cells /\ e[2] \in DOMAIN cells[e[1]]
        /\ e[2] \in DOMAIN FieldSchema[e[1]] /\ cells[e[1]][e[2]].kind \notin blanks
    BY <1>4
  <2>2. QED
    BY <1>1, <1>2, <1>3, <2>1
<1> HIDE DEF all, entered
<1>6. QED
  BY <1>5 DEF EntriesAccounted, entered, all

-----------------------------------------------------------------------------
(* The intake's answers *)

\* The fields of an intake's record.
LedgerFields == {"stage", "of", "requirement", "issues", "source", "attempt", "read"}

\* What is passed over of what was read.
Passed(source) == IF source = "template" THEN SheetBlanks ELSE AnswerBlanks

\* What an intake answers with is accounted for as soon as it is read; an estimate
\* that it asks for adds issues and takes none away.
Ledger ==
  intake # Nothing =>
    /\ LedgerFields \subseteq DOMAIN intake
    /\ intake.stage = "uploaded" => intake.of \in Uploads /\ intake.read = intake.of.cells
    /\ intake.stage \in {"uploaded", "asked"} =>
         intake.requirement = Nothing /\ intake.source = "unrecognized"
    /\ intake.stage \in {"uploaded", "asked", "extracted"} => stage = "idle"
    /\ intake.stage = "answered" => stage \in {"idle", "done", "blocked"}
    /\ intake.stage \in {"extracted", "pricing", "answered"} =>
         /\ intake.requirement = Nothing =>
              \E i \in intake.issues : i.severity = "blocker" /\ i.section = "workbook"
         /\ intake.source # "text" =>
              EntriesAccounted(intake.requirement, intake.read, Passed(intake.source), intake.issues)
    /\ intake.stage = "answered" /\ stage = "blocked" =>
         \A f \in found : f.severity = "blocker" => Issue("blocker", "estimate", f.field) \in intake.issues

\* A requirement that was extracted is accounted for as it stands.
Sound(requirement, read, issues, source) ==
  /\ requirement = Nothing => \E i \in issues : i.severity = "blocker" /\ i.section = "workbook"
  /\ source # "text" => EntriesAccounted(requirement, read, Passed(source), issues)

\* The issue for a workbook nobody understands is a blocker of the workbook.
LEMMA UnmappableBlocks ==
  ASSUME NEW issues, Unmappable \in issues
  PROVE  \E i \in issues : i.severity = "blocker" /\ i.section = "workbook"
BY DEF Unmappable, Issue

\* Further issues take nothing away.
LEMMA MoreIssues ==
  ASSUME NEW requirement, NEW read, NEW issues, NEW more, NEW source,
         issues \subseteq more, Sound(requirement, read, issues, source)
  PROVE  Sound(requirement, read, more, source)
BY DEF Sound, EntriesAccounted

\* What the intake holds is in its ledger once it has been read, before it is priced.
LEMMA Entered ==
  ASSUME NEW requirement, NEW read, NEW issues, NEW source,
         LedgerFields \subseteq DOMAIN intake', stage' = "idle",
         intake'.stage \in {"extracted", "answered", "failed"},
         intake'.requirement = requirement, intake'.read = read, intake'.issues = issues,
         intake'.source = source,
         intake'.stage # "failed" => Sound(requirement, read, issues, source)
  PROVE  Ledger'
BY DEF Ledger, LedgerFields, Sound

\* Reading a workbook fills the ledger,
LEMMA WorkbookLedger ==
  ASSUME Ledger, intake # Nothing, UNCHANGED vars,
         ReadTemplate \/ ModelBusy \/ ModelRefuses \/ ModelAnswers
  PROVE  Ledger'
<1>1. LedgerFields \subseteq DOMAIN intake /\ stage = "idle" /\ stage' = "idle"
      /\ intake.stage \in {"uploaded", "asked"}
      /\ intake.requirement = Nothing /\ intake.source = "unrecognized"
  BY DEF Ledger, LedgerFields, ReadTemplate, ModelBusy, ModelRefuses, ModelAnswers, Unrecognized, vars
<1>2. ASSUME NEW requirement, NEW issues, NEW source, Extracted(requirement, issues, source),
             Sound(requirement, intake.read, issues, source)
      PROVE  Ledger'
  <2>1. /\ LedgerFields \subseteq DOMAIN intake'
        /\ intake'.stage \in {"extracted", "answered"}
        /\ intake'.requirement = requirement /\ intake'.read = intake.read /\ intake'.issues = issues
        /\ intake'.source = source
    BY <1>1, <1>2 DEF Extracted, LedgerFields
  <2>2. QED
    BY <1>1, <1>2, <2>1, Entered
<1>3. ASSUME Unrecognized PROVE Ledger'
  <2>1. /\ LedgerFields \subseteq DOMAIN intake' /\ intake'.stage = "answered"
        /\ intake'.requirement = Nothing /\ intake'.read = <<>> /\ intake'.issues = {Unmappable}
        /\ intake'.source = "unrecognized"
    BY <1>1, <1>3 DEF Unrecognized, LedgerFields
  <2>2. EntriesAccounted(Nothing, <<>>, AnswerBlanks, {Unmappable})
    <3>1. DOMAIN <<>> = {}
      OBVIOUS
    <3>2. UNION {{s} \X DOMAIN (<<>>)[s] : s \in DOMAIN <<>>} = {}
      BY <3>1
    <3>3. QED
      BY <3>2 DEF EntriesAccounted
  <2>3. Sound(Nothing, <<>>, {Unmappable}, "unrecognized")
    BY <2>2, UnmappableBlocks DEF Sound, Passed
  <2>4. QED
    BY <1>1, <2>1, <2>3, Entered
<1>4. ASSUME \/ intake' = [intake EXCEPT !.stage = "failed"]
             \/ intake' = [intake EXCEPT !.stage = "asked", !.read = <<>>]
             \/ intake.stage = "asked" /\ intake' = [intake EXCEPT !.attempt = @ + 1]
      PROVE  Ledger'
  <2>1. LedgerFields \subseteq DOMAIN intake' /\ intake'.requirement = Nothing
        /\ intake'.source = "unrecognized" /\ intake'.stage \in {"failed", "asked"}
    BY <1>1, <1>4 DEF LedgerFields
  <2>2. QED
    BY <1>1, <2>1 DEF Ledger, LedgerFields
<1>5. CASE ReadTemplate
  <2> DEFINE taken == Taking(intake.of.cells, SheetBlanks)
             built == Build(taken.sections)
  <2>1. \/ intake' = [intake EXCEPT !.stage = "failed"]
        \/ Extracted(built.requirement, taken.issues \cup built.issues, "template")
        \/ intake' = [intake EXCEPT !.stage = "asked", !.read = <<>>]
        \/ Unrecognized
    BY <1>5 DEF ReadTemplate
  <2>2. intake.of \in Uploads /\ intake.read = intake.of.cells
    BY <1>5 DEF ReadTemplate, Ledger
  <2>3. /\ EntriesAccounted(built.requirement, intake.read, SheetBlanks, taken.issues \cup built.issues)
        /\ built.requirement # Nothing
    <3>1. Legible(intake.of.cells, SheetBlanks) /\ Something(intake.of.cells, SheetBlanks)
      BY <2>2, IntakeAssumption
    <3>2. QED
      BY <2>2, <3>1, ReadAccounted
  <2>4. Sound(built.requirement, intake.read, taken.issues \cup built.issues, "template")
    BY <2>3 DEF Sound, Passed
  <2> HIDE DEF taken, built
  <2>5. QED
    BY <1>2, <1>3, <1>4, <2>1, <2>4
<1>6. CASE ModelBusy
  BY <1>3, <1>4, <1>6 DEF ModelBusy
<1>7. CASE ModelRefuses
  BY <1>3, <1>7 DEF ModelRefuses
<1>8. CASE ModelAnswers
  <2>1. PICK a \in Answers : AnsweredWith(a)
    BY <1>8, AnsweringWith
  <2> DEFINE cells == Heeded(a.cells)
             built == Build(Taking(cells, AnswerBlanks).sections)
  <2>2. Legible(cells, AnswerBlanks) /\ Something(cells, AnswerBlanks)
    BY HeededLegible, IntakeAssumption
  <2>3. Taking(cells, AnswerBlanks).issues \subseteq AnswerIssues(a)
    BY DEF AnswerIssues
  <2>4. CASE AnswerFails(a)
    <3>1. /\ LedgerFields \subseteq DOMAIN intake' /\ intake'.requirement = Nothing
          /\ intake'.source = "unrecognized" /\ intake'.stage = "failed"
      BY <1>1, <2>4 DEF AnswerFails, LedgerFields
    <3>2. QED
      BY <1>1, <3>1 DEF Ledger, LedgerFields
  <2>5. CASE AnswerTaken(a)
    <3>1. /\ EntriesAccounted(built.requirement, cells, AnswerBlanks, AnswerIssues(a) \cup built.issues)
          /\ built.requirement # Nothing
      <4> HIDE DEF cells
      <4>1. QED
        BY <2>2, <2>3, ReadAccounted
    <3>2. Sound(built.requirement, cells, AnswerIssues(a) \cup built.issues, "ai")
      BY <3>1 DEF Sound, Passed
    <3>3. intake' = [[intake EXCEPT !.requirement = built.requirement, !.source = "ai",
                        !.issues = AnswerIssues(a) \cup built.issues,
                        !.stage = IF intake.of.auto THEN "extracted" ELSE "answered"]
                     EXCEPT !.read = cells]
      BY <2>5 DEF AnswerTaken
    <3> HIDE DEF built, cells
    <3>4. /\ LedgerFields \subseteq DOMAIN intake'
          /\ intake'.stage \in {"extracted", "answered"}
          /\ intake'.requirement = built.requirement /\ intake'.read = cells
          /\ intake'.issues = AnswerIssues(a) \cup built.issues
          /\ intake'.source = "ai"
      BY <1>1, <3>3 DEF LedgerFields
    <3>5. QED
      BY <1>1, <3>2, <3>4, Entered
  <2>6. CASE AnswerUnread(a)
    <3>1. EntriesAccounted(Nothing, cells, AnswerBlanks, AnswerIssues(a) \cup {Unmappable})
      <4>1. \A s \in SectionKeys : Taking(cells, AnswerBlanks).sections[s] = <<>>
        BY <2>6 DEF AnswerUnread
      <4> HIDE DEF cells
      <4>2. QED
        BY <2>2, <2>3, <4>1, UnreadAccounted
    <3>2. Sound(Nothing, cells, AnswerIssues(a) \cup {Unmappable}, "unrecognized")
      BY <3>1, UnmappableBlocks DEF Sound, Passed
    <3>3. intake' = [[intake EXCEPT !.issues = AnswerIssues(a) \cup {Unmappable}, !.stage = "answered"]
                     EXCEPT !.read = cells]
      BY <2>6 DEF AnswerUnread
    <3> HIDE DEF cells
    <3>4. /\ LedgerFields \subseteq DOMAIN intake'
          /\ intake'.stage = "answered"
          /\ intake'.requirement = Nothing /\ intake'.read = cells
          /\ intake'.issues = AnswerIssues(a) \cup {Unmappable}
          /\ intake'.source = "unrecognized"
      BY <1>1, <3>3 DEF LedgerFields
    <3>5. QED
      BY <1>1, <3>2, <3>4, Entered
  <2>7. QED
    BY <2>1, <2>4, <2>5, <2>6 DEF AnsweredWith
<1>9. QED
  BY <1>5, <1>6, <1>7, <1>8

\* so does reading a text,
LEMMA TextLedger ==
  ASSUME ExtractText, stage = "idle", UNCHANGED vars
  PROVE  Ledger'
<1>1. PICK t \in Texts :
        intake' = [stage |-> CASE TextRaises(t) -> "failed" [] ~TextRaises(t) /\ t.auto -> "extracted"
                               [] OTHER -> "answered",
                   of |-> t, read |-> <<>>, attempt |-> 0, requirement |-> FromText(t), issues |-> {},
                   source |-> "text", notes |-> TextNotes(t)]
  BY DEF ExtractText
<1>2. Sound(FromText(t), <<>>, {}, "text")
  BY IntakeAssumption DEF Sound
<1>3. /\ LedgerFields \subseteq DOMAIN intake' /\ intake'.stage \in {"extracted", "answered", "failed"}
      /\ intake'.requirement = FromText(t) /\ intake'.read = <<>> /\ intake'.issues = {}
      /\ intake'.source = "text"
  BY <1>1 DEF LedgerFields
<1>4. stage' = "idle"
  BY DEF vars
<1>5. QED
  BY <1>2, <1>3, <1>4, Entered

\* and an estimate adds its blockers.
LEMMA FoldLedger ==
  ASSUME Ledger, intake # Nothing, FoldEstimate
  PROVE  Ledger'
<1> DEFINE blockers == {Issue("blocker", "estimate", f.field) : f \in {g \in found : g.severity = "blocker"}}
<1>1. /\ intake.stage = "pricing" /\ stage \in {"done", "blocked", "failed", "raised"}
      /\ intake' = [intake EXCEPT
           !.stage = IF stage \in {"failed", "raised"} THEN "failed" ELSE "answered",
           !.issues = IF stage = "blocked" THEN @ \cup blockers ELSE @]
      /\ stage' = stage /\ found' = found
  BY DEF FoldEstimate, vars
<1>2. /\ LedgerFields \subseteq DOMAIN intake
      /\ Sound(intake.requirement, intake.read, intake.issues, intake.source)
  BY <1>1 DEF Ledger, Sound, LedgerFields
<1> DEFINE issues == IF stage = "blocked" THEN intake.issues \cup blockers ELSE intake.issues
<1>3. Sound(intake.requirement, intake.read, issues, intake.source)
  <2>1. intake.issues \subseteq issues
    OBVIOUS
  <2> HIDE DEF issues
  <2>2. QED
    BY <1>2, <2>1, MoreIssues
<1>4. stage = "blocked" =>
        \A f \in found : f.severity = "blocker" => Issue("blocker", "estimate", f.field) \in issues
  OBVIOUS
<1>5. /\ LedgerFields \subseteq DOMAIN intake' /\ intake'.requirement = intake.requirement
      /\ intake'.read = intake.read /\ intake'.issues = issues /\ intake'.source = intake.source
      /\ intake'.stage = IF stage \in {"failed", "raised"} THEN "failed" ELSE "answered"
  BY <1>1, <1>2 DEF LedgerFields
<1> HIDE DEF issues
<1>6. QED
  BY <1>1, <1>3, <1>4, <1>5 DEF Ledger, LedgerFields, Sound

\* A step of the API keeps the ledger.
LEMMA LedgerStep ==
  ASSUME Ledger, [ApiNext]_apiVars
  PROVE  Ledger'
<1>1. CASE intake' = Nothing
  BY <1>1 DEF Ledger
<1>2. CASE UNCHANGED apiVars
  BY <1>2 DEF apiVars, vars, Ledger
<1>3. CASE Estimating
  BY <1>1, <1>3 DEF Estimating
<1>4. CASE Advising
  BY <1>1, <1>4 DEF Advising
<1>5. CASE Working
  <2>1. /\ stage \in {"submitted", "recommended", "bridged", "validated", "normalized"}
        /\ UNCHANGED intake
    BY <1>5 DEF Working, Recommend, Bridge, BridgeRaises, Validate, NormalizeSpec, PriceAll,
                PricingFormRaises, PriceFails
  <2>2. intake = Nothing \/ intake.stage \notin {"uploaded", "asked", "extracted", "answered"}
    BY <2>1 DEF Ledger
  <2>3. QED
    BY <2>1, <2>2 DEF Ledger
<1>6. CASE TakingIn
  <2>1. CASE stage = "idle" /\ Upload /\ UNCHANGED vars
    <3>1. PICK u \in Uploads :
            intake' = [stage |-> "uploaded", of |-> u, read |-> u.cells, attempt |-> 0, requirement |-> Nothing,
                       issues |-> {}, source |-> "unrecognized", notes |-> {}]
      BY <2>1 DEF Upload
    <3>2. /\ LedgerFields \subseteq DOMAIN intake' /\ intake'.stage = "uploaded" /\ intake'.of \in Uploads
          /\ intake'.read = intake'.of.cells /\ intake'.requirement = Nothing
          /\ intake'.source = "unrecognized" /\ stage' = "idle"
      BY <2>1, <3>1 DEF LedgerFields, vars
    <3>3. QED
      BY <3>2 DEF Ledger, LedgerFields
  <2>2. CASE stage = "idle" /\ ExtractText /\ UNCHANGED vars
    BY <2>2, TextLedger
  <2>3. CASE /\ intake # Nothing /\ UNCHANGED vars
             /\ ReadTemplate \/ ModelBusy \/ ModelRefuses \/ ModelAnswers
    BY <2>3, WorkbookLedger
  <2>4. CASE intake # Nothing /\ EstimateExtracted
    <3>1. /\ intake.stage = "extracted" /\ intake' = [intake EXCEPT !.stage = "pricing"]
          /\ LedgerFields \subseteq DOMAIN intake
      BY <2>4 DEF EstimateExtracted, Ledger, LedgerFields
    <3>2. /\ LedgerFields \subseteq DOMAIN intake' /\ intake'.stage = "pricing"
          /\ intake'.requirement = intake.requirement /\ intake'.read = intake.read
          /\ intake'.issues = intake.issues /\ intake'.source = intake.source
      BY <3>1 DEF LedgerFields
    <3>3. Sound(intake.requirement, intake.read, intake.issues, intake.source)
      BY <2>4, <3>1 DEF Ledger, Sound
    <3>4. QED
      BY <3>2, <3>3 DEF Ledger, Sound, LedgerFields
  <2>5. CASE intake # Nothing /\ FoldEstimate
    BY <2>5, FoldLedger
  <2>6. CASE IntakeLeaves
    BY <1>1, <2>6 DEF IntakeLeaves
  <2>7. QED
    BY <1>6, <2>1, <2>2, <2>3, <2>4, <2>5, <2>6 DEF TakingIn, TakeIn
<1>7. QED
  BY <1>2, <1>3, <1>4, <1>5, <1>6 DEF ApiNext

\* Whatever is uploaded and whatever the model answers, no entry that is read is lost,
\* and none invented, without a word.
THEOREM AnswersAccounted == ApiSpec => []IntakeAccounted
<1>1. ApiInit => Ledger
  BY DEF ApiInit, Ledger
<1>2. Ledger /\ [ApiNext]_apiVars => Ledger'
  BY LedgerStep
<1>3. Ledger => IntakeAccounted
  BY DEF Ledger, IntakeAccounted, Passed
<1>4. QED
  BY <1>1, <1>2, <1>3, PTL DEF ApiSpec

-----------------------------------------------------------------------------
(* What is recommended can be bought *)

\* A request of business context alone.
BusinessOnly(r) ==
  /\ \A s \in {"compute", "storage", "database", "network", "kubernetes"} : r[s] = Nothing
  /\ r.selected = <<>>

\* The sections that are left alone, and those that the engine fills in, as it
\* constructs them.
FilledIn(w) ==
  /\ w.storage = Nothing /\ w.selected = <<>> /\ w.region \in DOMAIN RegionPercent
  /\ w.compute # Nothing =>
       /\ w.compute.machineType = "none" /\ w.compute.kind = "unset" /\ w.compute.gpu = "none"
       /\ w.compute.ram = 80 * w.compute.vcpu
       /\ \/ w.compute.family = "e2" /\ w.compute.vcpu \in {2, 4}
          \/ w.compute.family = "n2" /\ w.compute.vcpu \in {2, 4, 8, 16}
  /\ w.network # Nothing => w.network.balancer /\ w.network.ips >= 1 /\ ~w.network.cdn
  /\ w.database # Nothing =>
       /\ w.database.engine = "postgres" /\ w.database.tier = "custom"
       /\ w.database.vcpu \in {2, 4} /\ w.database.ram = 80 * w.database.vcpu
  /\ w.kubernetes # Nothing => w.kubernetes.autopilot

\* The recommendation engine fills in one of its own shapes.
LEMMA RecommendedFills ==
  ASSUME NEW r, Accepted(r), BusinessOnly(r)
  PROVE  FilledIn(Recommended(r).work)
<1>1. /\ {"compute", "storage", "database", "network", "kubernetes"} \subseteq DOMAIN r
      /\ r.region \in DOMAIN RegionPercent
      /\ r.compute = Nothing /\ r.storage = Nothing /\ r.database = Nothing /\ r.network = Nothing
      /\ r.kubernetes = Nothing /\ r.selected = <<>>
  BY DEF Accepted, BusinessOnly, Sections
<1>2. CASE r.business = Nothing
  BY <1>1, <1>2 DEF Recommended, FilledIn
<1>3. CASE r.business # Nothing
  <2> DEFINE users == UsersOf(r.business)
             stated == r.availability # Nothing
             ha == stated /\ r.availability.ha
             headroom == ha \/ (stated /\ r.availability.uptime >= 9990)
             needsBalancer == (users > 100 \/ headroom) /\ ~DefaultNetwork.balancer
             needsDatabase == r.database = Nothing /\ (users > 500 \/ ha)
             needsKubernetes == r.kubernetes = Nothing /\ users > 5000
             size == SizeCompute(users, headroom)
             compute == DefaultCompute(size)
             balanced == [DefaultNetwork EXCEPT !.balancer = TRUE, !.ips = AtLeast(@, 1)]
             network == IF needsBalancer THEN balanced ELSE r.network
             database == IF needsDatabase THEN DefaultDatabase(users, headroom) ELSE r.database
             kubernetes == IF needsKubernetes THEN DefaultKubernetes ELSE r.kubernetes
             w == [r EXCEPT !.compute = compute, !.network = network, !.database = database,
                            !.kubernetes = kubernetes]
  <2>1. Recommended(r).work = w
    BY <1>1, <1>3 DEF Recommended
  <2>2. users \in Nat
    BY <1>3 DEF Accepted, UsersOf, AtLeast
  <2>3. \/ size.family = "e2" /\ size.vcpu \in {2, 4}
        \/ size.family = "n2" /\ size.vcpu \in {2, 4, 8, 16}
    <3> HIDE DEF users, headroom
    <3>1. QED
      BY <2>2 DEF SizeCompute
  <2>4. /\ compute.machineType = "none" /\ compute.kind = "unset" /\ compute.gpu = "none"
        /\ compute.family = size.family /\ compute.vcpu = size.vcpu /\ compute.ram = 80 * compute.vcpu
    <3> HIDE DEF size
    <3>1. size.vcpu * 80 = 80 * size.vcpu
      BY <2>3
    <3>2. QED
      BY <3>1 DEF DefaultCompute
  <2>5. network # Nothing => network.balancer /\ network.ips >= 1 /\ ~network.cdn
    <3>1. balanced.balancer /\ balanced.ips >= 1 /\ ~balanced.cdn
      BY DEF DefaultNetwork, AtLeast
    <3> HIDE DEF balanced, needsBalancer
    <3>2. QED
      BY <1>1, <3>1
  <2>6. database # Nothing =>
          /\ database.engine = "postgres" /\ database.tier = "custom"
          /\ database.vcpu \in {2, 4} /\ database.ram = 80 * database.vcpu
    <3> DEFINE filled == DefaultDatabase(users, headroom)
    <3>1. /\ filled.engine = "postgres" /\ filled.tier = "custom"
          /\ filled.vcpu \in {2, 4} /\ filled.ram = 80 * filled.vcpu
      <4> HIDE DEF users, headroom
      <4>1. QED
        BY DEF DefaultDatabase
    <3> HIDE DEF filled, needsDatabase
    <3>2. QED
      BY <1>1, <3>1 DEF filled
  <2>7. kubernetes # Nothing => kubernetes.autopilot
    BY <1>1 DEF DefaultKubernetes
  <2> HIDE DEF size, compute, network, database, kubernetes
  <2>8. /\ w.compute = compute /\ w.network = network /\ w.database = database /\ w.kubernetes = kubernetes
        /\ w.storage = Nothing /\ w.selected = <<>> /\ w.region = r.region
    BY <1>1
  <2> HIDE DEF w
  <2>9. FilledIn(w)
    BY <1>1, <2>3, <2>4, <2>5, <2>6, <2>7, <2>8 DEF FilledIn
  <2>10. QED
    BY <2>1, <2>9
<1>4. QED
  BY <1>2, <1>3

\* Without a selection there is nothing to bridge and nothing to price besides.
LEMMA NothingSelected ==
  ASSUME NEW w, Accepted(w), Readable(w), FilledIn(w)
  PROVE  FilledIn(Bridged(w)) /\ ServiceNotes(LeftOver(w)) = {}
<1>1. DOMAIN w.selected = {}
  BY DEF FilledIn
<1>2. Taken(w) = {}
  BY <1>1 DEF Taken, Bound
<1>3. /\ Bridged(w).compute = w.compute /\ Bridged(w).selected = w.selected
      /\ Bridged(w).region = w.region /\ Bridged(w).network = w.network
      /\ \A s \in {"storage", "database", "kubernetes"} :
           Bridged(w)[s] = IF s \in Taken(w) THEN AsSection(s, Source(w, s)) ELSE w[s]
  BY BridgedAccepted
<1>4. Bridged(w).storage = w.storage /\ Bridged(w).database = w.database
      /\ Bridged(w).kubernetes = w.kubernetes
  BY <1>2, <1>3
<1>5. FilledIn(Bridged(w))
  BY <1>3, <1>4 DEF FilledIn
<1>6. \A n \in DOMAIN LeftOver(w) : FALSE
  BY <1>1, LeftOverSelected
<1>7. QED
  BY <1>5, <1>6 DEF ServiceNotes

\* The catalog sells the shapes and the tiers that are filled in,
LEMMA FilledInSold ==
  ASSUME NEW w, FilledIn(w)
  PROVE  /\ w.compute # Nothing =>
              /\ Fits(MachineTypes, TypesOf(w.compute.family), w.compute.vcpu, w.compute.ram) # {}
              /\ w.region \in Capability[w.compute.family].regions
              /\ ~Known(w.compute.machineType)
         /\ w.database # Nothing =>
              Fits(Tiers, TiersFor(w.database.engine), w.database.vcpu, w.database.ram) # {}
<1>1. ASSUME w.compute # Nothing
      PROVE  Fits(MachineTypes, TypesOf(w.compute.family), w.compute.vcpu, w.compute.ram) # {}
  <2>1. /\ w.compute.ram = 80 * w.compute.vcpu
        /\ \/ w.compute.family = "e2" /\ w.compute.vcpu \in {2, 4}
           \/ w.compute.family = "n2" /\ w.compute.vcpu \in {2, 4, 8, 16}
    BY <1>1 DEF FilledIn
  <2>2. CASE w.compute.family = "e2" /\ w.compute.vcpu \in {2, 4}
    BY <2>1, <2>2, StockAssumption
  <2>3. CASE w.compute.family = "n2" /\ w.compute.vcpu \in {2, 4, 8, 16}
    BY <2>1, <2>3, StockAssumption
  <2>4. QED
    BY <2>1, <2>2, <2>3
<1>2. w.compute # Nothing =>
        w.region \in Capability[w.compute.family].regions /\ ~Known(w.compute.machineType)
  BY StockAssumption, CatalogAssumption DEF FilledIn, Known, Named
<1>3. w.database # Nothing => Fits(Tiers, TiersFor(w.database.engine), w.database.vcpu, w.database.ram) # {}
  BY StockAssumption DEF FilledIn
<1>4. QED
  BY <1>1, <1>2, <1>3

\* so no rule but those of the availability has anything against them,
LEMMA FilledInSound ==
  ASSUME NEW w, FilledIn(w)
  PROVE  \A f \in Findings(w) :
           f.field \in {"availability.target_uptime_percent", "availability.high_availability",
                        "availability.backup_frequency"}
<1> DEFINE c == w.compute
<1>1. ASSUME c # Nothing
      PROVE  /\ ShapeFindings(c) = {} /\ RegionFindings(c, w.region) = {} /\ MachineTypeFindings(c) = {}
             /\ CustomFindings(c) = {} /\ GpuFindings(c) = {}
  <2>1. c.machineType = "none" /\ c.kind = "unset" /\ c.gpu = "none" /\ ~Known(c.machineType)
        /\ w.region \in Capability[c.family].regions
    BY <1>1, FilledInSold DEF FilledIn
  <2>2. PICK i \in TypesOf(c.family) : MachineTypes[i].vcpu = c.vcpu /\ MachineTypes[i].ram = c.ram
    BY <1>1, FilledInSold DEF Fits
  <2>3. ShapeFindings(c) = {}
    BY <1>1, <2>2, FilledInSold DEF ShapeFindings, Unless
  <2>4. RegionFindings(c, w.region) = {} /\ MachineTypeFindings(c) = {}
    BY <2>1 DEF RegionFindings, MachineTypeFindings, Unless
  <2>5. CustomFindings(c) = {} /\ GpuFindings(c) = {}
    BY <2>1 DEF CustomFindings, GpuFindings
  <2>6. QED
    BY <2>3, <2>4, <2>5
<1>2. w.database # Nothing => DatabaseFindings(w.database) = {}
  BY FilledInSold DEF DatabaseFindings, Unless
<1>3. w.network # Nothing => NetworkFindings(w.network) = {}
  BY DEF FilledIn, NetworkFindings, Unless
<1>4. w.kubernetes # Nothing => KubernetesFindings(w.kubernetes) = {}
  BY DEF FilledIn, KubernetesFindings
<1>5. w.storage = Nothing /\ FormFindings(w.selected) = {}
  <2>1. w.selected = <<>> /\ w.storage = Nothing
    BY DEF FilledIn
  <2>2. QED
    BY <2>1 DEF FormFindings
<1>6. \A f \in AvailabilityFindings(w.availability) \cup BackupFindings(w.availability) :
        f.field \in {"availability.target_uptime_percent", "availability.high_availability",
                     "availability.backup_frequency"}
  BY DEF AvailabilityFindings, BackupFindings, Unless, Warning
<1> HIDE DEF c
<1>7. Findings(w) \subseteq IF w.availability = Nothing THEN {}
                            ELSE AvailabilityFindings(w.availability) \cup BackupFindings(w.availability)
  BY <1>1, <1>2, <1>3, <1>4, <1>5 DEF Findings, c
<1>8. QED
  BY <1>6, <1>7

\* and nothing is substituted for them.
LEMMA FilledInKept ==
  ASSUME NEW w, FilledIn(w)
  PROVE  Normalize(w).notes = {}
<1> DEFINE compute == IF w.compute # Nothing THEN NormalizeCompute(w.compute, w.strategy)
                      ELSE [machine |-> Nothing, notes |-> {}]
           disks == IF w.storage # Nothing THEN Disks(w.storage) ELSE <<>>
           database == IF w.database # Nothing /\ w.database.required
                       THEN NormalizeDatabase(w.database, w.strategy)
                       ELSE [tier |-> Nothing, notes |-> {}]
           nodes == IF w.kubernetes # Nothing /\ w.kubernetes.required THEN NodeCount(w.kubernetes)
                    ELSE Nothing
<1>1. Normalize(w) = Specified(w, compute, disks, database, nodes)
  BY DEF Normalize
<1>2. compute.notes = {}
  <2> DEFINE c == w.compute
             exact == Fits(MachineTypes, TypesOf(c.family), c.vcpu, c.ram)
  <2>1. ASSUME c # Nothing PROVE NormalizeCompute(c, w.strategy).notes = {}
    <3>1. c.machineType = "none" /\ c.kind = "unset" /\ ~Known(c.machineType) /\ exact # {}
      BY <2>1, FilledInSold DEF FilledIn
    <3>2. NormalizeCompute(c, w.strategy) = PredefinedCompute(c, w.strategy, {})
      BY <3>1 DEF NormalizeCompute, Noted
    <3>3. PredefinedCompute(c, w.strategy, {}) = Sized(First(MachineTypes, exact), "predefined", {})
      BY <3>1 DEF PredefinedCompute
    <3>4. QED
      BY <3>2, <3>3 DEF Sized
  <2>2. QED
    BY <2>1
<1>3. database.notes = {}
  <2>1. w.database # Nothing => NormalizeDatabase(w.database, w.strategy).notes = {}
    BY FilledInSold DEF FilledIn, NormalizeDatabase
  <2>2. QED
    BY <2>1
<1>4. disks = <<>> /\ (nodes # Nothing => w.kubernetes.autopilot)
  BY DEF FilledIn
<1> HIDE DEF compute, disks, database, nodes
<1>5. Normalize(w).notes
        = compute.notes \cup database.notes
          \cup Noted(disks # <<>> /\ disks[1] # w.storage.size, "storage.size_gb")
          \cup Noted(disks # <<>> /\ Tail(disks) # w.storage.extra, "storage.additional_disks")
          \cup Noted(nodes # Nothing /\ ~w.kubernetes.autopilot /\ nodes # w.kubernetes.nodes,
                     "kubernetes.node_count")
  BY <1>1 DEF Specified
<1>6. QED
  BY <1>2, <1>3, <1>4, <1>5 DEF Noted

\* As long as the catalog has the shapes that the recommendation engine is written for,
\* a customer who states the business context alone gets an estimate for exactly what
\* was recommended.
THEOREM Buyable == ApiSpec => []RecommendationFits
<1>1. Staged /\ AllAccepted => RecommendationFits
  <2> SUFFICES ASSUME Staged, AllAccepted, stage \in {"blocked", "done"}, BusinessOnly(req)
               PROVE  /\ FieldsFound \subseteq {"availability.target_uptime_percent",
                                                "availability.high_availability",
                                                "availability.backup_frequency"}
                      /\ noted \subseteq {"compute", "database", "kubernetes", "network.load_balancer_required"}
    BY DEF RecommendationFits, BusinessOnly
  <2> DEFINE asked == Recommended(req)
  <2>1. Accepted(req) /\ Accepted(asked.work)
    BY RecommendedAccepted DEF AllAccepted
  <2>2. /\ rest = LeftOver(asked.work) /\ work = Bridged(asked.work) /\ Readable(asked.work)
        /\ found = Findings(work)
        /\ stage = "blocked" => noted = asked.notes
        /\ stage = "done" => noted = asked.notes \cup Normalize(work).notes \cup ServiceNotes(rest)
    BY DEF Staged
  <2>3. FilledIn(asked.work)
    BY <2>1, RecommendedFills
  <2> HIDE DEF asked
  <2>4. FilledIn(work) /\ ServiceNotes(rest) = {}
    BY <2>1, <2>2, <2>3, NothingSelected
  <2>5. Normalize(work).notes = {}
    BY <2>4, FilledInKept
  <2>6. asked.notes \subseteq {"compute", "network.load_balancer_required", "database", "kubernetes"}
    BY RecommendedApart DEF asked
  <2>7. QED
    BY <2>2, <2>4, <2>5, <2>6, FilledInSound DEF FieldsFound
<1>2. QED
  BY <1>1, Determined, PTL

-----------------------------------------------------------------------------
(* Sums *)

\* What holds of 0 and of the next of every number it holds of is true of every number.
LEMMA Everywhere ==
  ASSUME NEW G, 0 \in G, \A n \in Nat : n \in G => n + 1 \in G
  PROVE  \A n \in Nat : n \in G
<1> DEFINE bad == {n \in Nat : n \notin G}
<1>1. SUFFICES ASSUME bad # {} PROVE FALSE
  OBVIOUS
<1>2. PICK n \in bad : \A m \in bad : n <= m
  BY <1>1, Least
<1>3. n # 0 /\ n - 1 \in Nat /\ n - 1 \notin bad
  BY <1>2
<1>4. (n - 1) + 1 = n /\ n - 1 \in G
  BY <1>3
<1>5. QED
  BY <1>3, <1>4

\* The element that a sum takes next.
One(s) == CHOOSE x \in s : TRUE

\* What it leaves is smaller.
LEMMA OneLess ==
  ASSUME NEW S, IsFiniteSet(S), NEW s \in SUBSET S, s # {}
  PROVE  /\ One(s) \in s /\ s \ {One(s)} \in SUBSET S /\ IsFiniteSet(s)
         /\ Cardinality(s) \in Nat /\ Cardinality(s) # 0
         /\ Cardinality(s \ {One(s)}) = Cardinality(s) - 1
<1>1. One(s) \in s
  BY DEF One
<1>2. IsFiniteSet(s) /\ Cardinality(s) \in Nat /\ Cardinality(s) # 0
  BY FS_Subset, FS_CardinalityType, FS_EmptySet
<1>3. Cardinality(s \ {One(s)}) = Cardinality(s) - 1
  BY <1>1, <1>2, FS_RemoveElement
<1>4. QED
  BY <1>1, <1>2, <1>3

\* What holds of the empty set, and of a set when it holds of what a sum leaves of it,
\* is true of every part of a finite set.
LEMMA EveryPart ==
  ASSUME NEW S, IsFiniteSet(S), NEW W, {} \in W,
         \A s \in SUBSET S : s # {} /\ s \ {One(s)} \in W => s \in W
  PROVE  \A s \in SUBSET S : s \in W
<1> DEFINE G == {n \in Nat : \A s \in SUBSET S : Cardinality(s) = n => s \in W}
<1>1. 0 \in G
  <2>1. \A s \in SUBSET S : Cardinality(s) = 0 => s = {}
    BY OneLess
  <2>2. QED
    BY <2>1
<1>2. ASSUME NEW n \in Nat, n \in G PROVE n + 1 \in G
  <2> SUFFICES ASSUME NEW s \in SUBSET S, Cardinality(s) = n + 1 PROVE s \in W
    OBVIOUS
  <2>1. s # {}
    <3>1. IsFiniteSet(s) /\ Cardinality(s) # 0
      BY FS_Subset
    <3>2. QED
      BY <3>1, FS_EmptySet
  <2>2. s \ {One(s)} \in SUBSET S /\ Cardinality(s \ {One(s)}) = n
    BY <2>1, OneLess
  <2>3. QED
    BY <1>2, <2>1, <2>2
<1> HIDE DEF G
<1>3. \A n \in Nat : n \in G
  BY <1>1, <1>2, Everywhere
<1>4. \A s \in SUBSET S : Cardinality(s) \in Nat
  BY FS_Subset, FS_CardinalityType
<1>5. QED
  BY <1>3, <1>4 DEF G

\* One step of the recursion that a sum is.
Added(f, g, T) == [s \in T |-> IF s = {} THEN 0 ELSE f[One(s)] + g[s \ {One(s)}]]

Solves(g, f, S) == g = Added(f, g, SUBSET S)

\* The recursion has a solution,
LEMMA SumExists ==
  ASSUME NEW f, NEW S, IsFiniteSet(S)
  PROVE  \E g : g = Added(f, g, SUBSET S)
<1> DEFINE layer(n) == {s \in SUBSET S : Cardinality(s) <= n}
           G == {n \in Nat : \E g : g = Added(f, g, layer(n))}
<1>1. 0 \in G
  <2>1. ASSUME NEW s \in layer(0), s # {} PROVE FALSE
    <3>1. s \in SUBSET S /\ Cardinality(s) <= 0
      OBVIOUS
    <3>2. Cardinality(s) \in Nat /\ Cardinality(s) # 0
      BY <2>1, <3>1, OneLess
    <3>3. QED
      BY <3>1, <3>2
  <2> DEFINE g == [s \in layer(0) |-> 0]
  <2>2. g = Added(f, g, layer(0))
    BY <2>1 DEF Added
  <2>3. QED
    BY <2>2
<1>2. ASSUME NEW n \in Nat, n \in G PROVE n + 1 \in G
  <2>1. PICK g : g = Added(f, g, layer(n))
    BY <1>2
  <2> DEFINE h == Added(f, g, layer(n + 1))
  <2>2. ASSUME NEW s \in layer(n + 1), s # {}
        PROVE  s \ {One(s)} \in layer(n) /\ s \ {One(s)} \in layer(n + 1)
    BY <2>2, OneLess
  <2>3. \A t \in layer(n) : t \in layer(n + 1)
    BY FS_Subset, FS_CardinalityType
  <2>4. \A t \in layer(n) : g[t] = IF t = {} THEN 0 ELSE f[One(t)] + g[t \ {One(t)}]
    <3> HIDE DEF layer
    <3>1. QED
      BY <2>1 DEF Added
  <2>5. \A t \in layer(n + 1) : h[t] = IF t = {} THEN 0 ELSE f[One(t)] + g[t \ {One(t)}]
    <3> HIDE DEF layer
    <3>1. QED
      BY DEF Added
  <2>6. \A t \in layer(n) : h[t] = g[t]
    <3> HIDE DEF layer, h
    <3>1. QED
      BY <2>3, <2>4, <2>5
  <2>7. h = Added(f, h, layer(n + 1))
    <3>1. \A s \in layer(n + 1) :
            (IF s = {} THEN 0 ELSE f[One(s)] + g[s \ {One(s)}])
              = IF s = {} THEN 0 ELSE f[One(s)] + h[s \ {One(s)}]
      <4> HIDE DEF layer, h
      <4>1. QED
        BY <2>2, <2>6
    <3>2. h = [s \in layer(n + 1) |-> IF s = {} THEN 0 ELSE f[One(s)] + g[s \ {One(s)}]]
      BY DEF Added
    <3>3. Added(f, h, layer(n + 1)) = [s \in layer(n + 1) |-> IF s = {} THEN 0 ELSE f[One(s)] + h[s \ {One(s)}]]
      BY DEF Added
    <3> HIDE DEF layer, h
    <3>4. QED
      BY <3>1, <3>2, <3>3
  <2> HIDE DEF h
  <2>8. QED
    BY <2>7
<1> HIDE DEF G
<1>3. \A n \in Nat : n \in G
  BY <1>1, <1>2, Everywhere
<1>4. Cardinality(S) \in G /\ Cardinality(S) \in Nat
  BY <1>3, FS_CardinalityType
<1>5. layer(Cardinality(S)) = SUBSET S
  BY FS_Subset, FS_CardinalityType
<1>6. QED
  BY <1>4, <1>5 DEF G

\* and a sum is one.
LEMMA SumSolves ==
  ASSUME NEW f, NEW S, IsFiniteSet(S)
  PROVE  \E g : Solves(g, f, S) /\ SumFunctionOnSet(f, S) = g[S]
<1> DEFINE g == CHOOSE g : g = [s \in SUBSET S |->
                  IF s = {} THEN 0
                  ELSE f[CHOOSE x \in s : TRUE] + g[s \ {CHOOSE x \in s : TRUE}]]
<1>1. SumFunctionOnSet(f, S) = g[S]
  BY DEF SumFunctionOnSet, FoldFunctionOnSet, MapThenFoldSet
<1>2. \E h : h = [s \in SUBSET S |->
                  IF s = {} THEN 0
                  ELSE f[CHOOSE x \in s : TRUE] + h[s \ {CHOOSE x \in s : TRUE}]]
  <2>1. PICK h : h = Added(f, h, SUBSET S)
    BY SumExists
  <2>2. QED
    BY <2>1 DEF Added, One
<1>3. g = [s \in SUBSET S |->
             IF s = {} THEN 0
             ELSE f[CHOOSE x \in s : TRUE] + g[s \ {CHOOSE x \in s : TRUE}]]
  BY <1>2
<1>4. Solves(g, f, S)
  <2> HIDE DEF g
  <2>1. QED
    BY <1>3 DEF Added, One, Solves
<1> HIDE DEF g
<1>5. QED
  BY <1>1, <1>4

\* Two solutions agree wherever what they add does.
LEMMA SumAgrees ==
  ASSUME NEW f, NEW S, IsFiniteSet(S), NEW g, Solves(g, f, S),
         NEW e, NEW T, T \subseteq S, NEW h, Solves(h, e, T),
         \A x \in T : f[x] = e[x]
  PROVE  g[T] = h[T]
<1> DEFINE W == {s \in SUBSET T : g[s] = h[s]}
<1>1. IsFiniteSet(T)
  BY FS_Subset
<1>2. /\ \A s \in SUBSET S : g[s] = IF s = {} THEN 0 ELSE f[One(s)] + g[s \ {One(s)}]
      /\ \A s \in SUBSET T : h[s] = IF s = {} THEN 0 ELSE e[One(s)] + h[s \ {One(s)}]
  BY DEF Added, Solves
<1>3. {} \in W
  BY <1>2
<1>4. ASSUME NEW s \in SUBSET T, s # {}, s \ {One(s)} \in W PROVE s \in W
  <2>1. One(s) \in T
    BY <1>1, <1>4, OneLess
  <2>2. QED
    BY <1>2, <1>4, <2>1
<1> HIDE DEF W
<1>5. \A s \in SUBSET T : s \in W
  BY <1>1, <1>3, <1>4, EveryPart
<1>6. QED
  BY <1>5 DEF W

\* A sum depends on what it adds only.
LEMMA SumSame ==
  ASSUME NEW f, NEW e, NEW S, IsFiniteSet(S), \A x \in S : f[x] = e[x]
  PROVE  SumFunctionOnSet(f, S) = SumFunctionOnSet(e, S)
<1>1. PICK g : Solves(g, f, S) /\ SumFunctionOnSet(f, S) = g[S]
  BY SumSolves
<1>2. PICK h : Solves(h, e, S) /\ SumFunctionOnSet(e, S) = h[S]
  BY SumSolves
<1>3. S \subseteq S /\ Solves(g, f, S) /\ Solves(h, e, S)
  BY <1>1, <1>2
<1>4. g[S] = h[S]
  BY <1>3, SumAgrees
<1>5. QED
  BY <1>1, <1>2, <1>4

\* A sum is what it takes next and the sum of the rest.
LEMMA SumTakes ==
  ASSUME NEW f, NEW S, IsFiniteSet(S)
  PROVE  SumFunctionOnSet(f, S)
           = IF S = {} THEN 0 ELSE f[One(S)] + SumFunctionOnSet(f, S \ {One(S)})
<1>1. PICK g : Solves(g, f, S) /\ SumFunctionOnSet(f, S) = g[S]
  BY SumSolves
<1>2. g[S] = IF S = {} THEN 0 ELSE f[One(S)] + g[S \ {One(S)}]
  BY <1>1 DEF Added, Solves
<1>0. PICK T : T = S \ {One(S)}
  OBVIOUS
<1>3. IsFiniteSet(T)
  BY <1>0, FS_Subset
<1>4. PICK h : Solves(h, f, T) /\ SumFunctionOnSet(f, T) = h[T]
  BY <1>3, SumSolves
<1>5. T \subseteq S /\ Solves(g, f, S) /\ Solves(h, f, T)
  BY <1>0, <1>1, <1>4
<1>6. g[T] = h[T]
  <2>1. \A e : Solves(h, e, T) /\ (\A x \in T : f[x] = e[x]) => g[T] = h[T]
    BY <1>5, SumAgrees
  <2>2. QED
    BY <1>5, <2>1
<1>7. QED
  BY <1>0, <1>1, <1>2, <1>4, <1>6

\* The sum of nothing.
LEMMA SumNone == ASSUME NEW f PROVE SumFunctionOnSet(f, {}) = 0
BY SumTakes, FS_EmptySet

\* A sum of integers is one, and of naturals one as well.
LEMMA SumType ==
  ASSUME NEW f, NEW S, IsFiniteSet(S), \A x \in S : f[x] \in Int
  PROVE  /\ SumFunctionOnSet(f, S) \in Int
         /\ (\A x \in S : f[x] \in Nat) => SumFunctionOnSet(f, S) \in Nat
<1>1. SumFunctionOnSet(f, S) \in Int
  <2> DEFINE W == {s \in SUBSET S : SumFunctionOnSet(f, s) \in Int}
  <2>1. {} \in W
    BY SumNone
  <2>2. ASSUME NEW s \in SUBSET S, s # {}, s \ {One(s)} \in W PROVE s \in W
    <3>1. SumFunctionOnSet(f, s) = f[One(s)] + SumFunctionOnSet(f, s \ {One(s)}) /\ One(s) \in S
      BY <2>2, OneLess, SumTakes
    <3>2. QED
      BY <2>2, <3>1
  <2> HIDE DEF W
  <2>3. S \in W
    BY <2>1, <2>2, EveryPart
  <2>4. QED
    BY <2>3 DEF W
<1>2. ASSUME \A x \in S : f[x] \in Nat PROVE SumFunctionOnSet(f, S) \in Nat
  <2> DEFINE W == {s \in SUBSET S : SumFunctionOnSet(f, s) \in Nat}
  <2>1. {} \in W
    BY SumNone
  <2>2. ASSUME NEW s \in SUBSET S, s # {}, s \ {One(s)} \in W PROVE s \in W
    <3>1. SumFunctionOnSet(f, s) = f[One(s)] + SumFunctionOnSet(f, s \ {One(s)}) /\ One(s) \in S
      BY <2>2, OneLess, SumTakes
    <3>2. QED
      BY <1>2, <2>2, <3>1
  <2> HIDE DEF W
  <2>3. S \in W
    BY <2>1, <2>2, EveryPart
  <2>4. QED
    BY <2>3 DEF W
<1>3. QED
  BY <1>1, <1>2

\* Whichever element is taken first, the sum is the same.
LEMMA SumWithout ==
  ASSUME NEW f, NEW S, IsFiniteSet(S), \A x \in S : f[x] \in Int, NEW a \in S
  PROVE  SumFunctionOnSet(f, S) = f[a] + SumFunctionOnSet(f, S \ {a})
<1> DEFINE G == {n \in Nat : \A s \in SUBSET S : Cardinality(s) = n =>
                   \A x \in s : SumFunctionOnSet(f, s) = f[x] + SumFunctionOnSet(f, s \ {x})}
<1>1. 0 \in G
  <2>1. \A s \in SUBSET S : Cardinality(s) = 0 => s = {}
    BY OneLess
  <2>2. QED
    BY <2>1
<1>2. ASSUME NEW n \in Nat, n \in G PROVE n + 1 \in G
  <2> SUFFICES ASSUME NEW s \in SUBSET S, Cardinality(s) = n + 1, NEW x \in s
               PROVE  SumFunctionOnSet(f, s) = f[x] + SumFunctionOnSet(f, s \ {x})
    OBVIOUS
  <2> DEFINE y == One(s)
  <2>1. /\ y \in s /\ IsFiniteSet(s)
        /\ SumFunctionOnSet(f, s) = f[y] + SumFunctionOnSet(f, s \ {y})
    BY OneLess, SumTakes
  <2> HIDE DEF y
  <2>2. CASE x = y
    BY <2>1, <2>2
  <2>3. CASE x # y
    <3>1. /\ Cardinality(s \ {y}) = n /\ Cardinality(s \ {x}) = n
          /\ x \in s \ {y} /\ y \in s \ {x}
      <4>1. x \in s \ {y} /\ y \in s \ {x}
        BY <2>1, <2>3
      <4>2. Cardinality(s \ {y}) = Cardinality(s) - 1 /\ Cardinality(s \ {x}) = Cardinality(s) - 1
        BY <2>1, FS_RemoveElement
      <4>3. QED
        BY <4>1, <4>2
    <3>2. /\ SumFunctionOnSet(f, s \ {y}) = f[x] + SumFunctionOnSet(f, (s \ {y}) \ {x})
          /\ SumFunctionOnSet(f, s \ {x}) = f[y] + SumFunctionOnSet(f, (s \ {x}) \ {y})
      BY <1>2, <3>1
    <3>3. (s \ {y}) \ {x} = (s \ {x}) \ {y} /\ IsFiniteSet((s \ {x}) \ {y})
      BY <2>1, FS_Subset
    <3>4. SumFunctionOnSet(f, (s \ {x}) \ {y}) \in Int /\ f[x] \in Int /\ f[y] \in Int
      BY <2>1, <3>3, SumType
    <3>5. PICK r \in Int : r = SumFunctionOnSet(f, (s \ {x}) \ {y})
      BY <3>4
    <3>6. SumFunctionOnSet(f, s \ {y}) = f[x] + r /\ SumFunctionOnSet(f, s \ {x}) = f[y] + r
      BY <3>2, <3>3, <3>5
    <3>7. SumFunctionOnSet(f, s) = f[y] + (f[x] + r)
      BY <2>1, <3>6
    <3>8. f[y] + (f[x] + r) = f[x] + (f[y] + r)
      BY <3>4
    <3>9. QED
      BY <3>6, <3>7, <3>8
  <2>4. QED
    BY <2>2, <2>3
<1> HIDE DEF G
<1>3. \A n \in Nat : n \in G
  BY <1>1, <1>2, Everywhere
<1>4. Cardinality(S) \in G
  BY <1>3, FS_CardinalityType
<1>5. QED
  BY <1>4 DEF G

\* The sum over two sets apart is the sum of the two.
LEMMA SumUnion ==
  ASSUME NEW f, NEW S, IsFiniteSet(S), NEW T, IsFiniteSet(T), S \cap T = {},
         \A x \in S \cup T : f[x] \in Int
  PROVE  SumFunctionOnSet(f, S \cup T) = SumFunctionOnSet(f, S) + SumFunctionOnSet(f, T)
<1> DEFINE W == {t \in SUBSET T : SumFunctionOnSet(f, S \cup t)
                                    = SumFunctionOnSet(f, S) + SumFunctionOnSet(f, t)}
<1>1. {} \in W
  <2>1. SumFunctionOnSet(f, {}) = 0
    BY SumNone
  <2>2. SumFunctionOnSet(f, S) \in Int /\ S \cup {} = S
    BY SumType
  <2>3. SumFunctionOnSet(f, S \cup {}) = SumFunctionOnSet(f, S) + SumFunctionOnSet(f, {})
    BY <2>1, <2>2
  <2>4. QED
    BY <2>3
<1>2. ASSUME NEW t \in SUBSET T, t # {}, t \ {One(t)} \in W PROVE t \in W
  <2> DEFINE x == One(t)
             u == t \ {x}
  <2>1. /\ x \in t /\ IsFiniteSet(t) /\ IsFiniteSet(u) /\ IsFiniteSet(S \cup t)
    <3>1. x \in t /\ IsFiniteSet(t)
      BY <1>2, OneLess
    <3>2. IsFiniteSet(u)
      BY <3>1, FS_Subset
    <3>3. IsFiniteSet(S \cup t)
      BY <3>1, FS_Union
    <3>4. QED
      BY <3>1, <3>2, <3>3
  <2>2. /\ SumFunctionOnSet(f, t) = f[x] + SumFunctionOnSet(f, u)
        /\ SumFunctionOnSet(f, u) \in Int /\ SumFunctionOnSet(f, S) \in Int /\ f[x] \in Int
    <3>1. SumFunctionOnSet(f, t) = f[x] + SumFunctionOnSet(f, u)
      BY <1>2, <2>1, SumTakes
    <3>2. SumFunctionOnSet(f, u) \in Int /\ SumFunctionOnSet(f, S) \in Int
      BY <2>1, SumType
    <3>3. QED
      BY <2>1, <3>1, <3>2
  <2>3. (S \cup t) \ {x} = S \cup u
    BY <2>1
  <2> HIDE DEF x
  <2>4. SumFunctionOnSet(f, S \cup t) = f[x] + SumFunctionOnSet(f, (S \cup t) \ {x})
    BY <2>1, SumWithout
  <2>5. SumFunctionOnSet(f, S \cup u) = SumFunctionOnSet(f, S) + SumFunctionOnSet(f, u)
    BY <1>2 DEF x
  <2> HIDE DEF u
  <2>6. PICK p \in Int, q \in Int : p = SumFunctionOnSet(f, S) /\ q = SumFunctionOnSet(f, u)
    BY <2>2
  <2>7. SumFunctionOnSet(f, S \cup t) = f[x] + (p + q) /\ SumFunctionOnSet(f, t) = f[x] + q
    BY <2>2, <2>3, <2>4, <2>5, <2>6
  <2>8. f[x] + (p + q) = p + (f[x] + q)
    BY <2>2
  <2>9. QED
    BY <2>6, <2>7, <2>8
<1> HIDE DEF W
<1>3. T \in W
  BY <1>1, <1>2, EveryPart
<1>4. QED
  BY <1>3 DEF W

\* A sum of naturals grows with the set.
LEMMA SumGrows ==
  ASSUME NEW f, NEW S, IsFiniteSet(S), \A x \in S : f[x] \in Nat, NEW T \in SUBSET S
  PROVE  SumFunctionOnSet(f, T) <= SumFunctionOnSet(f, S)
<1>1. IsFiniteSet(T) /\ IsFiniteSet(S \ T) /\ T \cup (S \ T) = S /\ T \cap (S \ T) = {}
  BY FS_Subset
<1>2. SumFunctionOnSet(f, T \cup (S \ T)) = SumFunctionOnSet(f, T) + SumFunctionOnSet(f, S \ T)
  BY <1>1, SumUnion
<1>3. SumFunctionOnSet(f, T) \in Nat /\ SumFunctionOnSet(f, S \ T) \in Nat
  BY <1>1, SumType
<1>4. SumFunctionOnSet(f, S) = SumFunctionOnSet(f, T) + SumFunctionOnSet(f, S \ T)
  BY <1>1, <1>2
<1>5. QED
  BY <1>3, <1>4

-----------------------------------------------------------------------------
(* Lists *)

\* A list of elements.
Listed(s) == s \in Seq(Range(s))

\* A function on 1..n is one,
LEMMA ListOf ==
  ASSUME NEW n \in Nat, NEW s, DOMAIN s = 1..n, s = [i \in 1..n |-> s[i]]
  PROVE  Listed(s) /\ Len(s) = n
<1>1. \A i \in 1..n : s[i] \in Range(s)
  BY DEF Range
<1>2. s \in Seq(Range(s))
  BY <1>1
<1>3. QED
  BY <1>2 DEF Listed

\* so are a list of one element and one of none,
LEMMA ListOne ==
  ASSUME NEW x
  PROVE  /\ Listed(<<x>>) /\ Range(<<x>>) = {x}
         /\ Listed(<<>>) /\ Range(<<>>) = {}
<1>1. Range(<<x>>) = {x} /\ Range(<<>>) = {}
  BY DEF Range
<1>2. <<x>> \in Seq({x}) /\ <<>> \in Seq({})
  OBVIOUS
<1>3. QED
  BY <1>1, <1>2 DEF Listed

\* and two lists, one after the other.
LEMMA ListJoined ==
  ASSUME NEW s, Listed(s), NEW t, Listed(t)
  PROVE  /\ Listed(s \o t) /\ Range(s \o t) = Range(s) \cup Range(t)
         /\ Len(s \o t) = Len(s) + Len(t)
         /\ \A i \in DOMAIN s : i \in DOMAIN (s \o t) /\ (s \o t)[i] = s[i]
         /\ \A i \in DOMAIN (s \o t) : \/ i \in DOMAIN s /\ (s \o t)[i] = s[i]
                                       \/ i - Len(s) \in DOMAIN t /\ (s \o t)[i] = t[i - Len(s)]
<1> DEFINE X == Range(s) \cup Range(t)
           u == s \o t
<1>1. s \in Seq(X) /\ t \in Seq(X)
  BY DEF Listed
<1> HIDE DEF X
<1>2. /\ u \in Seq(X) /\ Len(u) = Len(s) + Len(t) /\ Len(s) \in Nat /\ Len(t) \in Nat
      /\ DOMAIN s = 1..Len(s) /\ DOMAIN t = 1..Len(t) /\ DOMAIN u = 1..Len(u)
  BY <1>1
<1>3. \A i \in 1..Len(s) : i \in DOMAIN u /\ u[i] = s[i]
  BY <1>1, <1>2
<1>4. \A i \in 1..Len(t) : Len(s) + i \in DOMAIN u /\ u[Len(s) + i] = t[i]
  BY <1>1, <1>2
<1>5. ASSUME NEW i \in DOMAIN u
      PROVE  \/ i \in DOMAIN s /\ u[i] = s[i]
             \/ i - Len(s) \in DOMAIN t /\ u[i] = t[i - Len(s)]
  <2>1. CASE i <= Len(s)
    BY <1>2, <1>3, <2>1
  <2>2. CASE ~(i <= Len(s))
    <3>1. i - Len(s) \in 1..Len(t) /\ Len(s) + (i - Len(s)) = i
      BY <1>2, <2>2
    <3>2. QED
      BY <1>2, <1>4, <3>1
  <2>3. QED
    BY <2>1, <2>2
<1> HIDE DEF u
<1>6. Range(u) = X
  <2>1. ASSUME NEW i \in DOMAIN u PROVE u[i] \in X
    BY <1>5 DEF Range, X
  <2>2. ASSUME NEW x \in X PROVE \E i \in DOMAIN u : u[i] = x
    BY <1>2, <1>3, <1>4 DEF Range, X
  <2>3. QED
    BY <2>1, <2>2 DEF Range
<1>7. Listed(u)
  BY <1>2, <1>6 DEF Listed
<1>8. QED
  BY <1>2, <1>3, <1>5, <1>6, <1>7 DEF u, X

\* The indices of a list.
LEMMA ListIndices ==
  ASSUME NEW s, Listed(s)
  PROVE  /\ DOMAIN s = 1..Len(s) /\ Len(s) \in Nat
         /\ DOMAIN s \subseteq Nat /\ IsFiniteSet(DOMAIN s)
<1>1. DOMAIN s = 1..Len(s) /\ Len(s) \in Nat
  BY DEF Listed
<1>2. QED
  BY <1>1, FS_Interval

\* What is picked from a list is one.
LEMMA ListPicked ==
  ASSUME NEW s, NEW S, IsFiniteSet(S)
  PROVE  Listed(Picked(s, S)) /\ Len(Picked(s, S)) = Cardinality(S)
<1>1. Cardinality(S) \in Nat
  BY FS_CardinalityType
<1>2. QED
  BY <1>1, ListOf DEF Picked

\* One step of the recursion that lists are put together by.
Chained(f, g, S) == [i \in S |-> IF i = 1 THEN f[i] ELSE g[i - 1] \o f[i]]

\* The recursion has a solution,
LEMMA ChainExists ==
  ASSUME NEW f, NEW m \in Nat
  PROVE  \E g : g = Chained(f, g, 1..m)
<1> DEFINE G == {n \in Nat : \E g : g = Chained(f, g, 1..n)}
<1>1. 0 \in G
  <2> DEFINE g == [i \in 1..0 |-> 0]
  <2>1. g = Chained(f, g, 1..0)
    BY DEF Chained
  <2>2. QED
    BY <2>1
<1>2. ASSUME NEW n \in Nat, n \in G PROVE n + 1 \in G
  <2>1. PICK g : g = Chained(f, g, 1..n)
    BY <1>2
  <2> DEFINE h == Chained(f, g, 1..(n + 1))
  <2>2. \A i \in 1..n : g[i] = IF i = 1 THEN f[i] ELSE g[i - 1] \o f[i]
    BY <2>1 DEF Chained
  <2>3. \A i \in 1..(n + 1) : h[i] = IF i = 1 THEN f[i] ELSE g[i - 1] \o f[i]
    BY DEF Chained
  <2>4. \A i \in 1..n : h[i] = g[i]
    <3> HIDE DEF h
    <3>1. QED
      BY <2>2, <2>3
  <2>5. h = Chained(f, h, 1..(n + 1))
    <3>1. \A i \in 1..(n + 1) : (IF i = 1 THEN f[i] ELSE g[i - 1] \o f[i])
                                  = IF i = 1 THEN f[i] ELSE h[i - 1] \o f[i]
      <4> SUFFICES ASSUME NEW i \in 1..(n + 1), i # 1 PROVE g[i - 1] = h[i - 1]
        OBVIOUS
      <4>1. i - 1 \in 1..n
        OBVIOUS
      <4> HIDE DEF h
      <4>2. QED
        BY <2>4, <4>1
    <3>2. h = [i \in 1..(n + 1) |-> IF i = 1 THEN f[i] ELSE g[i - 1] \o f[i]]
      BY DEF Chained
    <3>3. Chained(f, h, 1..(n + 1)) = [i \in 1..(n + 1) |-> IF i = 1 THEN f[i] ELSE h[i - 1] \o f[i]]
      BY DEF Chained
    <3> DEFINE D == 1..(n + 1)
               a(i) == IF i = 1 THEN f[i] ELSE g[i - 1] \o f[i]
               b(i) == IF i = 1 THEN f[i] ELSE h[i - 1] \o f[i]
    <3>4. (\A i \in D : a(i) = b(i)) /\ h = [i \in D |-> a(i)] /\ Chained(f, h, D) = [i \in D |-> b(i)]
      BY <3>1, <3>2, <3>3
    <3> HIDE DEF h, D, a, b
    <3>5. [i \in D |-> a(i)] = [i \in D |-> b(i)]
      BY <3>4
    <3>6. h = Chained(f, h, D)
      BY <3>4, <3>5
    <3>7. QED
      BY <3>6 DEF D
  <2> HIDE DEF h
  <2>6. QED
    BY <2>5
<1> HIDE DEF G
<1>3. \A n \in Nat : n \in G
  BY <1>1, <1>2, Everywhere
<1>4. QED
  BY <1>3 DEF G

\* and a list of lists, one after the other, is a list of what is in them.
LEMMA ListFlattened ==
  ASSUME NEW s, Listed(s), \A i \in DOMAIN s : Listed(s[i])
  PROVE  /\ Listed(FlattenSeq(s))
         /\ \A x \in Range(FlattenSeq(s)) : \E i \in DOMAIN s : x \in Range(s[i])
<1>1. DOMAIN s = 1..Len(s) /\ Len(s) \in Nat
  BY ListIndices
<1>2. CASE Len(s) = 0
  <2>1. FlattenSeq(s) = s /\ DOMAIN s = {}
    BY <1>1, <1>2 DEF FlattenSeq
  <2>2. QED
    BY <2>1 DEF Range
<1>3. CASE Len(s) # 0
  <2> DEFINE g == CHOOSE g : g = [i \in 1..Len(s) |-> IF i = 1 THEN s[i] ELSE g[i - 1] \o s[i]]
             holds(i) == /\ Listed(g[i])
                         /\ \A x \in Range(g[i]) : \E j \in DOMAIN s : x \in Range(s[j])
             G == {n \in Nat : n + 1 \in 1..Len(s) => holds(n + 1)}
  <2>1. FlattenSeq(s) = g[Len(s)]
    BY <1>3 DEF FlattenSeq
  <2>2. \E h : h = [i \in 1..Len(s) |-> IF i = 1 THEN s[i] ELSE h[i - 1] \o s[i]]
    <3>1. PICK h : h = Chained(s, h, 1..Len(s))
      BY <1>1, ChainExists
    <3>2. QED
      BY <3>1 DEF Chained
  <2>3. g = [i \in 1..Len(s) |-> IF i = 1 THEN s[i] ELSE g[i - 1] \o s[i]]
    BY <2>2
  <2> HIDE DEF g
  <2>4. \A i \in 1..Len(s) : g[i] = IF i = 1 THEN s[i] ELSE g[i - 1] \o s[i]
    BY <2>3
  <2>5. 0 \in G
    <3> SUFFICES ASSUME 1 \in 1..Len(s) PROVE holds(1)
      BY <1>1
    <3>1. g[1] = s[1] /\ 1 \in DOMAIN s
      BY <1>1, <2>4
    <3>2. QED
      BY <3>1
  <2>6. ASSUME NEW n \in Nat, n \in G PROVE n + 1 \in G
    <3> SUFFICES ASSUME n + 2 \in 1..Len(s) PROVE holds(n + 2)
      OBVIOUS
    <3>1. n + 1 \in 1..Len(s) /\ n + 2 # 1 /\ (n + 2) - 1 = n + 1
      BY <1>1
    <3>2. g[n + 2] = g[n + 1] \o s[n + 2]
      BY <2>4, <3>1
    <3>3. holds(n + 1) /\ Listed(s[n + 2]) /\ n + 2 \in DOMAIN s
      BY <1>1, <2>6, <3>1
    <3>4. PICK a, b : a = g[n + 1] /\ b = s[n + 2]
      OBVIOUS
    <3>5. Listed(a \o b) /\ Range(a \o b) = Range(a) \cup Range(b)
      BY <3>3, <3>4, ListJoined
    <3>6. QED
      BY <3>2, <3>3, <3>4, <3>5
  <2> HIDE DEF G
  <2>7. \A n \in Nat : n \in G
    BY <2>5, <2>6, Everywhere
  <2>8. Len(s) - 1 \in Nat /\ (Len(s) - 1) + 1 = Len(s) /\ Len(s) \in 1..Len(s)
    BY <1>1, <1>3
  <2>9. holds(Len(s))
    BY <2>7, <2>8 DEF G
  <2>10. QED
    BY <2>1, <2>9
<1>4. QED
  BY <1>2, <1>3

-----------------------------------------------------------------------------
(* Line items and discounts *)

\* Line items of which those for a database instance are of the category of databases.
Proper(items) ==
  Listed(items) /\ \A x \in Range(items) : x.sku = "cloudsql-instance" => x.category = "Database"

\* How a bill is put together from such items.
LEMMA ProperParts ==
  /\ \A s, t : Proper(s) /\ Proper(t) => Proper(s \o t)
  /\ \A c, s : Proper(s) => Proper(When(c, s))
  /\ \A sku, category, points : sku # "cloudsql-instance" => Proper(<<Item(sku, category, points)>>)
  /\ \A points : Proper(<<Item("cloudsql-instance", "Database", points)>>)
  /\ \A j, k, m, n, p, q : j # "cloudsql-instance" /\ m # "cloudsql-instance"
                              => Proper(<<Item(j, k, p), Item(m, n, q)>>)
  /\ Proper(<<>>)
<1>1. ASSUME NEW s, NEW t, Proper(s), Proper(t) PROVE Proper(s \o t)
  <2>1. Listed(s \o t) /\ Range(s \o t) = Range(s) \cup Range(t)
    BY <1>1, ListJoined DEF Proper
  <2>2. QED
    BY <1>1, <2>1 DEF Proper
<1>2. Proper(<<>>)
  BY ListOne DEF Proper
<1>3. \A c, s : Proper(s) => Proper(When(c, s))
  BY <1>2 DEF When
<1>4. ASSUME NEW x, x.sku = "cloudsql-instance" => x.category = "Database" PROVE Proper(<<x>>)
  BY <1>4, ListOne DEF Proper
<1>5. \A sku, category, points : sku # "cloudsql-instance" => Proper(<<Item(sku, category, points)>>)
  <2> SUFFICES ASSUME NEW sku, NEW category, NEW points, sku # "cloudsql-instance"
               PROVE  Proper(<<Item(sku, category, points)>>)
    OBVIOUS
  <2>1. Item(sku, category, points).sku = sku
    BY DEF Item
  <2>2. QED
    BY <1>4, <2>1
<1>6. \A points : Proper(<<Item("cloudsql-instance", "Database", points)>>)
  <2> SUFFICES ASSUME NEW points PROVE Proper(<<Item("cloudsql-instance", "Database", points)>>)
    OBVIOUS
  <2>1. Item("cloudsql-instance", "Database", points).category = "Database"
    BY DEF Item
  <2>2. QED
    BY <1>4, <2>1
<1>7. \A j, k, m, n, p, q : j # "cloudsql-instance" /\ m # "cloudsql-instance"
                              => Proper(<<Item(j, k, p), Item(m, n, q)>>)
  <2> SUFFICES ASSUME NEW j, NEW k, NEW m, NEW n, NEW p, NEW q,
                      j # "cloudsql-instance", m # "cloudsql-instance"
               PROVE  Proper(<<Item(j, k, p), Item(m, n, q)>>)
    OBVIOUS
  <2>1. Proper(<<Item(j, k, p)>>) /\ Proper(<<Item(m, n, q)>>)
    BY <1>5
  <2>2. <<Item(j, k, p), Item(m, n, q)>> = <<Item(j, k, p)>> \o <<Item(m, n, q)>>
    OBVIOUS
  <2>3. QED
    BY <1>1, <2>1, <2>2
<1>8. QED
  BY <1>1, <1>2, <1>3, <1>5, <1>6, <1>7

\* The items of each section are.
LEMMA SectionsProper ==
  ASSUME NEW r, NEW s, s.disks # <<>> => StorageAccepted(r.storage)
  PROVE  /\ Proper(ComputeItems(r, s)) /\ Proper(DiskItems(r, s)) /\ Proper(DatabaseItems(r, s))
         /\ Proper(NetworkItems(r)) /\ Proper(KubernetesItems(r, s))
         /\ Proper(LegacyItems(r, s))
<1>1. Proper(ComputeItems(r, s))
  BY ProperParts DEF ComputeItems
<1>2. Proper(DiskItems(r, s))
  <2> SUFFICES ASSUME s.disks # <<>> PROVE Proper(DiskItems(r, s))
    BY ProperParts DEF DiskItems
  <2>1. r.storage.extra \in Seq(Nat)
    BY DEF StorageAccepted
  <2>2. Len(r.storage.extra) \in Nat /\ DOMAIN r.storage.extra = 1..Len(r.storage.extra)
    BY <2>1
  <2> DEFINE t == [i \in DOMAIN r.storage.extra |->
                     Item("disk", "Storage", Price["disk"] * s.disks[i + 1] * Instances(r))]
  <2>3. Proper(t)
    <3>1. Listed(t)
      BY <2>2, ListOf
    <3>2. \A i \in DOMAIN t : t[i].sku = "disk"
      BY DEF Item
    <3> HIDE DEF t
    <3>3. \A x \in Range(t) : x.sku = "disk"
      BY <3>2 DEF Range
    <3>4. QED
      BY <3>1, <3>3 DEF Proper
  <2> DEFINE gb == IF r.storage.snapshotGb # 0 THEN r.storage.snapshotGb ELSE s.disks[1] * Instances(r)
  <2>4. DiskItems(r, s)
          = <<Item("disk", "Storage", Price["disk"] * s.disks[1] * Instances(r))>>
            \o When(r.storage.snapshots, <<Item("snapshot-storage", "Storage", Price["snapshot-storage"] * gb)>>)
            \o When(r.storage.iops > 0,
                    <<Item("disk-provisioned-iops", "Storage",
                           Price["disk-provisioned-iops"] * r.storage.iops * Instances(r))>>)
            \o t
    BY DEF DiskItems
  <2> HIDE DEF t, gb
  <2>5. QED
    BY <2>3, <2>4, ProperParts
<1>3. Proper(DatabaseItems(r, s))
  BY ProperParts DEF DatabaseItems
<1>4. Proper(NetworkItems(r))
  BY ProperParts DEF NetworkItems
<1>5. Proper(KubernetesItems(r, s))
  BY ProperParts DEF KubernetesItems
<1>6. QED
  BY <1>1, <1>2, <1>3, <1>4, <1>5, ProperParts DEF LegacyItems

\* And so are those of the catalog's services.
LEMMA ServiceProper ==
  ASSUME NEW selection, NEW quantity
  PROVE  Proper(ServiceItems(selection, quantity))
<1> DEFINE service == selection.service
           prices == Cards[service].prices
<1>0. ASSUME NEW n \in Nat, NEW t, DOMAIN t = 1..n, t = [i \in 1..n |-> t[i]],
             \A i \in 1..n : t[i].sku = service, service # "cloudsql-instance"
      PROVE  Proper(t)
  <2>1. Listed(t)
    BY <1>0, ListOf
  <2>2. \A x \in Range(t) : x.sku = service
    BY <1>0 DEF Range
  <2>3. QED
    BY <1>0, <2>1, <2>2 DEF Proper
<1>1. CASE ~KnownCard(service)
  BY <1>1, ProperParts DEF ServiceItems
<1>2. CASE KnownCard(service) /\ service \in VolumeServices
  <2> DEFINE item(points) == [sku |-> service, category |-> Cards[service].category,
                              amount |-> Rounded(points, 100) * quantity]
  <2>1. service \in {"pubsub", "cloud-logging"}
    BY <1>2 DEF VolumeServices
  <2>2. \A points : Proper(<<item(points)>>)
    <3> SUFFICES ASSUME NEW points PROVE Proper(<<item(points)>>)
      OBVIOUS
    <3>1. item(points).sku = service
      OBVIOUS
    <3> HIDE DEF item
    <3>2. QED
      BY <2>1, <3>1, ListOne DEF Proper
  <2>3. Proper(VolumeItems(selection, quantity))
    <3>1. CASE service = "pubsub"
      <4>1. VolumeItems(selection, quantity) = <<item(Price["pubsub"] * PubSubGb(selection.form))>>
        BY <3>1 DEF VolumeItems
      <4>2. QED
        BY <2>2, <4>1
    <3>2. CASE service = "cloud-logging"
      <4> DEFINE retained == Entry(selection.form, "extended_retention_gb_per_month", 0)
      <4>1. VolumeItems(selection, quantity)
              = <<item(Price["cloud-logging"] * LoggingGb(selection.form))>>
                \o When(retained > 0, <<Item("cloud-logging", "Observability", 100 * retained * quantity)>>)
        BY <3>2 DEF VolumeItems
      <4> HIDE DEF item, retained
      <4>2. QED
        BY <2>2, <4>1, ProperParts
    <3>3. QED
      BY <2>1, <3>1, <3>2
  <2>4. QED
    BY <1>2, <2>3 DEF ServiceItems
<1>3. CASE KnownCard(service) /\ service \notin VolumeServices
  <2> DEFINE t == [i \in DOMAIN prices |-> Item(service, Cards[service].category,
                                                Points(service, selection.form, prices[i]) * quantity)]
  <2>1. ServiceItems(selection, quantity) = t
    BY <1>3 DEF ServiceItems
  <2>2. prices \in Seq(Range(prices)) /\ service # "cloudsql-instance"
    BY <1>3, CardsAssumption DEF KnownCard
  <2>3. DOMAIN prices = 1..Len(prices) /\ Len(prices) \in Nat
    BY <2>2
  <2>4. \A i \in 1..Len(prices) : t[i].sku = service
    BY <2>3 DEF Item
  <2>5. Proper(t)
    <3> DEFINE n == Len(prices)
    <3>1. DOMAIN t = 1..n /\ t = [i \in 1..n |-> t[i]] /\ n \in Nat
      BY <2>3
    <3> HIDE DEF t, n
    <3>2. \A i \in 1..n : t[i].sku = service
      BY <2>4 DEF n
    <3>3. QED
      BY <1>0, <2>2, <3>1, <3>2
  <2>6. QED
    BY <2>1, <2>5
<1>4. QED
  BY <1>1, <1>2, <1>3

\* So are all the selections',
LEMMA ExtrasProper ==
  ASSUME NEW selections, Listed(selections)
  PROVE  Proper(ExtraItems(selections))
<1> DEFINE volume == {i \in DOMAIN selections : selections[i].service \in VolumeServices}
           flat == Picked(selections, DOMAIN selections \ volume)
           ordered == flat \o Picked(selections, volume)
           parts == [i \in DOMAIN ordered |-> ServiceItems(ordered[i], ordered[i].quantity)]
<1>1. IsFiniteSet(DOMAIN selections \ volume) /\ IsFiniteSet(volume)
  <2>1. IsFiniteSet(DOMAIN selections)
    BY ListIndices
  <2>2. QED
    BY <2>1, FS_Subset
<1>2. Listed(ordered)
  <2>1. Listed(flat) /\ Listed(Picked(selections, volume))
    BY <1>1, ListPicked
  <2> HIDE DEF flat, volume
  <2>2. QED
    BY <2>1, ListJoined
<1>3. ExtraItems(selections) = FlattenSeq(parts)
  BY DEF ExtraItems
<1> HIDE DEF ordered
<1>4. DOMAIN ordered = 1..Len(ordered) /\ Len(ordered) \in Nat
  BY <1>2, ListIndices
<1>5. \A i \in DOMAIN parts : Proper(parts[i])
  BY ServiceProper
<1>6. Listed(parts)
  BY <1>4, ListOf
<1> HIDE DEF parts
<1>7. /\ Listed(FlattenSeq(parts))
      /\ \A x \in Range(FlattenSeq(parts)) : \E i \in DOMAIN parts : x \in Range(parts[i])
  BY <1>5, <1>6, ListFlattened DEF Proper
<1>8. Proper(FlattenSeq(parts))
  BY <1>5, <1>7 DEF Proper
<1>9. QED
  BY <1>3, <1>8

\* and the item of a database instance is among them when there is one.
LEMMA InstanceBilled ==
  ASSUME NEW r, NEW s, s.disks # <<>> => StorageAccepted(r.storage), s.tier # Nothing,
         NEW extras, Proper(extras)
  PROVE  LET items == LegacyItems(r, s) \o extras
         IN \E i \in DOMAIN items :
              items[i] = Item("cloudsql-instance", "Database", DatabaseMonthly(r.database, s))
<1> DEFINE x == Item("cloudsql-instance", "Database", DatabaseMonthly(r.database, s))
           more == When(r.database.size > 0,
                     <<Item("cloudsql-storage", "Database", Price["cloudsql-storage"] * r.database.size)>>)
           backup == When(r.database.backup > 0,
                       <<Item("cloudsql-backup", "Database", Price["cloudsql-backup"] * r.database.backup)>>)
<1>1. DatabaseItems(r, s) = <<x>> \o more \o backup
  BY DEF DatabaseItems
<1>2. Proper(<<x>>) /\ Proper(more) /\ Proper(backup) /\ Range(<<x>>) = {x}
  BY ProperParts, ListOne
<1>5. ASSUME NEW a, NEW b, Proper(a), Proper(b), x \in Range(a) \cup Range(b)
      PROVE  Proper(a \o b) /\ x \in Range(a \o b)
  BY <1>5, ProperParts, ListJoined DEF Proper
<1>3. Proper(DatabaseItems(r, s)) /\ x \in Range(DatabaseItems(r, s))
  <2> HIDE DEF x, more, backup
  <2>1. PICK t : t = <<x>> \o more
    OBVIOUS
  <2>2. Proper(t) /\ x \in Range(t)
    BY <1>2, <1>5, <2>1
  <2>3. Proper(t \o backup) /\ x \in Range(t \o backup)
    BY <1>2, <1>5, <2>2
  <2>4. QED
    BY <1>1, <2>1, <2>3
<1>4. Proper(ComputeItems(r, s) \o DiskItems(r, s)) /\ Proper(NetworkItems(r)) /\ Proper(KubernetesItems(r, s))
  BY SectionsProper, ProperParts
<1> HIDE DEF x
<1>6. PICK t : t = (ComputeItems(r, s) \o DiskItems(r, s)) \o DatabaseItems(r, s)
  OBVIOUS
<1>7. Proper(t) /\ x \in Range(t)
  BY <1>3, <1>4, <1>5, <1>6
<1>8. PICK u : u = t \o NetworkItems(r)
  OBVIOUS
<1>9. Proper(u) /\ x \in Range(u)
  BY <1>4, <1>5, <1>7, <1>8
<1>10. PICK v : v = u \o KubernetesItems(r, s)
  OBVIOUS
<1>11. Proper(v) /\ x \in Range(v)
  BY <1>4, <1>5, <1>9, <1>10
<1>12. x \in Range(v \o extras)
  BY <1>5, <1>11
<1>13. LegacyItems(r, s) = v
  BY <1>6, <1>8, <1>10 DEF LegacyItems
<1>14. QED
  BY <1>12, <1>13 DEF Range, x

\* A percentage of an amount is no more than the amount, rounded to the cent
LEMMA PartRounded ==
  ASSUME NEW a \in Nat, NEW p \in 0..100
  PROVE  Rounded(a * p, 100) \in Nat /\ Rounded(a * p, 100) <= a
<1>1. a * p \in Nat /\ a * p <= a * 100
  BY ProductGrows
<1>2. \A n \in Nat : n <= 100 * a => Rounded(n, 100) \in Nat /\ Rounded(n, 100) <= a
  <2> SUFFICES ASSUME NEW n \in Nat, n <= 100 * a
               PROVE  Rounded(n, 100) \in Nat /\ Rounded(n, 100) <= a
    OBVIOUS
  <2>1. PICK q \in Nat, t \in 0..99 : q = n \div 100 /\ t = n % 100 /\ n = 100 * q + t
    OBVIOUS
  <2>2. q < a \/ (q = a /\ t = 0)
    BY <2>1
  <2>3. Rounded(n, 100) = IF 2 * t > 100 \/ (2 * t = 100 /\ q % 2 = 1) THEN q + 1 ELSE q
    BY <2>1 DEF Rounded
  <2>4. QED
    BY <2>1, <2>2, <2>3
<1>3. QED
  BY <1>1, <1>2

\* What a percentage of an amount in hundredths of a cent is to the cent:
PartOff(m, p) == Rounded(m * p, 10000)

\* no more than the amount is.
LEMMA PartOfRounded ==
  ASSUME NEW m \in Nat, NEW p \in 0..100
  PROVE  PartOff(m, p) \in Nat /\ PartOff(m, p) <= Rounded(m, 100)
<1>1. m * p \in Nat /\ m * p <= m * 100
  BY ProductGrows
<1>2. \A n \in Nat : n <= 100 * m => Rounded(n, 10000) \in Nat /\ Rounded(n, 10000) <= Rounded(m, 100)
  <2> SUFFICES ASSUME NEW n \in Nat, n <= 100 * m
               PROVE  Rounded(n, 10000) \in Nat /\ Rounded(n, 10000) <= Rounded(m, 100)
    OBVIOUS
  <2>1. PICK q \in Nat, t \in 0..99 : q = m \div 100 /\ t = m % 100 /\ m = 100 * q + t
    OBVIOUS
  <2>2. PICK h \in Nat, u \in Nat : h = n \div 10000 /\ u = n % 10000 /\ u < 10000
    OBVIOUS
  <2>3. n = 10000 * h + u
    BY <2>2
  <2>4. h < q \/ (h = q /\ u <= 100 * t)
    BY <2>1, <2>2, <2>3
  <2>5. Rounded(m, 100) = IF 2 * t > 100 \/ (2 * t = 100 /\ q % 2 = 1) THEN q + 1 ELSE q
    BY <2>1 DEF Rounded
  <2>6. Rounded(n, 10000) = IF 2 * u > 10000 \/ (2 * u = 10000 /\ h % 2 = 1) THEN h + 1 ELSE h
    BY <2>2 DEF Rounded
  <2>7. QED
    BY <2>1, <2>2, <2>4, <2>5, <2>6
<1>3. QED
  BY <1>1, <1>2 DEF PartOff

\* No item is a refund.
Charges(items) == \A i \in DOMAIN items : items[i].amount \in Nat

\* A discount is for Spot where Spot was asked for, and is no more than the items cost
\* that it covers.
Fair(d, items, r) ==
  /\ d.kind = "spot" =>
       \/ d.covers = VmBucket(items) /\ r.compute # Nothing /\ r.compute.spot
       \/ d.covers = GkeBucket(items) /\ r.kubernetes # Nothing /\ r.kubernetes.spot
  /\ Charges(items) => d.savings \in Nat /\ d.savings <= SumFunctionOnSet(Amounts(items), d.covers)

\* Such discounts on some of the items, and no two on the same.
FairAll(discounts, items, some, r) ==
  /\ Listed(discounts)
  /\ \A d \in DOMAIN discounts : discounts[d].covers \subseteq some /\ Fair(discounts[d], items, r)
  /\ \A d, e \in DOMAIN discounts : d # e => discounts[d].covers \cap discounts[e].covers = {}

\* One discount is,
LEMMA FairOne ==
  ASSUME NEW d, NEW items, NEW r, NEW c \in BOOLEAN, c => Fair(d, items, r)
  PROVE  FairAll(When(c, <<d>>), items, d.covers, r)
<1>1. Listed(<<d>>) /\ Listed(<<>>)
  BY ListOne
<1>2. DOMAIN <<d>> = {1} /\ <<d>>[1] = d
  OBVIOUS
<1>3. c => FairAll(<<d>>, items, d.covers, r)
  <2> SUFFICES ASSUME c PROVE FairAll(<<d>>, items, d.covers, r)
    OBVIOUS
  <2>1. PICK t : t = <<d>>
    OBVIOUS
  <2>2. DOMAIN t = {1} /\ t[1] = d /\ Listed(t)
    BY <1>1, <1>2, <2>1
  <2>3. FairAll(t, items, d.covers, r)
    BY <2>2 DEF FairAll
  <2>4. QED
    BY <2>1, <2>3
<1>4. FairAll(<<>>, items, d.covers, r)
  BY <1>1 DEF FairAll
<1>5. QED
  BY <1>3, <1>4 DEF When

\* and discounts on items and on others.
LEMMA FairJoined ==
  ASSUME NEW items, NEW r, NEW a, NEW some, FairAll(a, items, some, r),
         NEW b, NEW others, FairAll(b, items, others, r), some \cap others = {}
  PROVE  FairAll(a \o b, items, some \cup others, r)
<1>1. PICK t : t = a \o b
  OBVIOUS
<1>2. /\ Listed(t)
      /\ \A i \in DOMAIN t : \/ i \in DOMAIN a /\ t[i] = a[i]
                             \/ i - Len(a) \in DOMAIN b /\ t[i] = b[i - Len(a)]
  BY <1>1, ListJoined DEF FairAll
<1>3. DOMAIN t \subseteq Nat /\ Len(a) \in Nat
  BY <1>2, ListIndices DEF FairAll
<1>4. \A i \in DOMAIN t : t[i].covers \subseteq some \cup others /\ Fair(t[i], items, r)
  BY <1>2 DEF FairAll
<1>5. ASSUME NEW i \in DOMAIN t, NEW j \in DOMAIN t, i # j
      PROVE  t[i].covers \cap t[j].covers = {}
  <2>1. CASE i \in DOMAIN a /\ t[i] = a[i] /\ j \in DOMAIN a /\ t[j] = a[j]
    BY <1>5, <2>1 DEF FairAll
  <2>2. CASE /\ i - Len(a) \in DOMAIN b /\ t[i] = b[i - Len(a)]
             /\ j - Len(a) \in DOMAIN b /\ t[j] = b[j - Len(a)]
    <3>1. i - Len(a) # j - Len(a)
      BY <1>3, <1>5
    <3>2. QED
      BY <2>2, <3>1 DEF FairAll
  <2>3. CASE \/ /\ i \in DOMAIN a /\ t[i] = a[i]
                /\ j - Len(a) \in DOMAIN b /\ t[j] = b[j - Len(a)]
             \/ /\ j \in DOMAIN a /\ t[j] = a[j]
                /\ i - Len(a) \in DOMAIN b /\ t[i] = b[i - Len(a)]
    <3>1. \/ t[i].covers \subseteq some /\ t[j].covers \subseteq others
          \/ t[j].covers \subseteq some /\ t[i].covers \subseteq others
      BY <2>3 DEF FairAll
    <3>2. QED
      BY <3>1
  <2>4. QED
    BY <1>2, <2>1, <2>2, <2>3
<1>6. FairAll(t, items, some \cup others, r)
  BY <1>2, <1>4, <1>5 DEF FairAll
<1>7. QED
  BY <1>1, <1>6

\* A bucket's discount is,
LEMMA BucketFair ==
  ASSUME NEW items, Listed(items), NEW r, NEW covers \in SUBSET DOMAIN items,
         NEW spot \in BOOLEAN, NEW family, NEW years,
         spot => \/ covers = VmBucket(items) /\ r.compute # Nothing /\ r.compute.spot
                 \/ covers = GkeBucket(items) /\ r.kubernetes # Nothing /\ r.kubernetes.spot
  PROVE  FairAll(BucketDiscount(items, covers, spot, family, years), items, covers, r)
<1> DEFINE amount == SumFunctionOnSet(Amounts(items), covers)
           kind == CASE spot -> "spot" [] ~spot /\ years > 0 -> "committed" [] OTHER -> "sustained"
           percent == CASE kind = "spot" -> SpotOff(family)
                        [] kind = "committed" -> CommittedPercent(years)
                        [] kind = "sustained" -> Sustained
           d == Discount(kind, covers, amount, percent)
           c == amount > 0 /\ percent > 0
<1>1. BucketDiscount(items, covers, spot, family, years) = When(c, <<d>>)
  BY DEF BucketDiscount
<1>2. kind \in {"spot", "committed", "sustained"} /\ (kind = "spot" => spot)
  OBVIOUS
<1>3. percent \in 0..100
  <2> HIDE DEF kind
  <2>1. SpotOff(family) \in 0..100 /\ CommittedPercent(years) \in 0..100 /\ Sustained \in 0..100
    BY DiscountAssumption DEF SpotOff, CommittedPercent
  <2>2. QED
    BY <1>2, <2>1
<1>4. Charges(items) => amount \in Nat
  <2> SUFFICES ASSUME Charges(items) PROVE amount \in Nat
    OBVIOUS
  <2>1. IsFiniteSet(covers)
    BY ListIndices, FS_Subset
  <2>2. \A i \in covers : Amounts(items)[i] \in Nat
    BY DEF Charges, Amounts
  <2>3. QED
    BY <2>1, <2>2, SumType
<1>5. d.kind = kind /\ d.covers = covers /\ d.savings = Rounded(amount * percent, 100)
  BY DEF Discount
<1> HIDE DEF amount, kind, percent, d
<1>6. Charges(items) => d.savings \in Nat /\ d.savings <= amount
  BY <1>3, <1>4, <1>5, PartRounded
<1>7. Fair(d, items, r)
  BY <1>2, <1>5, <1>6 DEF Fair, amount
<1>8. FairAll(When(c, <<d>>), items, d.covers, r)
  BY <1>7, FairOne
<1>9. QED
  BY <1>1, <1>5, <1>8

\* Its discount is fair, too,
LEMMA DatabaseFair ==
  ASSUME NEW r, NEW s, Quoted(r, s), NEW items, Listed(items),
         s.tier # Nothing =>
           \E i \in DOMAIN items :
             items[i] = Item("cloudsql-instance", "Database", DatabaseMonthly(r.database, s))
  PROVE  FairAll(DatabaseDiscount(r, s, items), items,
                 {i \in DOMAIN items : items[i].sku = "cloudsql-instance"}, r)
<1>1. PICK covers : covers = {i \in DOMAIN items : items[i].sku = "cloudsql-instance"}
  OBVIOUS
<1>2. \A m \in Nat, p \in 0..100 : PartOff(m, p) \in Nat /\ PartOff(m, p) <= Rounded(m, 100)
  BY PartOfRounded
<1>3. CASE s.tier = Nothing
  <2>1. DatabaseDiscount(r, s, items) = <<>>
    BY <1>3 DEF DatabaseDiscount
  <2>2. Listed(<<>>)
    BY ListOne
  <2>3. FairAll(<<>>, items, covers, r)
    BY <2>2 DEF FairAll
  <2>4. QED
    BY <1>1, <2>1, <2>3
<1>4. CASE s.tier # Nothing
  <2>1. PICK p : p = CommittedPercent(r.database.commitment)
    OBVIOUS
  <2>2. p \in 0..100 /\ (p > 0) \in BOOLEAN
    <3>1. \A years : CommittedPercent(years) \in 0..100
      BY DiscountAssumption DEF CommittedPercent
    <3>2. p \in 0..100
      BY <2>1, <3>1
    <3>3. QED
      BY <3>2
  <2>3. PICK m : m = DatabaseMonthly(r.database, s)
    OBVIOUS
  <2>4. m \in Nat
    <3>1. TierPrice[s.tier.tier] \in Nat
      BY <1>4, DiscountAssumption DEF Quoted
    <3>2. QED
      BY <2>3, <3>1 DEF DatabaseMonthly, HoursPerMonth
  <2>5. PICK d : d = [kind |-> "committed", covers |-> covers, savings |-> PartOff(m, p)]
    OBVIOUS
  <2>6. DatabaseDiscount(r, s, items) = When(p > 0, <<d>>)
    BY <1>1, <1>4, <2>1, <2>3, <2>5 DEF DatabaseDiscount, PartOff
  <2>7. d.kind = "committed" /\ d.covers = covers /\ d.savings = PartOff(m, p)
    BY <2>5
  <2>8. PICK i \in DOMAIN items : items[i] = Item("cloudsql-instance", "Database", m)
    BY <1>4, <2>3
  <2>9. i \in covers /\ items[i].amount = Rounded(m, 100)
    BY <1>1, <2>8 DEF Item
  <2>10. ASSUME Charges(items)
         PROVE  d.savings \in Nat /\ d.savings <= SumFunctionOnSet(Amounts(items), covers)
    <3>1. PICK f : f = Amounts(items)
      OBVIOUS
    <3>2. covers \subseteq DOMAIN items /\ IsFiniteSet(covers) /\ IsFiniteSet(covers \ {i})
      BY <1>1, ListIndices, FS_Subset
    <3>3. \A j \in covers : f[j] \in Nat /\ f[j] = items[j].amount
      BY <2>10, <3>1, <3>2 DEF Charges, Amounts
    <3>4. \A j \in covers : f[j] \in Int
      BY <3>3
    <3>5. SumFunctionOnSet(f, covers) = f[i] + SumFunctionOnSet(f, covers \ {i})
      BY <2>9, <3>2, <3>4, SumWithout
    <3>6. SumFunctionOnSet(f, covers \ {i}) \in Nat
      BY <3>2, <3>3, SumType
    <3>7. PartOff(m, p) \in Nat /\ PartOff(m, p) <= Rounded(m, 100)
      BY <1>2, <2>2, <2>4
    <3>8. f[i] = Rounded(m, 100) /\ f[i] \in Nat
      BY <2>9, <3>3
    <3>9. QED
      BY <2>7, <3>1, <3>5, <3>6, <3>7, <3>8
  <2>11. Fair(d, items, r)
    BY <2>7, <2>10 DEF Fair
  <2>12. FairAll(When(p > 0, <<d>>), items, d.covers, r)
    BY <2>2, <2>11, FairOne
  <2>13. QED
    BY <1>1, <2>6, <2>7, <2>12
<1>5. QED
  BY <1>3, <1>4

\* and all the discounts of a bill.
LEMMA DiscountsFair ==
  ASSUME NEW r, NEW s, s.disks # <<>> => StorageAccepted(r.storage), Quoted(r, s),
         NEW extras, Proper(extras), NEW items, items = LegacyItems(r, s) \o extras, NEW years
  PROVE  /\ Listed(items)
         /\ \E some \in SUBSET DOMAIN items : FairAll(Discounts(r, s, items, years), items, some, r)
<1> DEFINE vmSpot == r.compute # Nothing /\ r.compute.spot
           vmFamily == IF s.compute = Nothing THEN "e2" ELSE s.compute.family
           gkeSpot == r.kubernetes # Nothing /\ r.kubernetes.spot
           gkeFamily == IF r.kubernetes = Nothing THEN "e2" ELSE r.kubernetes.family
           instances == {i \in DOMAIN items : items[i].sku = "cloudsql-instance"}
           a == DatabaseDiscount(r, s, items)
           b == BucketDiscount(items, VmBucket(items), vmSpot, vmFamily, years)
           c == BucketDiscount(items, GkeBucket(items), gkeSpot, gkeFamily, years)
<1>1. Proper(items) /\ Listed(items)
  BY SectionsProper, ProperParts DEF Proper
<1>2. FairAll(a, items, instances, r)
  <2>1. s.tier # Nothing =>
          \E i \in DOMAIN items :
            items[i] = Item("cloudsql-instance", "Database", DatabaseMonthly(r.database, s))
    BY InstanceBilled
  <2>2. QED
    BY <1>1, <2>1, DatabaseFair
<1>3. VmBucket(items) \in SUBSET DOMAIN items /\ GkeBucket(items) \in SUBSET DOMAIN items
  BY DEF VmBucket, GkeBucket
<1>4. FairAll(b, items, VmBucket(items), r)
  <2>1. vmSpot \in BOOLEAN /\ (vmSpot => r.compute # Nothing /\ r.compute.spot)
    OBVIOUS
  <2> HIDE DEF vmSpot, vmFamily
  <2>2. QED
    BY <1>1, <1>3, <2>1, BucketFair
<1>5. FairAll(c, items, GkeBucket(items), r)
  <2>1. gkeSpot \in BOOLEAN /\ (gkeSpot => r.kubernetes # Nothing /\ r.kubernetes.spot)
    OBVIOUS
  <2> HIDE DEF gkeSpot, gkeFamily
  <2>2. QED
    BY <1>1, <1>3, <2>1, BucketFair
<1>6. /\ instances \cap VmBucket(items) = {}
      /\ (instances \cup VmBucket(items)) \cap GkeBucket(items) = {}
  <2>1. \A i \in DOMAIN items : items[i].sku = "cloudsql-instance" => items[i].category = "Database"
    BY <1>1 DEF Proper, Range
  <2>2. instances \cap VmBucket(items) = {}
    BY <2>1 DEF VmBucket
  <2>3. PoolSkus \subseteq GkeSkus /\ "cloudsql-instance" \notin PoolSkus
    BY DEF PoolSkus, GkeSkus
  <2>4. VmBucket(items) \cap GkeBucket(items) = {}
    BY <2>3 DEF VmBucket, GkeBucket
  <2>5. instances \cap GkeBucket(items) = {}
    BY <2>3 DEF GkeBucket
  <2>6. QED
    BY <2>2, <2>4, <2>5
<1>7. Discounts(r, s, items, years) = (a \o b) \o c
  BY DEF Discounts
<1>8. instances \subseteq DOMAIN items
  OBVIOUS
<1> HIDE DEF a, b, c, instances
<1>9. FairAll(a \o b, items, instances \cup VmBucket(items), r)
  BY <1>2, <1>4, <1>6, FairJoined
<1>10. FairAll((a \o b) \o c, items, (instances \cup VmBucket(items)) \cup GkeBucket(items), r)
  BY <1>5, <1>6, <1>9, FairJoined
<1>11. QED
  BY <1>1, <1>3, <1>7, <1>8, <1>10

\* They are no more than the bill.
LEMMA DiscountsBounded ==
  ASSUME NEW items, Listed(items), Charges(items), NEW r, NEW some \in SUBSET DOMAIN items,
         NEW discounts, FairAll(discounts, items, some, r)
  PROVE  SumFunction([d \in DOMAIN discounts |-> discounts[d].savings]) <= Sum(items)
<1> DEFINE savings == [d \in DOMAIN discounts |-> discounts[d].savings]
           amounts == Amounts(items)
           covered(s) == UNION {discounts[d].covers : d \in s}
           W == {s \in SUBSET DOMAIN discounts :
                   SumFunctionOnSet(savings, s) <= SumFunctionOnSet(amounts, covered(s))}
<1>1. IsFiniteSet(DOMAIN discounts) /\ IsFiniteSet(DOMAIN items)
  BY ListIndices DEF FairAll
<1>2. \A d \in DOMAIN discounts : /\ savings[d] \in Nat /\ discounts[d].covers \subseteq DOMAIN items
                                  /\ savings[d] <= SumFunctionOnSet(amounts, discounts[d].covers)
  BY DEF FairAll, Fair
<1>3. DOMAIN amounts = DOMAIN items /\ \A i \in DOMAIN items : amounts[i] \in Nat
  BY DEF Amounts, Charges
<1> HIDE DEF savings, amounts
<1>4. \A s \in SUBSET DOMAIN discounts : covered(s) \subseteq DOMAIN items /\ IsFiniteSet(covered(s))
  <2> SUFFICES ASSUME NEW s \in SUBSET DOMAIN discounts
               PROVE  covered(s) \subseteq DOMAIN items /\ IsFiniteSet(covered(s))
    OBVIOUS
  <2>1. covered(s) \subseteq DOMAIN items
    BY <1>2
  <2>2. QED
    BY <1>1, <2>1, FS_Subset
<1>5. {} \in W
  <2>1. covered({}) = {}
    OBVIOUS
  <2>2. SumFunctionOnSet(savings, {}) = 0 /\ SumFunctionOnSet(amounts, {}) = 0
    BY SumNone
  <2>3. QED
    BY <2>1, <2>2
<1>6. ASSUME NEW s \in SUBSET DOMAIN discounts, s # {}, s \ {One(s)} \in W PROVE s \in W
  <2> DEFINE d == One(s)
             t == s \ {d}
             C == discounts[d].covers
  <2>1. d \in s /\ IsFiniteSet(s) /\ IsFiniteSet(t)
    BY <1>1, <1>6, OneLess, FS_Subset
  <2>2. SumFunctionOnSet(savings, s) = savings[d] + SumFunctionOnSet(savings, t)
    BY <1>6, <2>1, SumTakes
  <2> HIDE DEF d
  <2>3. covered(s) = C \cup covered(t) /\ C \cap covered(t) = {} /\ C \subseteq DOMAIN items
    <3>1. covered(s) = C \cup covered(t)
      BY <2>1
    <3>2. \A e \in t : C \cap discounts[e].covers = {}
      BY <2>1 DEF FairAll
    <3>3. C \cap covered(t) = {}
      BY <3>2
    <3>4. QED
      BY <1>2, <2>1, <3>1, <3>3
  <2>4. IsFiniteSet(C) /\ IsFiniteSet(covered(t)) /\ covered(t) \subseteq DOMAIN items
    BY <1>1, <1>4, <2>3, FS_Subset
  <2>5. SumFunctionOnSet(savings, t) <= SumFunctionOnSet(amounts, covered(t))
    BY <1>6 DEF d
  <2> DEFINE T == covered(t)
             S == covered(s)
  <2>6. S = C \cup T /\ C \cap T = {} /\ IsFiniteSet(C) /\ IsFiniteSet(T) /\ C \cup T \subseteq DOMAIN items
    BY <2>3, <2>4
  <2>7. savings[d] <= SumFunctionOnSet(amounts, C) /\ savings[d] \in Nat
    BY <1>2, <2>1
  <2>8. SumFunctionOnSet(savings, t) \in Int
    BY <1>2, <2>1, SumType
  <2>9. SumFunctionOnSet(savings, t) <= SumFunctionOnSet(amounts, T)
    BY <2>5
  <2> HIDE DEF C, T, S, t
  <2>10. SumFunctionOnSet(amounts, S) = SumFunctionOnSet(amounts, C) + SumFunctionOnSet(amounts, T)
    BY <1>3, <2>6, SumUnion
  <2>11. SumFunctionOnSet(amounts, C) \in Int /\ SumFunctionOnSet(amounts, T) \in Int
    BY <1>3, <2>6, SumType
  <2>12. SumFunctionOnSet(savings, s) <= SumFunctionOnSet(amounts, S)
    BY <2>2, <2>7, <2>8, <2>9, <2>10, <2>11
  <2>13. QED
    BY <2>12 DEF S
<1> HIDE DEF W
<1>7. DOMAIN discounts \in W
  BY <1>1, <1>5, <1>6, EveryPart
<1>8. SumFunctionOnSet(amounts, covered(DOMAIN discounts)) <= SumFunctionOnSet(amounts, DOMAIN items)
  BY <1>1, <1>3, <1>4, SumGrows
<1>9. SumFunctionOnSet(savings, DOMAIN discounts) <= SumFunctionOnSet(amounts, DOMAIN items)
  <2>1. /\ SumFunctionOnSet(savings, DOMAIN discounts) \in Int
        /\ SumFunctionOnSet(amounts, covered(DOMAIN discounts)) \in Int
        /\ SumFunctionOnSet(amounts, DOMAIN items) \in Int
    BY <1>1, <1>2, <1>3, <1>4, SumType
  <2>2. SumFunctionOnSet(savings, DOMAIN discounts) <= SumFunctionOnSet(amounts, covered(DOMAIN discounts))
    BY <1>7 DEF W
  <2> HIDE DEF covered
  <2>3. QED
    BY <1>8, <2>1, <2>2
<1>10. QED
  BY <1>3, <1>9 DEF SumFunction, Sum, savings, amounts

\* What is left over is a list.
LEMMA LeftOverListed ==
  ASSUME NEW w, Accepted(w)
  PROVE  Listed(LeftOver(w))
<1> DEFINE left == {k \in DOMAIN w.selected :
                      \/ BindingOf(w.selected[k]) = "none"
                      \/ \E j \in Bound(w, BindingOf(w.selected[k])) : j < k}
<1>1. IsFiniteSet(DOMAIN w.selected)
  <2>1. DOMAIN w.selected = 1..Len(w.selected) /\ Len(w.selected) \in Nat
    BY DEF Accepted
  <2>2. QED
    BY <2>1, FS_Interval
<1>2. IsFiniteSet(left)
  <2>1. left \subseteq DOMAIN w.selected
    OBVIOUS
  <2>2. QED
    BY <1>1, <2>1, FS_Subset
<1>3. LeftOver(w) = Picked(w.selected, left)
  BY DEF LeftOver
<1> HIDE DEF left
<1>4. QED
  BY <1>2, <1>3, ListPicked

\* There are disks in a specification when there is storage in the requirement.
LEMMA DisksAsked ==
  ASSUME NEW r, Normalize(r).spec.disks # <<>>
  PROVE  r.storage # Nothing
<1> DEFINE compute == IF r.compute # Nothing THEN NormalizeCompute(r.compute, r.strategy)
                      ELSE [machine |-> Nothing, notes |-> {}]
           disks == IF r.storage # Nothing THEN Disks(r.storage) ELSE <<>>
           database == IF r.database # Nothing /\ r.database.required
                       THEN NormalizeDatabase(r.database, r.strategy)
                       ELSE [tier |-> Nothing, notes |-> {}]
           nodes == IF r.kubernetes # Nothing /\ r.kubernetes.required THEN NodeCount(r.kubernetes)
                    ELSE Nothing
<1>1. Normalize(r) = Specified(r, compute, disks, database, nodes)
  BY DEF Normalize
<1>2. Normalize(r).spec.disks = disks
  <2> HIDE DEF compute, disks, database, nodes
  <2>1. QED
    BY <1>1 DEF Specified
<1>3. QED
  BY <1>2

\* No line item is discounted twice, whatever the prices and the percentages, Spot
\* reaches only what was asked for as Spot, and the discounts are no more than the bill
\* (pricing/engine.py:241-260, 505-570), unless the bill has refunds in it.
THEOREM Apart == ApiSpec => []DiscountsApart
<1>1. Staged /\ AllAccepted => DiscountsApart
  <2> SUFFICES ASSUME Staged, AllAccepted, stage = "done" PROVE DiscountsApart
    BY DEF DiscountsApart
  <2> DEFINE w == Recommended(req).work
             extras == ExtraItems(rest)
             items == LegacyItems(work, spec) \o extras
             discounts == Discounts(work, spec, items, work.term)
             some(sku) == \E d \in DOMAIN discounts : /\ discounts[d].kind = "spot"
                                                      /\ \E i \in discounts[d].covers : items[i].sku = sku
  <2>1. /\ cost = Calculate(work, spec, extras, work.term) /\ Quoted(work, spec)
        /\ rest = LeftOver(w) /\ spec = Normalize(work).spec
    BY DEF Staged
  <2>2. Accepted(w) /\ Accepted(work)
    BY RecommendedAccepted, WorkAccepted DEF AllAccepted
  <2>3. Proper(extras)
    <3>1. Listed(rest)
      BY <2>1, <2>2, LeftOverListed
    <3>2. QED
      BY <3>1, ExtrasProper
  <2>4. spec.disks # <<>> => StorageAccepted(work.storage)
    BY <2>1, <2>2, DisksAsked DEF Accepted
  <2>5. /\ Listed(items)
        /\ \E covered \in SUBSET DOMAIN items : FairAll(discounts, items, covered, work)
    BY <2>1, <2>3, <2>4, DiscountsFair
  <2>6. /\ cost.items = items /\ cost.discounts = discounts /\ cost.subtotal = Sum(items)
        /\ cost.discountTotal = SumFunction([d \in DOMAIN discounts |-> discounts[d].savings])
    <3>1. cost = Breakdown(items, Len(LegacyItems(work, spec)), discounts)
      BY <2>1 DEF Calculate, CalculateOver
    <3> HIDE DEF items, discounts
    <3>2. QED
      BY <3>1 DEF Breakdown
  <2> HIDE DEF items, discounts, extras, w
  <2>7. PICK covered \in SUBSET DOMAIN items : FairAll(discounts, items, covered, work)
    BY <2>5
  <2>8. \A d, e \in DOMAIN discounts : d # e => discounts[d].covers \cap discounts[e].covers = {}
    BY <2>7 DEF FairAll
  <2>9. ASSUME NEW d \in DOMAIN discounts, discounts[d].kind = "spot"
        PROVE  \/ /\ \A i \in discounts[d].covers : items[i].sku \notin PoolSkus
                  /\ work.compute.spot
               \/ /\ \A i \in discounts[d].covers : items[i].sku \in PoolSkus
                  /\ work.kubernetes.spot
    <3>1. Fair(discounts[d], items, work)
      BY <2>7 DEF FairAll
    <3>2. PoolSkus \subseteq GkeSkus
      BY DEF PoolSkus, GkeSkus
    <3>3. \A i \in VmBucket(items) : items[i].sku \notin PoolSkus
      BY <3>2 DEF VmBucket
    <3>4. \A i \in GkeBucket(items) : items[i].sku \in PoolSkus
      BY DEF GkeBucket
    <3>5. QED
      BY <2>9, <3>1, <3>3, <3>4 DEF Fair
  <2>10. \A sku \in PoolSkus : some(sku) => work.kubernetes.spot
    BY <2>9
  <2>11. \A sku \in {"compute", "gpu"} : some(sku) => work.compute.spot
    <3>1. "compute" \notin PoolSkus /\ "gpu" \notin PoolSkus
      BY DEF PoolSkus
    <3>2. QED
      BY <2>9, <3>1
  <2>12. (\A i \in DOMAIN items : items[i].amount \in Nat) => cost.discountTotal <= cost.subtotal
    BY <2>5, <2>6, <2>7, DiscountsBounded DEF Charges
  <2>13. QED
    BY <2>6, <2>8, <2>10, <2>11, <2>12 DEF DiscountsApart
<1>2. QED
  BY <1>1, Determined, PTL

-----------------------------------------------------------------------------
(* Sums of sums *)

\* The sum over what is mapped to some of the values is the sum of the values' sums.
LEMMA SumParts ==
  ASSUME NEW f, NEW S, IsFiniteSet(S), \A x \in S : f[x] \in Int,
         NEW h, NEW T, IsFiniteSet(T), \A x \in S : h[x] \in T,
         NEW at, \A t \in T : at[t] \subseteq S, \A t \in T : \A x \in S : x \in at[t] <=> h[x] = t,
         NEW g, \A t \in T : g[t] = SumFunctionOnSet(f, at[t])
  PROVE  SumFunctionOnSet(f, S) = SumFunctionOnSet(g, T)
<1> DEFINE of(u) == {x \in S : h[x] \in u}
           W == {u \in SUBSET T : SumFunctionOnSet(f, of(u)) = SumFunctionOnSet(g, u)}
<1>1. {} \in W
  <2>1. of({}) = {}
    OBVIOUS
  <2>2. SumFunctionOnSet(f, {}) = 0 /\ SumFunctionOnSet(g, {}) = 0
    BY SumNone
  <2> HIDE DEF of
  <2>3. QED
    BY <2>1, <2>2
<1>2. \A A \in SUBSET S : IsFiniteSet(A) /\ SumFunctionOnSet(f, A) \in Int
  <2>1. \A A \in SUBSET S : IsFiniteSet(A)
    BY FS_Subset
  <2>2. QED
    BY <2>1, SumType
<1>3. ASSUME NEW u \in SUBSET T, u # {}, u \ {One(u)} \in W PROVE u \in W
  <2> DEFINE t == One(u)
             v == u \ {t}
  <2>1. t \in u /\ IsFiniteSet(u)
    BY <1>3, OneLess
  <2>2. /\ of(u) = of(v) \cup at[t] /\ of(v) \cap at[t] = {}
        /\ of(u) \in SUBSET S /\ of(v) \in SUBSET S /\ at[t] \in SUBSET S
    <3>1. t \in T /\ at[t] \subseteq S /\ \A x \in S : x \in at[t] <=> h[x] = t
      BY <2>1
    <3>2. QED
      BY <2>1, <3>1
  <2>3. g[t] = SumFunctionOnSet(f, at[t])
    BY <2>1
  <2>4. SumFunctionOnSet(f, of(v)) = SumFunctionOnSet(g, v)
    BY <1>3
  <2>5. SumFunctionOnSet(g, u) = g[t] + SumFunctionOnSet(g, v)
    BY <1>3, <2>1, SumTakes
  <2> HIDE DEF of, v
  <2>6. PICK A \in SUBSET S, B \in SUBSET S : A = of(v) /\ B = at[t]
    BY <2>2
  <2>7. SumFunctionOnSet(f, A \cup B) = SumFunctionOnSet(f, A) + SumFunctionOnSet(f, B)
    <3>1. A \cap B = {} /\ IsFiniteSet(A) /\ IsFiniteSet(B) /\ \A x \in A \cup B : f[x] \in Int
      BY <1>2, <2>2, <2>6
    <3>2. QED
      BY <3>1, SumUnion
  <2>8. SumFunctionOnSet(f, A) \in Int /\ SumFunctionOnSet(f, B) \in Int
    BY <1>2
  <2>9. SumFunctionOnSet(f, of(u)) = SumFunctionOnSet(g, u)
    BY <2>2, <2>3, <2>4, <2>5, <2>6, <2>7, <2>8
  <2>10. QED
    BY <2>9
<1>4. of(T) = S
  OBVIOUS
<1> HIDE DEF W, of
<1>5. T \in W
  BY <1>1, <1>3, EveryPart
<1>6. QED
  BY <1>4, <1>5 DEF W

\* A factor of all that a sum adds is one of the sum.
LEMMA SumScaled ==
  ASSUME NEW f, NEW S, IsFiniteSet(S), \A x \in S : f[x] \in Int, NEW c \in Int,
         NEW e, \A x \in S : e[x] = f[x] * c
  PROVE  SumFunctionOnSet(e, S) = SumFunctionOnSet(f, S) * c
<1> DEFINE W == {s \in SUBSET S : SumFunctionOnSet(e, s) = SumFunctionOnSet(f, s) * c}
<1>1. {} \in W
  <2>1. SumFunctionOnSet(f, {}) = 0 /\ SumFunctionOnSet(e, {}) = 0 /\ 0 * c = 0
    BY SumNone
  <2>2. QED
    BY <2>1
<1>2. ASSUME NEW s \in SUBSET S, s # {}, s \ {One(s)} \in W PROVE s \in W
  <2>1. One(s) \in s /\ IsFiniteSet(s) /\ IsFiniteSet(s \ {One(s)})
    BY <1>2, OneLess, FS_Subset
  <2>2. /\ SumFunctionOnSet(f, s) = f[One(s)] + SumFunctionOnSet(f, s \ {One(s)})
        /\ SumFunctionOnSet(e, s) = e[One(s)] + SumFunctionOnSet(e, s \ {One(s)})
    BY <1>2, <2>1, SumTakes
  <2>3. SumFunctionOnSet(f, s \ {One(s)}) \in Int
    BY <2>1, SumType
  <2>4. PICK a \in Int, r \in Int : a = f[One(s)] /\ r = SumFunctionOnSet(f, s \ {One(s)})
    BY <2>1, <2>3
  <2>5. SumFunctionOnSet(f, s) = a + r /\ SumFunctionOnSet(e, s) = a * c + r * c
    BY <1>2, <2>1, <2>2, <2>4
  <2>6. (a + r) * c = a * c + r * c
    OBVIOUS
  <2>7. QED
    BY <2>5, <2>6
<1> HIDE DEF W
<1>3. S \in W
  BY <1>1, <1>2, EveryPart
<1>4. QED
  BY <1>3 DEF W

\* The sum of noughts.
LEMMA SumNoughts ==
  ASSUME NEW f, NEW S, IsFiniteSet(S), \A x \in S : f[x] = 0
  PROVE  SumFunctionOnSet(f, S) = 0
<1>1. SumFunctionOnSet(f, S) = SumFunctionOnSet(f, S) * 0 /\ SumFunctionOnSet(f, S) \in Int
  <2>1. \A x \in S : f[x] \in Int /\ f[x] = f[x] * 0
    OBVIOUS
  <2>2. QED
    BY <2>1, SumScaled, SumType
<1>2. QED
  BY <1>1

\* Two sums are no further apart than what they add.
LEMMA SumApart ==
  ASSUME NEW f, NEW e, NEW c, NEW S, IsFiniteSet(S),
         \A x \in S : f[x] \in Int /\ e[x] \in Int /\ c[x] \in Int /\ 2 * Gap(f[x], e[x]) <= c[x]
  PROVE  2 * Gap(SumFunctionOnSet(f, S), SumFunctionOnSet(e, S)) <= SumFunctionOnSet(c, S)
<1> DEFINE W == {s \in SUBSET S :
                   2 * Gap(SumFunctionOnSet(f, s), SumFunctionOnSet(e, s)) <= SumFunctionOnSet(c, s)}
<1>1. {} \in W
  <2>1. SumFunctionOnSet(f, {}) = 0 /\ SumFunctionOnSet(e, {}) = 0 /\ SumFunctionOnSet(c, {}) = 0
    BY SumNone
  <2>2. QED
    BY <2>1 DEF Gap
<1>2. ASSUME NEW s \in SUBSET S, s # {}, s \ {One(s)} \in W PROVE s \in W
  <2> DEFINE x == One(s)
             r == s \ {x}
  <2>1. x \in s /\ IsFiniteSet(s) /\ IsFiniteSet(r)
    BY <1>2, OneLess, FS_Subset
  <2>2. /\ SumFunctionOnSet(f, s) = f[x] + SumFunctionOnSet(f, r)
        /\ SumFunctionOnSet(e, s) = e[x] + SumFunctionOnSet(e, r)
        /\ SumFunctionOnSet(c, s) = c[x] + SumFunctionOnSet(c, r)
    BY <1>2, <2>1, SumTakes
  <2>3. 2 * Gap(SumFunctionOnSet(f, r), SumFunctionOnSet(e, r)) <= SumFunctionOnSet(c, r)
    BY <1>2
  <2>4. /\ SumFunctionOnSet(f, r) \in Int /\ SumFunctionOnSet(e, r) \in Int
        /\ SumFunctionOnSet(c, r) \in Int
    BY <2>1, SumType
  <2>5. 2 * Gap(f[x], e[x]) <= c[x] /\ f[x] \in Int /\ e[x] \in Int /\ c[x] \in Int
    BY <2>1
  <2> HIDE DEF x, r
  <2>6. PICK i \in Int, j \in Int, k \in Int : /\ i = SumFunctionOnSet(f, r) /\ j = SumFunctionOnSet(e, r)
                                                /\ k = SumFunctionOnSet(c, r)
    BY <2>4
  <2>7. 2 * Gap(f[x] + i, e[x] + j) <= c[x] + k
    <3>1. 2 * Gap(i, j) <= k
      BY <2>3, <2>6
    <3>2. QED
      BY <2>5, <3>1 DEF Gap
  <2>8. 2 * Gap(SumFunctionOnSet(f, s), SumFunctionOnSet(e, s)) <= SumFunctionOnSet(c, s)
    BY <2>2, <2>6, <2>7
  <2>9. QED
    BY <2>8
<1> HIDE DEF W
<1>3. S \in W
  BY <1>1, <1>2, EveryPart
<1>4. QED
  BY <1>3 DEF W

\* The sum of a number over and over.
LEMMA SumConstant ==
  ASSUME NEW f, NEW S, IsFiniteSet(S), NEW c \in Int, \A x \in S : f[x] = c
  PROVE  SumFunctionOnSet(f, S) = Cardinality(S) * c
<1> DEFINE W == {s \in SUBSET S : SumFunctionOnSet(f, s) = Cardinality(s) * c}
<1>1. {} \in W
  <2>1. SumFunctionOnSet(f, {}) = 0 /\ Cardinality({}) = 0 /\ 0 * c = 0
    BY SumNone, FS_EmptySet
  <2>2. QED
    BY <2>1
<1>2. ASSUME NEW s \in SUBSET S, s # {}, s \ {One(s)} \in W PROVE s \in W
  <2>1. One(s) \in s /\ Cardinality(s) \in Nat /\ Cardinality(s \ {One(s)}) = Cardinality(s) - 1
    BY <1>2, OneLess
  <2>2. SumFunctionOnSet(f, s) = f[One(s)] + SumFunctionOnSet(f, s \ {One(s)})
    BY <1>2, OneLess, SumTakes
  <2>3. PICK n \in Int : n = Cardinality(s)
    BY <2>1
  <2>4. SumFunctionOnSet(f, s) = c + (n - 1) * c
    BY <1>2, <2>1, <2>2, <2>3
  <2>5. c + (n - 1) * c = n * c
    OBVIOUS
  <2>6. QED
    BY <2>3, <2>4, <2>5
<1> HIDE DEF W
<1>3. S \in W
  BY <1>1, <1>2, EveryPart
<1>4. QED
  BY <1>3 DEF W

\* The sum of one number,
LEMMA SumOne ==
  ASSUME NEW f, NEW a, f[a] \in Int
  PROVE  SumFunctionOnSet(f, {a}) = f[a]
<1>1. IsFiniteSet({a}) /\ One({a}) = a /\ {a} \ {a} = {} /\ {a} # {}
  BY FS_Singleton DEF One
<1>2. SumFunctionOnSet(f, {a}) = f[One({a})] + SumFunctionOnSet(f, {a} \ {One({a})})
  BY <1>1, SumTakes
<1>3. SumFunctionOnSet(f, {}) = 0
  BY SumNone
<1>4. SumFunctionOnSet(f, {a}) = f[a] + 0
  BY <1>1, <1>2, <1>3
<1>5. QED
  BY <1>4

\* and of numbers that only have other names.
LEMMA SumMoved ==
  ASSUME NEW f, NEW S, IsFiniteSet(S), \A x \in S : f[x] \in Int,
         NEW g, NEW T, IsFiniteSet(T),
         NEW h, \A x \in S : h[x] \in T,
         NEW k, \A t \in T : k[t] \in S /\ h[k[t]] = t /\ g[t] = f[k[t]],
         \A x \in S : k[h[x]] = x
  PROVE  SumFunctionOnSet(f, S) = SumFunctionOnSet(g, T)
<1> DEFINE at == [t \in T |-> {k[t]}]
<1>1. ASSUME NEW t \in T
      PROVE  at[t] \subseteq S /\ (\A x \in S : x \in at[t] <=> h[x] = t) /\ g[t] = SumFunctionOnSet(f, at[t])
  <2>1. SumFunctionOnSet(f, {k[t]}) = f[k[t]]
    BY SumOne
  <2>2. QED
    BY <2>1
<1> HIDE DEF at
<1>2. QED
  BY <1>1, SumParts

-----------------------------------------------------------------------------
(* Bills *)

\* A list of items with amounts.
Charged(items) == Listed(items) /\ \A x \in Range(items) : x.amount \in Int

\* Its sum is that of its amounts.
LEMMA ChargedSum ==
  ASSUME NEW s, Charged(s)
  PROVE  /\ IsFiniteSet(DOMAIN s) /\ DOMAIN s = 1..Len(s) /\ Len(s) \in Nat
         /\ DOMAIN Amounts(s) = DOMAIN s
         /\ \A i \in DOMAIN s : Amounts(s)[i] = s[i].amount /\ Amounts(s)[i] \in Int
         /\ Sum(s) = SumFunctionOnSet(Amounts(s), DOMAIN s) /\ Sum(s) \in Int
<1>1. IsFiniteSet(DOMAIN s) /\ DOMAIN s = 1..Len(s) /\ Len(s) \in Nat
  BY ListIndices DEF Charged
<1>2. \A i \in DOMAIN s : s[i].amount \in Int
  BY DEF Charged, Range
<1>3. DOMAIN Amounts(s) = DOMAIN s /\ \A i \in DOMAIN s : Amounts(s)[i] = s[i].amount /\ Amounts(s)[i] \in Int
  BY <1>2 DEF Amounts
<1>4. Sum(s) = SumFunctionOnSet(Amounts(s), DOMAIN s)
  BY <1>3 DEF Sum, SumFunction
<1>5. Sum(s) \in Int
  BY <1>1, <1>3, <1>4, SumType
<1>6. QED
  BY <1>1, <1>3, <1>4, <1>5

\* A bill of two parts comes to what the two come to.
LEMMA SumJoined ==
  ASSUME NEW s, Charged(s), NEW t, Charged(t)
  PROVE  Charged(s \o t) /\ Sum(s \o t) = Sum(s) + Sum(t)
<1>1. PICK u : u = s \o t
  OBVIOUS
<1>2. PICK m \in Nat, n \in Nat : m = Len(s) /\ n = Len(t)
  BY ChargedSum
<1>3. /\ DOMAIN s = 1..m /\ DOMAIN t = 1..n /\ DOMAIN u = 1..(m + n)
      /\ \A i \in 1..m : u[i] = s[i]
      /\ \A i \in 1..n : u[m + i] = t[i]
      /\ Charged(u)
  <2>1. /\ Listed(u) /\ Range(u) = Range(s) \cup Range(t) /\ Len(u) = m + n
        /\ \A i \in DOMAIN s : u[i] = s[i]
        /\ \A i \in DOMAIN u : \/ i \in DOMAIN s /\ u[i] = s[i]
                               \/ i - m \in DOMAIN t /\ u[i] = t[i - m]
    BY <1>1, <1>2, ListJoined DEF Charged
  <2>2. DOMAIN s = 1..m /\ DOMAIN t = 1..n /\ DOMAIN u = 1..(m + n)
    BY <1>2, <2>1, ListIndices DEF Charged
  <2>3. ASSUME NEW i \in 1..n PROVE u[m + i] = t[i]
    <3>1. m + i \in DOMAIN u /\ m + i \notin DOMAIN s /\ (m + i) - m = i
      BY <2>2
    <3>2. QED
      BY <2>1, <3>1
  <2>4. Charged(u)
    BY <2>1 DEF Charged
  <2>5. QED
    BY <2>1, <2>2, <2>3, <2>4
<1> DEFINE late == (m + 1)..(m + n)
           h == [i \in late |-> i - m]
           k == [i \in 1..n |-> m + i]
<1>4. SumFunctionOnSet(Amounts(u), late) = SumFunctionOnSet(Amounts(t), DOMAIN t)
  <2>1. IsFiniteSet(late) /\ IsFiniteSet(DOMAIN t)
    BY <1>3, FS_Interval
  <2>2. \A i \in late : i \in DOMAIN u /\ h[i] \in DOMAIN t /\ k[h[i]] = i
    BY <1>3
  <2>3. \A i \in DOMAIN t : k[i] \in late /\ h[k[i]] = i /\ k[i] = m + i
    BY <1>3
  <2> HIDE DEF late, h, k
  <2>4. \A i \in late : Amounts(u)[i] \in Int
    BY <1>3, <2>2, ChargedSum
  <2>5. \A i \in DOMAIN t : Amounts(t)[i] = Amounts(u)[k[i]]
    <3>1. \A i \in DOMAIN t : Amounts(t)[i] = t[i].amount /\ Amounts(u)[k[i]] = u[k[i]].amount
      BY <1>3, <2>2, <2>3, ChargedSum
    <3>2. QED
      BY <1>3, <2>3, <3>1
  <2>6. \A i \in DOMAIN t : k[i] \in late /\ h[k[i]] = i /\ Amounts(t)[i] = Amounts(u)[k[i]]
    BY <2>3, <2>5
  <2>7. \A i \in late : h[i] \in DOMAIN t
    BY <2>2
  <2>8. \A i \in late : k[h[i]] = i
    BY <2>2
  <2>9. QED
    BY <2>1, <2>4, <2>6, <2>7, <2>8, SumMoved
<1>5. SumFunctionOnSet(Amounts(u), DOMAIN s) = SumFunctionOnSet(Amounts(s), DOMAIN s)
  <2>1. \A i \in DOMAIN s : Amounts(u)[i] = Amounts(s)[i]
    <3>1. \A i \in DOMAIN s : i \in DOMAIN u
      BY <1>3
    <3>2. QED
      BY <1>3, <3>1, ChargedSum
  <2>2. IsFiniteSet(DOMAIN s)
    BY ChargedSum
  <2>3. QED
    BY <2>1, <2>2, SumSame
<1>6. SumFunctionOnSet(Amounts(u), DOMAIN s \cup late)
        = SumFunctionOnSet(Amounts(u), DOMAIN s) + SumFunctionOnSet(Amounts(u), late)
  <2>1. DOMAIN s \cap late = {} /\ DOMAIN s \cup late = DOMAIN u
    BY <1>3
  <2>0. IsFiniteSet(DOMAIN s) /\ IsFiniteSet(late)
    BY <1>3, FS_Interval
  <2> HIDE DEF late
  <2>2. \A i \in DOMAIN s \cup late : Amounts(u)[i] \in Int
    BY <1>3, <2>1, ChargedSum
  <2>3. QED
    BY <2>0, <2>1, <2>2, SumUnion
<1>7. DOMAIN s \cup late = DOMAIN u
  BY <1>3
<1>8. Sum(u) = Sum(s) + Sum(t)
  <2> HIDE DEF late
  <2>1. Sum(u) = SumFunctionOnSet(Amounts(u), DOMAIN u) /\ Sum(s) = SumFunctionOnSet(Amounts(s), DOMAIN s)
        /\ Sum(t) = SumFunctionOnSet(Amounts(t), DOMAIN t)
    BY <1>3, ChargedSum
  <2>2. QED
    BY <1>4, <1>5, <1>6, <1>7, <2>1
<1>9. QED
  BY <1>1, <1>3, <1>8

\* A bill in several parts comes to the sum of what the parts come to.
LEMMA SumFlattened ==
  ASSUME NEW s, Listed(s), \A i \in DOMAIN s : Charged(s[i]), NEW p, \A i \in DOMAIN s : p[i] = Sum(s[i])
  PROVE  /\ Charged(FlattenSeq(s))
         /\ Sum(FlattenSeq(s)) = SumFunctionOnSet(p, DOMAIN s)
<1>1. DOMAIN s = 1..Len(s) /\ Len(s) \in Nat
  BY ListIndices
<1>2. CASE Len(s) = 0
  <2>1. FlattenSeq(s) = s /\ DOMAIN s = {}
    BY <1>1, <1>2 DEF FlattenSeq
  <2>2. Charged(s)
    BY <2>1 DEF Charged, Range
  <2>3. Sum(s) = SumFunctionOnSet(Amounts(s), {})
    BY <2>1, <2>2, ChargedSum
  <2>4. Sum(s) = 0 /\ SumFunctionOnSet(p, DOMAIN s) = 0
    BY <2>1, <2>3, SumNone
  <2>5. QED
    BY <2>1, <2>2, <2>4
<1>3. CASE Len(s) # 0
  <2> DEFINE g == CHOOSE g : g = [i \in 1..Len(s) |-> IF i = 1 THEN s[i] ELSE g[i - 1] \o s[i]]
             holds(i) == Charged(g[i]) /\ Sum(g[i]) = SumFunctionOnSet(p, 1..i)
             G == {n \in Nat : n + 1 \in 1..Len(s) => holds(n + 1)}
  <2>1. FlattenSeq(s) = g[Len(s)]
    BY <1>3 DEF FlattenSeq
  <2>2. \E h : h = [i \in 1..Len(s) |-> IF i = 1 THEN s[i] ELSE h[i - 1] \o s[i]]
    <3>1. PICK h : h = Chained(s, h, 1..Len(s))
      BY <1>1, ChainExists
    <3>2. QED
      BY <3>1 DEF Chained
  <2>3. g = [i \in 1..Len(s) |-> IF i = 1 THEN s[i] ELSE g[i - 1] \o s[i]]
    BY <2>2
  <2> HIDE DEF g
  <2>4. \A i \in 1..Len(s) : g[i] = IF i = 1 THEN s[i] ELSE g[i - 1] \o s[i]
    BY <2>3
  <2>5. 0 \in G
    <3> SUFFICES ASSUME 1 \in 1..Len(s) PROVE holds(1)
      BY <1>1
    <3>1. g[1] = s[1] /\ 1 \in DOMAIN s
      BY <1>1, <2>4
    <3>2. p[1] = Sum(s[1]) /\ p[1] \in Int /\ Charged(s[1])
      BY <3>1, ChargedSum
    <3>3. 1..1 = {1}
      OBVIOUS
    <3>4. SumFunctionOnSet(p, 1..1) = p[1]
      BY <3>2, <3>3, SumOne
    <3>5. QED
      BY <3>1, <3>2, <3>4
  <2>6. ASSUME NEW n \in Nat, n \in G PROVE n + 1 \in G
    <3> SUFFICES ASSUME n + 2 \in 1..Len(s) PROVE holds(n + 2)
      OBVIOUS
    <3>1. n + 1 \in 1..Len(s) /\ n + 2 # 1 /\ (n + 2) - 1 = n + 1
      BY <1>1
    <3>2. g[n + 2] = g[n + 1] \o s[n + 2]
      BY <2>4, <3>1
    <3>3. holds(n + 1) /\ Charged(s[n + 2]) /\ n + 2 \in DOMAIN s
      BY <1>1, <2>6, <3>1
    <3>4. Charged(g[n + 2]) /\ Sum(g[n + 2]) = Sum(g[n + 1]) + Sum(s[n + 2])
      BY <3>2, <3>3, SumJoined
    <3>5. SumFunctionOnSet(p, 1..(n + 2)) = SumFunctionOnSet(p, 1..(n + 1)) + p[n + 2]
      <4>1. /\ (1..(n + 1)) \cup {n + 2} = 1..(n + 2) /\ (1..(n + 1)) \cap {n + 2} = {}
            /\ 1..(n + 2) \subseteq DOMAIN s
        BY <1>1
      <4>2. \A i \in DOMAIN s : p[i] \in Int
        BY ChargedSum
      <4>3. IsFiniteSet(1..(n + 1)) /\ IsFiniteSet({n + 2})
        <5>1. 1 \in Int /\ n + 1 \in Int
          OBVIOUS
        <5>2. IsFiniteSet(1..(n + 1))
          BY <5>1, FS_Interval
        <5>3. QED
          BY <5>2, FS_Singleton
      <4>4. PICK A, B : A = 1..(n + 1) /\ B = {n + 2}
        OBVIOUS
      <4>5. SumFunctionOnSet(p, A \cup B) = SumFunctionOnSet(p, A) + SumFunctionOnSet(p, B)
        BY <4>1, <4>2, <4>3, <4>4, SumUnion
      <4>6. SumFunctionOnSet(p, {n + 2}) = p[n + 2]
        BY <3>3, <4>2, SumOne
      <4>7. QED
        BY <4>1, <4>4, <4>5, <4>6
    <3>6. p[n + 2] = Sum(s[n + 2])
      BY <3>3
    <3>7. QED
      BY <3>3, <3>4, <3>5, <3>6
  <2> HIDE DEF G
  <2>7. \A n \in Nat : n \in G
    BY <2>5, <2>6, Everywhere
  <2>8. Len(s) - 1 \in Nat /\ (Len(s) - 1) + 1 = Len(s) /\ Len(s) \in 1..Len(s)
    BY <1>1, <1>3
  <2>9. holds(Len(s))
    BY <2>7, <2>8 DEF G
  <2>10. QED
    BY <1>1, <2>1, <2>9
<1>4. QED
  BY <1>2, <1>3

\* The first part of a list of two.
LEMMA FirstPart ==
  ASSUME NEW s, Listed(s), NEW t, Listed(t)
  PROVE  SubSeq(s \o t, 1, Len(s)) = s
<1> DEFINE X == Range(s) \cup Range(t)
<1>1. s \in Seq(X) /\ t \in Seq(X)
  BY DEF Listed
<1> HIDE DEF X
<1>2. QED
  BY <1>1

-----------------------------------------------------------------------------
(* What a specification is made of *)

\* The sections of a specification come from those of the requirement and have integers.
LEMMA SpecificationTyped ==
  ASSUME NEW r, Accepted(r), NEW s, s = Normalize(r).spec
  PROVE  /\ s.compute # Nothing =>
              /\ r.compute # Nothing /\ ComputeAccepted(r.compute)
              /\ s.compute.vcpu \in Int /\ s.compute.ram \in Int /\ s.hours \in Int
         /\ s.disks # <<>> =>
              /\ r.storage # Nothing /\ StorageAccepted(r.storage)
              /\ s.disks[1] \in Int /\ \A i \in DOMAIN r.storage.extra : s.disks[i + 1] \in Int
         /\ s.tier # Nothing => r.database # Nothing /\ DatabaseAccepted(r.database)
         /\ s.nodes # Nothing =>
              r.kubernetes # Nothing /\ KubernetesAccepted(r.kubernetes) /\ s.nodes \in Int
<1> DEFINE compute == IF r.compute # Nothing THEN NormalizeCompute(r.compute, r.strategy)
                      ELSE [machine |-> Nothing, notes |-> {}]
           disks == IF r.storage # Nothing THEN Disks(r.storage) ELSE <<>>
           database == IF r.database # Nothing /\ r.database.required
                       THEN NormalizeDatabase(r.database, r.strategy)
                       ELSE [tier |-> Nothing, notes |-> {}]
           nodes == IF r.kubernetes # Nothing /\ r.kubernetes.required THEN NodeCount(r.kubernetes)
                    ELSE Nothing
<1>1. /\ s.compute = compute.machine /\ s.disks = disks /\ s.tier = database.tier /\ s.nodes = nodes
      /\ s.hours = IF compute.machine = Nothing THEN 0 ELSE RunningHours(r.compute)
  <2>1. Normalize(r) = Specified(r, compute, disks, database, nodes)
    BY DEF Normalize
  <2> HIDE DEF compute, disks, database, nodes
  <2>2. QED
    BY <2>1 DEF Specified
<1>2. compute.machine # Nothing => r.compute # Nothing /\ ComputeAccepted(r.compute)
  BY DEF Accepted
<1>3. ASSUME r.compute # Nothing PROVE compute.machine.vcpu \in Int /\ compute.machine.ram \in Int
  <2>1. Bought(r.compute, NormalizeCompute(r.compute, r.strategy))
    BY <1>3, ComputeBought DEF Accepted
  <2>2. QED
    BY <1>3, <2>1 DEF Bought
<1>4. r.compute # Nothing => RunningHours(r.compute) \in Int
  BY DEF Accepted, ComputeAccepted, RunningHours, AtMost, HoursPerMonth
<1>5. ASSUME disks # <<>>
      PROVE  /\ r.storage # Nothing /\ StorageAccepted(r.storage)
             /\ disks[1] \in Int /\ \A i \in DOMAIN r.storage.extra : disks[i + 1] \in Int
  <2>1. r.storage # Nothing /\ StorageAccepted(r.storage)
    BY <1>5 DEF Accepted
  <2> DEFINE t == r.storage
             more == [i \in DOMAIN t.extra |-> DiskSize(t.type, t.extra[i])]
  <2>2. /\ DiskMin[t.type] \in Int /\ DiskMax \in Int /\ t.size \in Int
        /\ t.extra \in Seq(Nat)
    BY <2>1, CatalogAssumption DEF StorageAccepted
  <2>3. \A x \in Int : DiskSize(t.type, x) \in Int
    BY <2>2, ClampedInt DEF DiskSize
  <2>4. \A i \in DOMAIN t.extra : t.extra[i] \in Nat
    BY <2>2
  <2>5. DOMAIN t.extra = 1..Len(t.extra) /\ Len(t.extra) \in Nat
    BY <2>2
  <2>6. \A i \in DOMAIN t.extra : DiskSize(t.type, t.extra[i]) \in Int
    <3> HIDE DEF t
    <3>1. QED
      BY <2>3, <2>4
  <2>7. more \in Seq(Int)
    <3> HIDE DEF t
    <3>1. PICK n \in Nat : n = Len(t.extra)
      BY <2>5
    <3>2. DOMAIN t.extra = 1..n
      BY <2>5, <3>1
    <3> DEFINE a(i) == DiskSize(t.type, t.extra[i])
    <3>3. more = [i \in 1..n |-> a(i)] /\ \A i \in 1..n : a(i) \in Int
      BY <2>6, <3>2
    <3> HIDE DEF a, more
    <3>4. QED
      BY <3>3
  <2>8. disks = <<DiskSize(t.type, t.size)>> \o more
    BY <2>1 DEF Disks
  <2>9. DOMAIN more = 1..Len(t.extra)
    BY <2>5
  <2> HIDE DEF t, more, disks
  <2>10. Len(more) = Len(t.extra)
    BY <2>5, <2>7, <2>9
  <2>11. disks \in Seq(Int) /\ DOMAIN disks = 1..(Len(t.extra) + 1)
    <3>1. PICK a \in Int : a = DiskSize(t.type, t.size)
      BY <2>2, <2>3
    <3>2. disks = <<a>> \o more /\ <<a>> \in Seq(Int) /\ Len(<<a>>) = 1
      BY <2>8, <3>1
    <3>3. <<a>> \o more \in Seq(Int) /\ Len(<<a>> \o more) = 1 + Len(more)
      BY <2>7, <3>2
    <3>4. QED
      BY <2>5, <2>10, <3>2, <3>3
  <2>12. \A i \in DOMAIN disks : disks[i] \in Int
    BY <2>11
  <2>13. 1 \in DOMAIN disks /\ \A i \in DOMAIN t.extra : i + 1 \in DOMAIN disks
    BY <2>5, <2>11
  <2>14. QED
    BY <2>1, <2>12, <2>13 DEF t
<1>6. database.tier # Nothing => r.database # Nothing /\ DatabaseAccepted(r.database)
  BY DEF Accepted
<1>7. ASSUME nodes # Nothing
      PROVE  r.kubernetes # Nothing /\ KubernetesAccepted(r.kubernetes) /\ nodes \in Int
  <2>1. r.kubernetes # Nothing /\ KubernetesAccepted(r.kubernetes)
    BY <1>7 DEF Accepted
  <2>2. NodeCount(r.kubernetes) \in Int
    <3>1. MinNodes \in Int /\ MaxNodes \in Int
      BY CatalogAssumption
    <3>2. Clamped(r.kubernetes.nodes, MinNodes, MaxNodes) \in Int
      BY <2>1, <3>1, ClampedInt DEF KubernetesAccepted
    <3>3. QED
      BY <3>2 DEF NodeCount
  <2>3. QED
    BY <1>7, <2>1, <2>2
<1> HIDE DEF compute, disks, database, nodes
<1>8. QED
  BY <1>1, <1>2, <1>3, <1>4, <1>5, <1>6, <1>7

-----------------------------------------------------------------------------
(* The rows of the sections *)

\* The kinds of items that a row is for.
RowSkus == UNION {Groups[g].skus : g \in DOMAIN Groups}

\* No kind is in two rows.
LEMMA GroupsApart ==
  /\ DOMAIN Groups = 1..5
  /\ \A g, h \in DOMAIN Groups : \A sku : sku \in Groups[g].skus /\ sku \in Groups[h].skus => g = h
<1>1. DOMAIN Groups = {1, 2, 3, 4, 5} /\ 1..5 = {1, 2, 3, 4, 5}
  BY DEF Groups
<1>2. /\ Groups[1].skus = {"compute", "gpu", "os-license", "local-ssd"}
      /\ Groups[2].skus = {"disk", "disk-provisioned-iops", "snapshot-storage"}
      /\ Groups[3].skus = {"cloudsql-instance", "cloudsql-storage", "cloudsql-backup"}
      /\ Groups[4].skus = {"network-egress", "load-balancer", "static-ip"}
      /\ Groups[5].skus = GkeSkus
  BY DEF Groups
<1>3. QED
  BY <1>1, <1>2 DEF GkeSkus

\* Items with amounts that rows are for.
Rowed(items) == Charged(items) /\ \A x \in Range(items) : x.sku \in RowSkus

\* How a bill is put together from such items.
LEMMA RowedParts ==
  /\ \A s, t : Rowed(s) /\ Rowed(t) => Rowed(s \o t)
  /\ \A c, s : Rowed(s) => Rowed(When(c, s))
  /\ \A c \in BOOLEAN : \A s : (c => Rowed(s)) => Rowed(When(c, s))
  /\ \A sku \in RowSkus : \A category : \A points \in Int : Rowed(<<Item(sku, category, points)>>)
  /\ Rowed(<<>>)
<1>1. ASSUME NEW s, NEW t, Rowed(s), Rowed(t) PROVE Rowed(s \o t)
  <2>1. Listed(s \o t) /\ Range(s \o t) = Range(s) \cup Range(t)
    BY <1>1, ListJoined DEF Rowed, Charged
  <2>2. QED
    BY <1>1, <2>1 DEF Rowed, Charged
<1>2. Rowed(<<>>)
  BY ListOne DEF Rowed, Charged
<1>3. /\ \A c, s : Rowed(s) => Rowed(When(c, s))
      /\ \A c \in BOOLEAN : \A s : (c => Rowed(s)) => Rowed(When(c, s))
  BY <1>2 DEF When
<1>4. ASSUME NEW sku \in RowSkus, NEW category, NEW points \in Int PROVE Rowed(<<Item(sku, category, points)>>)
  <2>1. PICK x : x = Item(sku, category, points)
    OBVIOUS
  <2>2. Rounded(points, 100) \in Int
    BY RoundedInt
  <2>3. x.sku \in RowSkus /\ x.amount \in Int
    BY <2>1, <2>2 DEF Item
  <2>4. QED
    BY <2>1, <2>3, ListOne DEF Rowed, Charged
<1>5. QED
  BY <1>1, <1>2, <1>3, <1>4

\* Every product of a bill is a number.
LEMMA Products ==
  /\ \A a, b \in Int : a * b \in Int
  /\ \A a, b, c \in Int : a * b * c \in Int
  /\ \A a, b, c, d \in Int : a * b * c * d \in Int
  /\ \A a, b, c, d \in Int : a * b + c * d \in Int
<1>1. \A a, b, c \in Int : a * b * c \in Int
  BY Product
<1>2. \A a, b, c, d \in Int : a * b * c * d \in Int
  BY <1>1, Product
<1>3. ASSUME NEW a \in Int, NEW b \in Int, NEW c \in Int, NEW d \in Int PROVE a * b + c * d \in Int
  <2>1. a * b \in Int /\ c * d \in Int
    BY Product
  <2>2. QED
    BY <2>1
<1>4. QED
  BY <1>1, <1>2, <1>3, Product

\* The month has hours.
LEMMA MonthTyped ==
  /\ \A h \in Int : FullMonth(h) \in Int
  /\ HoursPerMonth \in Int
BY DEF FullMonth, AtMost, HoursPerMonth

\* What is sold is in a row, at an integer price.
LEMMA SoldRowed ==
  /\ \A sku \in {"gpu", "os-license", "local-ssd", "disk", "disk-provisioned-iops", "snapshot-storage",
                 "cloudsql-storage", "cloudsql-backup", "network-egress", "load-balancer", "static-ip",
                 "gke-cluster-management", "gke-enterprise-edition", "gke-autopilot"} :
       sku \in RowSkus /\ Price[sku] \in Int
  /\ {"compute", "cloudsql-instance", "gke-node-pool-compute", "gke-node-pool-disk", "gke-node-pool-gpu"}
       \subseteq RowSkus
  /\ Price["gke-autopilot-spot"] \in Int
<1>1. DOMAIN Groups = {1, 2, 3, 4, 5}
  BY DEF Groups
<1>2. /\ Groups[1].skus = {"compute", "gpu", "os-license", "local-ssd"}
      /\ Groups[2].skus = {"disk", "disk-provisioned-iops", "snapshot-storage"}
      /\ Groups[3].skus = {"cloudsql-instance", "cloudsql-storage", "cloudsql-backup"}
      /\ Groups[4].skus = {"network-egress", "load-balancer", "static-ip"}
      /\ Groups[5].skus = GkeSkus
  BY DEF Groups
<1>3. RowSkus = Groups[1].skus \cup Groups[2].skus \cup Groups[3].skus \cup Groups[4].skus
                  \cup Groups[5].skus
  BY <1>1 DEF RowSkus
<1>4. QED
  BY <1>2, <1>3, PriceAssumption DEF GkeSkus

\* The items of the VMs,
LEMMA ComputeRowed ==
  ASSUME NEW r, NEW s,
         s.compute # Nothing =>
           /\ ComputeAccepted(r.compute) /\ s.compute.family \in DOMAIN HourRate
           /\ s.compute.vcpu \in Int /\ s.compute.ram \in Int /\ s.hours \in Int,
         r.storage # Nothing => StorageAccepted(r.storage)
  PROVE  Rowed(ComputeItems(r, s))
<1>1. CASE s.compute = Nothing
  BY <1>1, RowedParts DEF ComputeItems
<1>2. CASE s.compute # Nothing
  <2> DEFINE c == r.compute
             m == s.compute
             rate == m.vcpu * HourRate[m.family].vcpu + m.ram * HourRate[m.family].ram
             hours == FullMonth(s.hours)
             ssds == IF r.storage = Nothing THEN 0 ELSE r.storage.localSsds
             vm == rate * hours * c.count
             gpu == (Price["gpu"] * c.gpuCount) * hours * c.count
             license == (Price["os-license"] * m.vcpu) * hours * c.count
             local == Price["local-ssd"] * ssds * c.count
  <2>1. c.count \in Int /\ c.gpuCount \in Int /\ hours \in Int /\ ssds \in Int /\ m.vcpu \in Int /\ m.ram \in Int
    <3>1. c.count \in Int /\ c.gpuCount \in Int /\ s.hours \in Int /\ m.vcpu \in Int /\ m.ram \in Int
      BY <1>2 DEF ComputeAccepted
    <3>2. hours \in Int
      BY <3>1, MonthTyped
    <3>3. ssds \in Int
      BY DEF StorageAccepted
    <3>4. QED
      BY <3>1, <3>2, <3>3
  <2>2. rate \in Int
    <3>1. HourRate[m.family].vcpu \in Int /\ HourRate[m.family].ram \in Int
      BY <1>2, PriceAssumption
    <3>2. PICK a \in Int, b \in Int : a = HourRate[m.family].vcpu /\ b = HourRate[m.family].ram
      BY <3>1
    <3>3. m.vcpu * a + m.ram * b \in Int
      BY <2>1, Products
    <3>4. QED
      BY <3>2, <3>3
  <2>3. ComputeItems(r, s)
          = <<Item("compute", "Compute", vm)>>
            \o When(c.gpu # "none" /\ c.gpuCount > 0, <<Item("gpu", "GPU", gpu)>>)
            \o When(c.os # "linux", <<Item("os-license", "Licensing", license)>>)
            \o When(ssds > 0, <<Item("local-ssd", "Storage", local)>>)
    BY <1>2 DEF ComputeItems
  <2> HIDE DEF rate, hours, ssds
  <2>4. vm \in Int /\ gpu \in Int /\ license \in Int /\ local \in Int
    <3>1. Price["gpu"] \in Int /\ Price["os-license"] \in Int /\ Price["local-ssd"] \in Int
      BY SoldRowed
    <3>2. Price["gpu"] * c.gpuCount \in Int /\ Price["os-license"] * m.vcpu \in Int
      BY <2>1, <3>1, Product
    <3>3. vm \in Int
      BY <2>1, <2>2, Products
    <3>4. gpu \in Int /\ license \in Int
      BY <2>1, <3>2, Products
    <3>5. local \in Int
      BY <2>1, <3>1, Products
    <3>6. QED
      BY <3>3, <3>4, <3>5
  <2> HIDE DEF c, vm, gpu, license, local
  <2>5. /\ Rowed(<<Item("compute", "Compute", vm)>>) /\ Rowed(<<Item("gpu", "GPU", gpu)>>)
        /\ Rowed(<<Item("os-license", "Licensing", license)>>)
        /\ Rowed(<<Item("local-ssd", "Storage", local)>>)
    <3>1. {"compute", "gpu", "os-license", "local-ssd"} \subseteq RowSkus
      BY SoldRowed
    <3>2. QED
      BY <2>4, <3>1, RowedParts
  <2>6. QED
    BY <2>3, <2>5, RowedParts
<1>3. QED
  BY <1>1, <1>2

\* of the disks,
LEMMA DisksRowed ==
  ASSUME NEW r, NEW s,
         s.disks # <<>> =>
           /\ StorageAccepted(r.storage)
           /\ s.disks[1] \in Int /\ \A i \in DOMAIN r.storage.extra : s.disks[i + 1] \in Int,
         r.compute # Nothing => ComputeAccepted(r.compute)
  PROVE  Rowed(DiskItems(r, s))
<1>1. CASE s.disks = <<>>
  BY <1>1, RowedParts DEF DiskItems
<1>2. CASE s.disks # <<>>
  <2> DEFINE t == r.storage
             n == Instances(r)
             gb == IF t.snapshotGb # 0 THEN t.snapshotGb ELSE s.disks[1] * n
             boot == Price["disk"] * s.disks[1] * n
             kept == Price["snapshot-storage"] * gb
             iops == Price["disk-provisioned-iops"] * t.iops * n
             more == [i \in DOMAIN t.extra |-> Item("disk", "Storage", Price["disk"] * s.disks[i + 1] * n)]
  <2>1. /\ n \in Int /\ s.disks[1] \in Int /\ t.snapshotGb \in Int /\ t.iops \in Int
        /\ t.extra \in Seq(Nat) /\ \A i \in DOMAIN t.extra : s.disks[i + 1] \in Int
    <3>1. n \in Int
      BY DEF Instances, ComputeAccepted
    <3> HIDE DEF n
    <3>2. QED
      BY <1>2, <3>1 DEF StorageAccepted
  <2>2. DiskItems(r, s)
          = <<Item("disk", "Storage", boot)>>
            \o When(t.snapshots, <<Item("snapshot-storage", "Storage", kept)>>)
            \o When(t.iops > 0, <<Item("disk-provisioned-iops", "Storage", iops)>>)
            \o more
    BY <1>2 DEF DiskItems
  <2>3. DOMAIN t.extra = 1..Len(t.extra) /\ Len(t.extra) \in Nat
    BY <2>1
  <2>4. Price["disk"] \in Int /\ Price["snapshot-storage"] \in Int /\ Price["disk-provisioned-iops"] \in Int
    BY SoldRowed
  <2> HIDE DEF t, n
  <2>5. gb \in Int
    BY <2>1, Product
  <2> HIDE DEF gb
  <2>6. boot \in Int /\ kept \in Int /\ iops \in Int
    BY <2>1, <2>4, <2>5, Products
  <2>7. {"disk", "snapshot-storage", "disk-provisioned-iops"} \subseteq RowSkus
    BY SoldRowed
  <2>8. Rowed(more)
    <3> DEFINE a(i) == Price["disk"] * s.disks[i + 1] * n
    <3>1. \A i \in DOMAIN t.extra : Rounded(a(i), 100) \in Int
      <4>1. \A i \in DOMAIN t.extra : a(i) \in Int
        BY <2>1, <2>4, Products
      <4> HIDE DEF a
      <4>2. 100 \in Nat \ {0}
        OBVIOUS
      <4>3. QED
        BY <4>1, <4>2, RoundedInt
    <3>2. Listed(more) /\ DOMAIN more = DOMAIN t.extra
      BY <2>3, ListOf
    <3>3. \A i \in DOMAIN more : more[i].sku = "disk" /\ more[i].amount = Rounded(a(i), 100)
      BY DEF Item
    <3> HIDE DEF more, a
    <3>4. \A x \in Range(more) : x.sku = "disk" /\ x.amount \in Int
      BY <3>1, <3>2, <3>3 DEF Range
    <3>5. QED
      BY <2>7, <3>2, <3>4 DEF Rowed, Charged
  <2> HIDE DEF boot, kept, iops, more
  <2>9. /\ Rowed(<<Item("disk", "Storage", boot)>>) /\ Rowed(<<Item("snapshot-storage", "Storage", kept)>>)
        /\ Rowed(<<Item("disk-provisioned-iops", "Storage", iops)>>)
    BY <2>6, <2>7, RowedParts
  <2>10. QED
    BY <2>2, <2>8, <2>9, RowedParts
<1>3. QED
  BY <1>1, <1>2

\* of the database,
LEMMA DatabaseRowed ==
  ASSUME NEW r, NEW s,
         s.tier # Nothing => DatabaseAccepted(r.database) /\ s.tier.tier \in DOMAIN TierPrice
  PROVE  Rowed(DatabaseItems(r, s))
<1>1. CASE s.tier = Nothing
  BY <1>1, RowedParts DEF DatabaseItems
<1>2. CASE s.tier # Nothing
  <2> DEFINE d == r.database
             month == DatabaseMonthly(d, s)
             storage == Price["cloudsql-storage"] * d.size
             backup == Price["cloudsql-backup"] * d.backup
  <2>1. DatabaseItems(r, s)
          = <<Item("cloudsql-instance", "Database", month)>>
            \o When(d.size > 0, <<Item("cloudsql-storage", "Database", storage)>>)
            \o When(d.backup > 0, <<Item("cloudsql-backup", "Database", backup)>>)
    BY <1>2 DEF DatabaseItems
  <2>2. month \in Int
    <3>1. TierPrice[s.tier.tier] \in Int
      BY <1>2, DiscountAssumption
    <3>2. (IF d.ha THEN 2 ELSE 1) \in Int
      OBVIOUS
    <3>3. QED
      BY <3>1, <3>2, MonthTyped, Products DEF DatabaseMonthly
  <2>3. storage \in Int /\ backup \in Int
    <3>1. d.size \in Int /\ d.backup \in Int
      BY <1>2 DEF DatabaseAccepted
    <3>2. QED
      BY <3>1, SoldRowed, Product
  <2>4. {"cloudsql-instance", "cloudsql-storage", "cloudsql-backup"} \subseteq RowSkus
    BY SoldRowed
  <2> HIDE DEF d, month, storage, backup
  <2>5. /\ Rowed(<<Item("cloudsql-instance", "Database", month)>>)
        /\ Rowed(<<Item("cloudsql-storage", "Database", storage)>>)
        /\ Rowed(<<Item("cloudsql-backup", "Database", backup)>>)
    BY <2>2, <2>3, <2>4, RowedParts
  <2>6. QED
    BY <2>1, <2>5, RowedParts
<1>3. QED
  BY <1>1, <1>2

\* of the network,
LEMMA NetworkRowed ==
  ASSUME NEW r, r.network # Nothing => NetworkAccepted(r.network)
  PROVE  Rowed(NetworkItems(r))
<1>1. CASE r.network = Nothing
  BY <1>1, RowedParts DEF NetworkItems
<1>2. CASE r.network # Nothing
  <2> DEFINE n == r.network
             egress == Price["network-egress"] * n.egress
             balancer == Price["load-balancer"]
             ips == Price["static-ip"] * n.ips
  <2>1. NetworkItems(r)
          = When(n.egress > 0, <<Item("network-egress", "Network", egress)>>)
            \o When(n.balancer, <<Item("load-balancer", "Network", balancer)>>)
            \o When(n.ips > 0, <<Item("static-ip", "Network", ips)>>)
    BY <1>2 DEF NetworkItems
  <2>2. egress \in Int /\ balancer \in Int /\ ips \in Int
    <3>1. n.egress \in Int /\ n.ips \in Int
      BY <1>2 DEF NetworkAccepted
    <3>2. QED
      BY <3>1, SoldRowed, Product
  <2>3. {"network-egress", "load-balancer", "static-ip"} \subseteq RowSkus
    BY SoldRowed
  <2> HIDE DEF n, egress, balancer, ips
  <2>4. /\ Rowed(<<Item("network-egress", "Network", egress)>>)
        /\ Rowed(<<Item("load-balancer", "Network", balancer)>>)
        /\ Rowed(<<Item("static-ip", "Network", ips)>>)
    BY <2>2, <2>3, RowedParts
  <2>5. QED
    BY <2>1, <2>4, RowedParts
<1>3. QED
  BY <1>1, <1>2

\* and of GKE.
LEMMA KubernetesRowed ==
  ASSUME NEW r, NEW s,
         s.nodes # Nothing =>
           /\ KubernetesAccepted(r.kubernetes) /\ s.nodes \in Int
           /\ s.nodes > 0 => r.kubernetes.family \in DOMAIN HourRate
  PROVE  Rowed(KubernetesItems(r, s))
<1>1. CASE s.nodes = Nothing
  BY <1>1, RowedParts DEF KubernetesItems
<1>2. CASE s.nodes # Nothing
  <2> DEFINE k == r.kubernetes
             zones == IF k.regional THEN 3 ELSE 1
             pool == s.nodes * zones
             hours == FullMonth(k.hours)
             hourly == k.vcpu * HourRate[k.family].vcpu + k.ram * HourRate[k.family].ram
             fleet == IF k.autopilot THEN k.pods ELSE pool * k.vcpu
             podPrice == IF k.spot THEN Price["gke-autopilot-spot"] ELSE Price["gke-autopilot"]
             fee == Price["gke-cluster-management"] * HoursPerMonth
             edition == Price["gke-enterprise-edition"] * fleet * HoursPerMonth
             pods == podPrice * k.pods * hours
             nodes == hourly * hours * pool
             disks == Price["disk"] * k.disk * pool
             gpus == Price["gpu"] * k.gpus * hours * pool
             on == <<Item("gke-node-pool-compute", "Compute", nodes), Item("gke-node-pool-disk", "Storage", disks)>>
                   \o When(k.gpus > 0, <<Item("gke-node-pool-gpu", "GPU", gpus)>>)
  <2>1. KubernetesItems(r, s)
          = <<Item("gke-cluster-management", "Compute", fee)>>
            \o When(k.enterprise /\ fleet > 0, <<Item("gke-enterprise-edition", "Compute", edition)>>)
            \o When(k.autopilot /\ k.pods > 0, <<Item("gke-autopilot", "Compute", pods)>>)
            \o When(~k.autopilot /\ s.nodes > 0, on)
    BY <1>2 DEF KubernetesItems
  <2>2. /\ k.vcpu \in Int /\ k.ram \in Int /\ k.disk \in Int /\ k.gpus \in Int /\ k.pods \in Int
        /\ k.hours \in Int /\ s.nodes \in Int
    BY <1>2 DEF KubernetesAccepted
  <2> HIDE DEF k
  <2>3. hours \in Int /\ pool \in Int
    <3>1. hours \in Int
      BY <2>2, MonthTyped
    <3>2. zones \in Int
      OBVIOUS
    <3> HIDE DEF zones
    <3>3. QED
      BY <2>2, <3>1, <3>2, Product
  <2> HIDE DEF pool, hours
  <2>4. fleet \in Int /\ podPrice \in Int
    <3>1. pool * k.vcpu \in Int
      BY <2>2, <2>3, Product
    <3>2. QED
      BY <2>2, <3>1, SoldRowed
  <2> HIDE DEF fleet, podPrice
  <2>5. fee \in Int /\ edition \in Int /\ pods \in Int /\ disks \in Int /\ gpus \in Int
    <3>1. HoursPerMonth \in Int
      BY MonthTyped
    <3>2. /\ Price["gke-cluster-management"] \in Int /\ Price["gke-enterprise-edition"] \in Int
          /\ Price["disk"] \in Int /\ Price["gpu"] \in Int
      BY SoldRowed
    <3>3. fee \in Int
      BY <3>1, <3>2, Product
    <3>4. edition \in Int
      BY <2>4, <3>1, <3>2, Products
    <3>5. pods \in Int
      BY <2>2, <2>3, <2>4, Products
    <3>6. disks \in Int
      BY <2>2, <2>3, <3>2, Products
    <3>7. gpus \in Int
      BY <2>2, <2>3, <3>2, Products
    <3>8. QED
      BY <3>3, <3>4, <3>5, <3>6, <3>7
  <2>6. ASSUME s.nodes > 0 PROVE nodes \in Int
    <3>1. HourRate[k.family].vcpu \in Int /\ HourRate[k.family].ram \in Int
      BY <1>2, <2>6, PriceAssumption DEF k
    <3>2. PICK a \in Int, b \in Int : a = HourRate[k.family].vcpu /\ b = HourRate[k.family].ram
      BY <3>1
    <3>3. k.vcpu * a + k.ram * b \in Int
      BY <2>2, Products
    <3>4. hourly \in Int
      BY <3>2, <3>3
    <3> HIDE DEF hourly
    <3>5. QED
      BY <2>3, <3>4, Products
  <2> HIDE DEF fee, edition, pods, nodes, disks, gpus
  <2>7. {"gke-cluster-management", "gke-enterprise-edition", "gke-autopilot", "gke-node-pool-compute",
         "gke-node-pool-disk", "gke-node-pool-gpu"} \subseteq RowSkus
    BY SoldRowed
  <2>8. /\ Rowed(<<Item("gke-cluster-management", "Compute", fee)>>)
        /\ Rowed(<<Item("gke-enterprise-edition", "Compute", edition)>>)
        /\ Rowed(<<Item("gke-autopilot", "Compute", pods)>>)
        /\ Rowed(<<Item("gke-node-pool-disk", "Storage", disks)>>)
        /\ Rowed(<<Item("gke-node-pool-gpu", "GPU", gpus)>>)
        /\ s.nodes > 0 => Rowed(<<Item("gke-node-pool-compute", "Compute", nodes)>>)
    BY <2>5, <2>6, <2>7, RowedParts
  <2>9. ASSUME s.nodes > 0 PROVE Rowed(on)
    <3>1. <<Item("gke-node-pool-compute", "Compute", nodes), Item("gke-node-pool-disk", "Storage", disks)>>
            = <<Item("gke-node-pool-compute", "Compute", nodes)>> \o <<Item("gke-node-pool-disk", "Storage", disks)>>
      OBVIOUS
    <3>2. Rowed(<<Item("gke-node-pool-compute", "Compute", nodes), Item("gke-node-pool-disk", "Storage", disks)>>)
      BY <2>8, <2>9, <3>1, RowedParts
    <3>3. QED
      BY <2>8, <3>2, RowedParts
  <2> HIDE DEF on
  <2>10. Rowed(When(~k.autopilot /\ s.nodes > 0, on))
    BY <2>9, RowedParts
  <2>11. QED
    BY <2>1, <2>8, <2>10, RowedParts
<1>3. QED
  BY <1>1, <1>2

\* The items of all the sections.
LEMMA LegacyRowed ==
  ASSUME NEW r, Accepted(r), NEW s, s = Normalize(r).spec, Quoted(r, s)
  PROVE  Rowed(LegacyItems(r, s))
<1>1. /\ s.compute # Nothing =>
           /\ r.compute # Nothing /\ ComputeAccepted(r.compute)
           /\ s.compute.vcpu \in Int /\ s.compute.ram \in Int /\ s.hours \in Int
      /\ s.disks # <<>> =>
           /\ r.storage # Nothing /\ StorageAccepted(r.storage)
           /\ s.disks[1] \in Int /\ \A i \in DOMAIN r.storage.extra : s.disks[i + 1] \in Int
      /\ s.tier # Nothing => r.database # Nothing /\ DatabaseAccepted(r.database)
      /\ s.nodes # Nothing =>
           r.kubernetes # Nothing /\ KubernetesAccepted(r.kubernetes) /\ s.nodes \in Int
  BY SpecificationTyped
<1>2. /\ s.compute # Nothing => s.compute.family \in DOMAIN HourRate
      /\ s.tier # Nothing => s.tier.tier \in DOMAIN TierPrice
      /\ s.nodes # Nothing /\ s.nodes > 0 => r.kubernetes.family \in DOMAIN HourRate
  BY DEF Quoted
<1>3. /\ r.storage # Nothing => StorageAccepted(r.storage)
      /\ r.compute # Nothing => ComputeAccepted(r.compute)
      /\ r.network # Nothing => NetworkAccepted(r.network)
  BY DEF Accepted
<1>4. Rowed(ComputeItems(r, s))
  BY <1>1, <1>2, <1>3, ComputeRowed
<1>5. Rowed(DiskItems(r, s))
  BY <1>1, <1>3, DisksRowed
<1>6. Rowed(DatabaseItems(r, s))
  BY <1>1, <1>2, DatabaseRowed
<1>7. Rowed(NetworkItems(r))
  BY <1>3, NetworkRowed
<1>8. Rowed(KubernetesItems(r, s))
  BY <1>1, <1>2, KubernetesRowed
<1>9. QED
  BY <1>4, <1>5, <1>6, <1>7, <1>8, RowedParts DEF LegacyItems

\* The rows of the sections come to what their items come to.
LEMMA SectionsReconcile ==
  ASSUME NEW items, Rowed(items)
  PROVE  Sum(LegacyRows(items)) = Sum(items)
<1> DEFINE of(g) == {i \in DOMAIN items : items[i].sku \in Groups[g].skus}
           used == {g \in DOMAIN Groups : of(g) # {}}
           rows == LegacyRows(items)
           group(i) == CHOOSE g \in DOMAIN Groups : items[i].sku \in Groups[g].skus
           T == 1..Cardinality(used)
           h == [i \in DOMAIN items |-> Rank(used, group(i))]
           at == [n \in T |-> of(Nth(used, n))]
<1>1. DOMAIN Groups = 1..5 /\ \A g, k \in DOMAIN Groups : \A sku : sku \in Groups[g].skus /\ sku \in Groups[k].skus => g = k
  BY GroupsApart
<1>2. used \subseteq Nat /\ IsFiniteSet(used) /\ Cardinality(used) \in Nat
  <2>1. used \subseteq 1..5 /\ 1..5 \subseteq Nat
    BY <1>1
  <2>2. IsFiniteSet(1..5)
    <3>1. 1 \in Int /\ 5 \in Int
      OBVIOUS
    <3>2. QED
      BY <3>1, FS_Interval
  <2> HIDE DEF used
  <2>3. QED
    BY <2>1, <2>2, FS_Subset, FS_CardinalityType
<1>3. ASSUME NEW i \in DOMAIN items
      PROVE  group(i) \in used /\ i \in of(group(i)) /\ \A g \in DOMAIN Groups : i \in of(g) => g = group(i)
  <2>1. items[i].sku \in RowSkus
    BY DEF Rowed, Range
  <2>2. \E g \in DOMAIN Groups : items[i].sku \in Groups[g].skus
    BY <2>1 DEF RowSkus
  <2>3. group(i) \in DOMAIN Groups /\ items[i].sku \in Groups[group(i)].skus
    BY <2>2
  <2> HIDE DEF group
  <2>4. QED
    BY <1>1, <2>3
<1>4. /\ Charged(items) /\ IsFiniteSet(DOMAIN items) /\ \A i \in DOMAIN items : Amounts(items)[i] \in Int
      /\ Sum(items) = SumFunctionOnSet(Amounts(items), DOMAIN items)
  BY ChargedSum DEF Rowed
<1>5. rows = [n \in T |-> Row(Groups[Nth(used, n)].category, SumFunctionOnSet(Amounts(items), of(Nth(used, n))))]
  BY DEF LegacyRows
<1>6. Sum(rows) = SumFunctionOnSet(Amounts(rows), T)
  <2>1. DOMAIN Amounts(rows) = T
    BY <1>5 DEF Amounts
  <2>2. QED
    BY <2>1 DEF Sum, SumFunction
<1>7. \A n \in T : Amounts(rows)[n] = SumFunctionOnSet(Amounts(items), at[n])
  <2>1. \A n \in T : rows[n].amount = SumFunctionOnSet(Amounts(items), of(Nth(used, n)))
    <3>1. \A category, amount : Row(category, amount).amount = amount
      BY DEF Row
    <3> HIDE DEF rows, T, used, of
    <3>2. QED
      BY <1>5, <3>1
  <2>2. \A n \in T : Amounts(rows)[n] = rows[n].amount
    BY <1>5 DEF Amounts
  <2>3. \A n \in T : at[n] = of(Nth(used, n))
    OBVIOUS
  <2> HIDE DEF rows, at, of, T, used
  <2>4. QED
    BY <2>1, <2>2, <2>3
<1>8. IsFiniteSet(T)
  BY <1>2, FS_Interval
<1>9. \A i \in DOMAIN items : h[i] \in T
  <2>1. \A g \in used : Rank(used, g) \in T
    BY <1>2, Ranked
  <2> HIDE DEF used, group, T
  <2>2. QED
    BY <1>3, <2>1
<1>10. ASSUME NEW n \in T
       PROVE  at[n] \subseteq DOMAIN items /\ \A i \in DOMAIN items : i \in at[n] <=> h[i] = n
  <2>1. Nth(used, n) \in used
    BY <1>2, NthIn
  <2>2. Rank(used, Nth(used, n)) = n /\ \A g \in used : Rank(used, g) = n => Nth(used, n) = g
    BY <1>2, NthRanked
  <2>3. \A i \in DOMAIN items : h[i] = Rank(used, group(i))
    OBVIOUS
  <2>4. at[n] = of(Nth(used, n)) /\ \A g : of(g) \subseteq DOMAIN items
    OBVIOUS
  <2>5. used \subseteq DOMAIN Groups
    OBVIOUS
  <2> HIDE DEF used, group, T, h, at, of
  <2>6. QED
    BY <1>3, <2>1, <2>2, <2>3, <2>4, <2>5
<1> HIDE DEF rows, at, h, T, used, of, group
<1>11. SumFunctionOnSet(Amounts(items), DOMAIN items) = SumFunctionOnSet(Amounts(rows), T)
  BY <1>4, <1>7, <1>8, <1>9, <1>10, SumParts
<1>12. QED
  BY <1>4, <1>6, <1>11 DEF rows

-----------------------------------------------------------------------------
(* What a service is billed *)

\* A form's numbers are numbers.
Counted(form) == \A f \in DOMAIN form.number : form.number[f] \in Int

\* So what is read of it is one.
LEMMA EntryTyped ==
  ASSUME NEW form, Counted(form)
  PROVE  \A f : \A default \in Int : Entry(form, f, default) \in Int
BY DEF Entry, Counted

\* Scaled numbers are numbers.
LEMMA TimesTyped ==
  ASSUME NEW n \in Int, NEW rate \in Int, NEW per \in Nat \ {0}
  PROVE  Times(n, rate, per) \in Int
<1>1. n \div per \in Int /\ n % per \in Int
  OBVIOUS
<1>2. PICK q \in Int, m \in Int : q = n \div per /\ m = n % per
  BY <1>1
<1>3. q * rate \in Int /\ m * rate \in Int
  BY Product
<1>4. PICK a \in Int, b \in Int : a = q * rate /\ b = m * rate
  BY <1>3
<1>5. a + b \div per \in Int
  OBVIOUS
<1>6. QED
  BY <1>2, <1>4, <1>5 DEF Times

\* What is derived from a form is a number, whatever the service.
LEMMA DerivedTyped ==
  ASSUME NEW service, NEW form, Counted(form)
  PROVE  \A f \in DOMAIN Derived(service, form) : Derived(service, form)[f] \in Int
<1> DEFINE n(f, d) == Entry(form, f, d)
           kiloseconds == (n("invocations_per_month", 0) * n("avg_execution_time_ms", 0)) \div 1000000
           poolVcpu == n("read_pool_nodes", 0) * n("read_pool_vcpu_per_node", 0)
           run == RunKiloseconds(form)
           derived == Derived(service, form)
<1>1. \A f : n(f, 0) \in Int /\ n(f, 1) \in Int
  BY EntryTyped
<1>2. poolVcpu \in Int /\ kiloseconds \in Int
  <2>1. n("invocations_per_month", 0) * n("avg_execution_time_ms", 0) \in Int
    BY <1>1, Product
  <2>2. \A x \in Int : x \div 1000000 \in Int
    OBVIOUS
  <2>3. poolVcpu \in Int
    BY <1>1, Product
  <2> HIDE DEF n
  <2>4. QED
    BY <2>1, <2>2, <2>3
<1>3. run \in Int
  <2> DEFINE per == 1000000 * AtLeast(n("concurrency", 1), 1)
             asked == n("requests_per_month", 0) * n("avg_duration_ms", 0)
             idle == n("min_instances", 0) * MonthKiloseconds
  <2>1. per \in Nat \ {0}
    <3>1. AtLeast(n("concurrency", 1), 1) \in Nat \ {0}
      BY <1>1 DEF AtLeast
    <3> HIDE DEF n
    <3>2. QED
      BY <3>1
  <2>2. asked \in Int /\ idle \in Int
    BY <1>1, Product DEF MonthKiloseconds
  <2>3. run = IF Chosen(form, "cpu_allocation", "request_only") = "always_allocated"
              THEN AtLeast(asked \div per, idle) ELSE asked \div per
    BY DEF RunKiloseconds
  <2> HIDE DEF per, asked, idle, run
  <2>4. asked \div per \in Int
    BY <2>1, <2>2
  <2>5. QED
    BY <2>2, <2>3, <2>4 DEF AtLeast
<1>4. /\ Offered(Memory, form, "memory_mb", "256") \in Int
      /\ Offered(VcpuByMemory, form, "memory_mb", "256") \in Int
      /\ Offered(Chips, form, "tpu_topology", "1") \in Int
  BY TablesAssumption DEF Offered
<1>5. CASE service = "cloud-run"
  <2> DEFINE v == run * n("vcpu_count", 0)
             g == run * n("memory_gb", 0)
  <2>1. derived = [vcpu_seconds_per_month |-> v, gb_seconds_per_month |-> g, vpc_connector_flag |-> 1]
    BY <1>5 DEF Derived
  <2>2. v \in Int /\ g \in Int
    BY <1>1, <1>3, Product
  <2> HIDE DEF v, g, derived
  <2>3. QED
    BY <2>1, <2>2 DEF derived
<1>6. CASE service = "cloud-run-functions"
  <2> DEFINE g == kiloseconds * (Offered(Memory, form, "memory_mb", "256") \div 128) * 125
             v == kiloseconds * Offered(VcpuByMemory, form, "memory_mb", "256")
  <2>1. derived = [gb_seconds_per_month |-> g, vcpu_seconds_per_month |-> v]
    BY <1>6 DEF Derived
  <2>2. v \in Int /\ g \in Int
    <3>1. Offered(Memory, form, "memory_mb", "256") \div 128 \in Int /\ 125 \in Int
      BY <1>4
    <3> HIDE DEF kiloseconds
    <3>2. QED
      BY <1>2, <1>4, <3>1, Products
  <2> HIDE DEF v, g, derived
  <2>3. QED
    BY <2>1, <2>2 DEF derived
<1>7. CASE service = "alloydb"
  <2> DEFINE ram == n("vcpu", 0) * 8
  <2>1. derived = [read_pool_total_vcpu |-> poolVcpu]
        \/ derived = [read_pool_total_vcpu |-> poolVcpu, ram_gb |-> ram]
    BY <1>7 DEF Derived
  <2>2. ram \in Int
    BY <1>1, Product
  <2> HIDE DEF ram, derived, poolVcpu
  <2>3. QED
    BY <1>2, <2>1, <2>2 DEF derived
<1>8. CASE service = "spanner" /\ Chosen(form, "capacity_mode", "processing_units") = "nodes"
  <2> DEFINE units == n("node_count", 1) * 1000
  <2>1. derived = [processing_units |-> units]
    BY <1>8 DEF Derived
  <2>2. units \in Int
    BY <1>1, Product
  <2> HIDE DEF units, derived
  <2>3. QED
    BY <2>1, <2>2 DEF derived
<1>9. CASE service = "dataproc"
  <2> DEFINE hours == n("node_vcpu", 0) * n("node_count", 0) * n("cluster_hours_per_month", 0)
  <2>1. derived = [vcpu_hours_per_month |-> hours]
    BY <1>9 DEF Derived
  <2>2. hours \in Int
    BY <1>1, Products
  <2> HIDE DEF hours, derived
  <2>3. QED
    BY <2>1, <2>2 DEF derived
<1>10. CASE service = "gpu"
  <2> DEFINE hours == n("gpu_count", 1) * n("gpu_hours_per_month", 0)
  <2>1. derived = [gpu_hours_total_per_month |-> hours]
    BY <1>10 DEF Derived
  <2>2. hours \in Int
    BY <1>1, Product
  <2> HIDE DEF hours, derived
  <2>3. QED
    BY <2>1, <2>2 DEF derived
<1>11. CASE service = "tpu"
  <2> DEFINE hours == Offered(Chips, form, "tpu_topology", "1") * n("tpu_hours_per_month", 0)
  <2>1. derived = [tpu_chip_hours_total_per_month |-> hours]
    BY <1>11 DEF Derived
  <2>2. hours \in Int
    BY <1>1, <1>4, Product
  <2> HIDE DEF hours, derived
  <2>3. QED
    BY <2>1, <2>2 DEF derived
<1>12. CASE /\ service \notin {"cloud-run", "cloud-run-functions", "alloydb", "dataproc", "gpu", "tpu"}
            /\ ~(service = "spanner" /\ Chosen(form, "capacity_mode", "processing_units") = "nodes")
  <2>1. derived = None
    BY <1>12 DEF Derived
  <2>2. QED
    BY <2>1 DEF None
<1>13. QED
  BY <1>5, <1>6, <1>7, <1>8, <1>9, <1>10, <1>11, <1>12

\* And so is what a unit of a service is charged in each of its dimensions.
LEMMA PointsTyped ==
  ASSUME NEW service, KnownCard(service), NEW form, Counted(form), NEW i \in DOMAIN Cards[service].prices
  PROVE  Points(service, form, Cards[service].prices[i]) \in Int
<1> DEFINE price == Cards[service].prices[i]
           numbers == Cards[service].numbers
           region == Chosen(form, "region", "us-central1")
           percent == IF region \in DOMAIN RegionPercent THEN RegionPercent[region] ELSE 100
<1>1. /\ price.per \in Nat \ {0} /\ price.price \in Int
      /\ \A option \in DOMAIN price.rates : price.rates[option] \in Int
      /\ \A f \in DOMAIN numbers : numbers[f].default \in Int
      /\ \A r \in DOMAIN RegionPercent : RegionPercent[r] \in Int
  BY CardsAssumption DEF KnownCard
<1> HIDE DEF price, numbers
<1>2. Billed(service, form, price.of) \in Int
  <2> DEFINE derived == Derived(service, form)
             default == IF price.of \in DOMAIN numbers THEN numbers[price.of].default ELSE 0
  <2>1. Billed(service, form, price.of)
          = CASE price.of = "_unit_flag" -> 1
              [] price.of # "_unit_flag" /\ price.of \in DOMAIN derived -> derived[price.of]
              [] OTHER -> Entry(form, price.of, default)
    BY DEF Billed, numbers
  <2>2. Entry(form, price.of, default) \in Int
    BY <1>1, EntryTyped
  <2>3. price.of \in DOMAIN derived => derived[price.of] \in Int
    BY DerivedTyped
  <2> HIDE DEF derived, default
  <2>4. QED
    BY <2>1, <2>2, <2>3
<1>3. Rate(price, form) \in Int
  BY <1>1 DEF Rate
<1>4. percent \in Int
  BY <1>1
<1>5. Points(service, form, price) = Times(Times(Billed(service, form, price.of), Rate(price, form), price.per), percent, 100)
  BY DEF Points
<1> HIDE DEF percent
<1>6. Times(Billed(service, form, price.of), Rate(price, form), price.per) \in Int
  BY <1>1, <1>2, <1>3, TimesTyped
<1>7. QED
  BY <1>4, <1>5, <1>6, TimesTyped DEF price

\* Rounding is off by half a unit at most.
LEMMA RoundedNear ==
  ASSUME NEW n \in Int
  PROVE  -50 <= 100 * Rounded(n, 100) - n /\ 100 * Rounded(n, 100) - n <= 50
BY DEF Rounded

\* Rounding one unit and multiplying is off the rounded multiple by no more than the two
\* roundings.
LEMMA RoundedApart ==
  ASSUME NEW n \in Int, NEW q \in Nat
  PROVE  2 * Gap(Rounded(n, 100) * q, Rounded(n * q, 100)) <= q + 1
<1>1. n * q \in Int
  BY Product
<1>2. PICK m \in Int : m = n * q
  BY <1>1
<1>3. PICK a \in Int, b \in Int : a = Rounded(n, 100) /\ b = Rounded(m, 100)
  BY RoundedInt
<1>4. -50 <= 100 * a - n /\ 100 * a - n <= 50 /\ -50 <= 100 * b - m /\ 100 * b - m <= 50
  BY <1>3, RoundedNear
<1>5. PICK d \in Int : d = 100 * a - n
  <2>1. 100 * a - n \in Int
    BY Product
  <2>2. QED
    BY <2>1
<1>6. -(50 * q) <= d * q /\ d * q <= 50 * q
  <2>1. 50 - d \in Nat /\ 50 + d \in Nat
    BY <1>4, <1>5
  <2>2. (50 - d) * q \in Nat /\ (50 + d) * q \in Nat
    BY <2>1
  <2>3. (50 - d) * q = 50 * q - d * q /\ (50 + d) * q = 50 * q + d * q
    OBVIOUS
  <2>4. d * q \in Int /\ 50 * q \in Int
    BY Product
  <2>5. QED
    BY <2>2, <2>3, <2>4
<1>7. d * q = 100 * (a * q) - m
  BY <1>2, <1>5
<1>8. PICK p \in Int : p = a * q
  BY Product
<1>9. 2 * Gap(p, b) <= q + 1
  <2>1. -(50 * q) <= 100 * p - m /\ 100 * p - m <= 50 * q
    BY <1>6, <1>7, <1>8
  <2>2. QED
    BY <1>4, <2>1 DEF Gap
<1>10. QED
  BY <1>2, <1>3, <1>8, <1>9

\* The items of so many units, beside those of one.
Multiplied(one, all, q) ==
  /\ Charged(one) /\ Charged(all) /\ DOMAIN one = DOMAIN all
  /\ \A i \in DOMAIN one : 2 * Gap(one[i].amount * q, all[i].amount) <= q + 1

\* Lists whose amounts are.
LEMMA MultipliedLists ==
  ASSUME NEW n \in Nat, NEW q \in Nat,
         NEW one, DOMAIN one = 1..n, one = [i \in 1..n |-> one[i]],
         NEW all, DOMAIN all = 1..n, all = [i \in 1..n |-> all[i]],
         \A i \in 1..n : /\ one[i].amount \in Int /\ all[i].amount \in Int
                         /\ 2 * Gap(one[i].amount * q, all[i].amount) <= q + 1
  PROVE  Multiplied(one, all, q) /\ Len(one) = n
<1>1. Listed(one) /\ Listed(all) /\ Len(one) = n
  BY ListOf
<1>2. (\A x \in Range(one) : x.amount \in Int) /\ (\A x \in Range(all) : x.amount \in Int)
  BY DEF Range
<1>3. QED
  BY <1>1, <1>2 DEF Multiplied, Charged

\* What is multiplied after the rounding, or needs none.
LEMMA ExactlyMultiplied ==
  ASSUME NEW a \in Int, NEW q \in Nat, NEW b, b = a * q
  PROVE  b \in Int /\ 2 * Gap(a * q, b) <= q + 1
<1>1. PICK p \in Int : p = a * q
  BY Product
<1>2. 2 * Gap(p, p) <= q + 1
  BY DEF Gap
<1>3. QED
  BY <1>1, <1>2

\* The volumes that are billed are numbers.
LEMMA VolumeTyped ==
  ASSUME NEW form, Counted(form)
  PROVE  PubSubGb(form) \in Int /\ LoggingGb(form) \in Int
<1>1. PubSubGb(form) \in Int
  <2> DEFINE day == Entry(form, "published_data_gb_per_day", IF "published_data_gb_per_day" \in form.blank THEN 0 ELSE 1)
             subscriptions == Entry(form, "subscriptions", IF "subscriptions" \in form.blank THEN 0 ELSE 1)
  <2>1. day \in Int /\ subscriptions \in Int /\ PubSubFreeGb \in Int
    BY EntryTyped, PriceAssumption
  <2>2. PubSubGb(form) = AtLeast(day * 30 * (1 + subscriptions) - PubSubFreeGb, 0)
    BY DEF PubSubGb
  <2> HIDE DEF day, subscriptions
  <2>3. day * 30 \in Int /\ 1 + subscriptions \in Int
    BY <2>1
  <2>4. day * 30 * (1 + subscriptions) \in Int
    BY <2>3, Product
  <2>5. QED
    BY <2>1, <2>2, <2>4 DEF AtLeast
<1>2. LoggingGb(form) \in Int
  <2>1. Entry(form, "log_volume_gb_per_month", 0) \in Int /\ LoggingFreeGb \in Int
    BY EntryTyped, PriceAssumption
  <2>2. QED
    BY <2>1 DEF LoggingGb, AtLeast
<1>3. QED
  BY <1>1, <1>2

\* The items of a service are, whether its units are rounded before or after.
LEMMA ServiceMultiplied ==
  ASSUME NEW selection, Counted(selection.form), NEW q \in Nat
  PROVE  /\ Multiplied(ServiceItems(selection, 1), ServiceItems(selection, q), q)
         /\ Len(ServiceItems(selection, 1)) <= ItemCount(selection.service)
         /\ ItemCount(selection.service) \in Nat
<1> DEFINE service == selection.service
           form == selection.form
           prices == Cards[service].prices
           items(n) == ServiceItems(selection, n)
           volume(points, n) == [sku |-> service, category |-> Cards[service].category,
                                 amount |-> Rounded(points, 100) * n]
<1>1. CASE ~KnownCard(service)
  <2>1. items(1) = <<>> /\ items(q) = <<>> /\ ItemCount(service) = 0
    BY <1>1 DEF ServiceItems, ItemCount
  <2>2. Multiplied(<<>>, <<>>, q) /\ Len(<<>>) = 0
    <3>1. DOMAIN <<>> = {} /\ Len(<<>>) = 0
      OBVIOUS
    <3>2. Range(<<>>) = {} /\ Listed(<<>>)
      BY <3>1, ListOne DEF Range
    <3>3. QED
      BY <3>1, <3>2 DEF Multiplied, Charged
  <2>3. QED
    BY <2>1, <2>2
<1>2. ASSUME NEW points \in Int
      PROVE  /\ volume(points, 1).amount \in Int /\ volume(points, q).amount \in Int
             /\ 2 * Gap(volume(points, 1).amount * q, volume(points, q).amount) <= q + 1
  <2>1. PICK a \in Int : a = Rounded(points, 100)
    BY RoundedInt
  <2>2. volume(points, 1).amount = a * 1 /\ volume(points, q).amount = a * q
    BY <2>1
  <2> HIDE DEF volume
  <2>3. volume(points, 1).amount = a
    BY <2>2
  <2>4. QED
    BY <2>2, <2>3, ExactlyMultiplied
<1>3. CASE KnownCard(service) /\ service = "pubsub"
  <2> DEFINE points == Price["pubsub"] * PubSubGb(form)
  <2>1. points \in Int
    BY VolumeTyped, PriceAssumption, Product
  <2>2. items(1) = <<volume(points, 1)>> /\ items(q) = <<volume(points, q)>> /\ ItemCount(service) = 2
    BY <1>3 DEF ServiceItems, VolumeItems, VolumeServices, ItemCount
  <2> HIDE DEF points, volume, items
  <2>3. PICK x, y : x = volume(points, 1) /\ y = volume(points, q)
    OBVIOUS
  <2>4. items(1) = <<x>> /\ items(q) = <<y>> /\ x.amount \in Int /\ y.amount \in Int
        /\ 2 * Gap(x.amount * q, y.amount) <= q + 1
    BY <1>2, <2>1, <2>2, <2>3
  <2> DEFINE s == [i \in 1..1 |-> x]
             t == [i \in 1..1 |-> y]
  <2>5. items(1) = s /\ items(q) = t
    BY <2>4
  <2>6. PICK n \in Nat : /\ n = 1
                         /\ DOMAIN s = 1..n /\ s = [i \in 1..n |-> s[i]]
                         /\ DOMAIN t = 1..n /\ t = [i \in 1..n |-> t[i]]
                         /\ \A i \in 1..n : s[i] = x /\ t[i] = y
    OBVIOUS
  <2> HIDE DEF s, t
  <2>7. Multiplied(s, t, q) /\ Len(s) = n
    <3>1. \A i \in 1..n : /\ s[i].amount \in Int /\ t[i].amount \in Int
                          /\ 2 * Gap(s[i].amount * q, t[i].amount) <= q + 1
      BY <2>4, <2>6
    <3>2. QED
      BY <2>6, <3>1, MultipliedLists
  <2>8. ItemCount(service) = 2
    BY <2>2
  <2>9. Multiplied(items(1), items(q), q) /\ Len(items(1)) <= 2
    <3>1. n <= 2
      BY <2>6
    <3>2. QED
      BY <2>5, <2>7, <3>1
  <2>10. QED
    BY <2>8, <2>9 DEF items
<1>4. CASE KnownCard(service) /\ service = "cloud-logging"
  <2> DEFINE points == Price["cloud-logging"] * LoggingGb(form)
             retained == Entry(form, "extended_retention_gb_per_month", 0)
             kept(n) == Item("cloud-logging", "Observability", 100 * retained * n)
  <2>1. points \in Int /\ retained \in Int
    BY VolumeTyped, EntryTyped, PriceAssumption, Product
  <2>2. /\ items(1) = <<volume(points, 1)>> \o When(retained > 0, <<kept(1)>>)
        /\ items(q) = <<volume(points, q)>> \o When(retained > 0, <<kept(q)>>)
        /\ ItemCount(service) = 2
    BY <1>4 DEF ServiceItems, VolumeItems, VolumeServices, ItemCount
  <2>3. /\ kept(1).amount = Rounded(100 * retained * 1, 100)
        /\ kept(q).amount = Rounded(100 * retained * q, 100)
    BY DEF Item
  <2> HIDE DEF points, retained, volume, items, kept
  <2>4. kept(1).amount = retained /\ kept(q).amount = retained * q
    <3>1. PICK k \in Int : k = retained * q
      BY <2>1, Product
    <3>2. 100 * retained * 1 = retained * 100 /\ 100 * retained * q = k * 100
      BY <2>1, <3>1
    <3>3. Rounded(retained * 100, 100) = retained /\ Rounded(k * 100, 100) = k
      BY <2>1, RoundedExact
    <3>4. QED
      BY <2>3, <3>1, <3>2, <3>3
  <2>5. PICK x, y, u, v : x = volume(points, 1) /\ y = volume(points, q) /\ u = kept(1) /\ v = kept(q)
    OBVIOUS
  <2>6. /\ x.amount \in Int /\ y.amount \in Int /\ 2 * Gap(x.amount * q, y.amount) <= q + 1
        /\ u.amount \in Int /\ v.amount \in Int /\ 2 * Gap(u.amount * q, v.amount) <= q + 1
    BY <1>2, <2>1, <2>4, <2>5, ExactlyMultiplied
  <2>7. items(1) = <<x>> \o When(retained > 0, <<u>>) /\ items(q) = <<y>> \o When(retained > 0, <<v>>)
    BY <2>2, <2>5
  <2> DEFINE n == IF retained > 0 THEN 2 ELSE 1
             s == [i \in 1..n |-> IF i = 1 THEN x ELSE u]
             t == [i \in 1..n |-> IF i = 1 THEN y ELSE v]
  <2>8. ASSUME NEW a, NEW b
        PROVE  /\ <<a>> \o <<b>> = [i \in 1..2 |-> IF i = 1 THEN a ELSE b]
               /\ <<a>> \o <<>> = [i \in 1..1 |-> IF i = 1 THEN a ELSE b]
    <3>1. PICK w : w = <<a>> \o <<b>>
      OBVIOUS
    <3>2. Listed(w) /\ Len(w) = 2 /\ w[1] = a /\ w[2] = b
      <4>1. PICK d, e : d = <<a>> /\ e = <<b>>
        OBVIOUS
      <4>0. Listed(d) /\ Listed(e)
        BY <4>1, ListOne
      <4>2. /\ Len(d) = 1 /\ Len(e) = 1 /\ DOMAIN d = {1} /\ DOMAIN e = {1}
            /\ d[1] = a /\ e[1] = b
        BY <4>1
      <4>3. /\ Listed(d \o e) /\ Len(d \o e) = Len(d) + Len(e)
            /\ \A i \in DOMAIN d : (d \o e)[i] = d[i]
            /\ \A i \in DOMAIN (d \o e) : \/ i \in DOMAIN d /\ (d \o e)[i] = d[i]
                                          \/ i - Len(d) \in DOMAIN e /\ (d \o e)[i] = e[i - Len(d)]
        BY <4>0, ListJoined
      <4>4. Listed(w) /\ Len(w) = 2 /\ w[1] = a /\ \A i \in DOMAIN w : i = 1 \/ w[i] = e[i - 1]
        BY <3>1, <4>1, <4>2, <4>3
      <4>5. 2 \in DOMAIN w
        BY <4>4, ListIndices
      <4>6. w[2] = b
        BY <4>2, <4>4, <4>5
      <4>7. QED
        BY <4>4, <4>6
    <3>3. <<a>> \o <<>> = <<a>>
      OBVIOUS
    <3>4. <<a>> = [i \in 1..1 |-> IF i = 1 THEN a ELSE b]
      OBVIOUS
    <3>5. QED
      <4>1. w = [i \in 1..2 |-> w[i]]
        BY <3>2 DEF Listed
      <4>2. \A i \in 1..2 : w[i] = IF i = 1 THEN a ELSE b
        BY <3>2
      <4>3. w = [i \in 1..2 |-> IF i = 1 THEN a ELSE b]
        BY <4>1, <4>2
      <4>4. QED
        BY <3>1, <3>3, <3>4, <4>3
  <2>9. items(1) = s /\ items(q) = t
    <3>1. CASE retained > 0
      <4>1. items(1) = <<x>> \o <<u>> /\ items(q) = <<y>> \o <<v>>
        BY <2>7, <3>1 DEF When
      <4>2. n = 2
        BY <3>1
      <4> HIDE DEF n
      <4>3. items(1) = [i \in 1..2 |-> IF i = 1 THEN x ELSE u]
        <5>1. <<x>> \o <<u>> = [i \in 1..2 |-> IF i = 1 THEN x ELSE u]
          BY <2>8
        <5>2. QED
          BY <4>1, <5>1
      <4>4. items(q) = [i \in 1..2 |-> IF i = 1 THEN y ELSE v]
        <5>1. <<y>> \o <<v>> = [i \in 1..2 |-> IF i = 1 THEN y ELSE v]
          BY <2>8
        <5>2. QED
          BY <4>1, <5>1
      <4>5. QED
        BY <4>2, <4>3, <4>4
    <3>2. CASE ~(retained > 0)
      <4>1. items(1) = <<x>> \o <<>> /\ items(q) = <<y>> \o <<>>
        BY <2>7, <3>2 DEF When
      <4>2. n = 1
        BY <3>2
      <4> HIDE DEF n
      <4>3. items(1) = [i \in 1..1 |-> IF i = 1 THEN x ELSE u] /\ items(q) = [i \in 1..1 |-> IF i = 1 THEN y ELSE v]
        BY <2>8, <4>1
      <4>4. QED
        BY <4>2, <4>3
    <3>3. QED
      BY <3>1, <3>2
  <2>10. n \in Nat /\ n <= 2
    OBVIOUS
  <2> HIDE DEF n
  <2>11. DOMAIN s = 1..n /\ s = [i \in 1..n |-> s[i]] /\ DOMAIN t = 1..n /\ t = [i \in 1..n |-> t[i]]
    OBVIOUS
  <2>12. \A i \in 1..n : (s[i] = x /\ t[i] = y) \/ (s[i] = u /\ t[i] = v)
    <3>1. \A i \in 1..n : s[i] = IF i = 1 THEN x ELSE u
      OBVIOUS
    <3>2. \A i \in 1..n : t[i] = IF i = 1 THEN y ELSE v
      OBVIOUS
    <3> HIDE DEF s, t
    <3>3. QED
      BY <3>1, <3>2
  <2> HIDE DEF s, t
  <2>13. Multiplied(s, t, q) /\ Len(s) = n
    <3>1. \A i \in 1..n : /\ s[i].amount \in Int /\ t[i].amount \in Int
                          /\ 2 * Gap(s[i].amount * q, t[i].amount) <= q + 1
      BY <2>6, <2>12
    <3>2. QED
      BY <2>10, <2>11, <3>1, MultipliedLists
  <2>14. ItemCount(service) = 2
    BY <2>2
  <2>15. Multiplied(items(1), items(q), q) /\ Len(items(1)) <= 2
    BY <2>9, <2>10, <2>13
  <2>16. QED
    BY <2>14, <2>15 DEF items
<1>5. CASE KnownCard(service) /\ service \notin VolumeServices
  <2> DEFINE points(i) == Points(service, form, prices[i])
             s == [i \in DOMAIN prices |-> Item(service, Cards[service].category, points(i) * 1)]
             t == [i \in DOMAIN prices |-> Item(service, Cards[service].category, points(i) * q)]
             n == Len(prices)
  <2>1. items(1) = s /\ items(q) = t /\ ItemCount(service) = n
    BY <1>5 DEF ServiceItems, ItemCount
  <2>2. prices \in Seq(Range(prices))
    BY <1>5, CardsAssumption DEF KnownCard
  <2>3. DOMAIN prices = 1..n /\ n \in Nat
    BY <2>2
  <2>4. \A i \in 1..n : points(i) \in Int
    BY <1>5, <2>3, PointsTyped
  <2>5. /\ DOMAIN s = 1..n /\ s = [i \in 1..n |-> s[i]] /\ DOMAIN t = 1..n /\ t = [i \in 1..n |-> t[i]]
    BY <2>3
  <2>6. \A i \in 1..n : s[i].amount = Rounded(points(i) * 1, 100) /\ t[i].amount = Rounded(points(i) * q, 100)
    BY <2>3 DEF Item
  <2> HIDE DEF s, t, n, points, items
  <2>7. ASSUME NEW i \in 1..n
        PROVE  /\ s[i].amount \in Int /\ t[i].amount \in Int
               /\ 2 * Gap(s[i].amount * q, t[i].amount) <= q + 1
    <3>1. PICK p \in Int : p = points(i)
      BY <2>4
    <3>2. p * 1 = p /\ p * q \in Int
      BY Product
    <3>3. s[i].amount = Rounded(p, 100) /\ t[i].amount = Rounded(p * q, 100)
      BY <2>6, <3>1, <3>2
    <3>4. Rounded(p, 100) \in Int /\ Rounded(p * q, 100) \in Int
      <4>1. 100 \in Nat \ {0}
        OBVIOUS
      <4>2. QED
        BY <3>2, <4>1, RoundedInt
    <3>5. 2 * Gap(Rounded(p, 100) * q, Rounded(p * q, 100)) <= q + 1
      BY RoundedApart
    <3>6. QED
      BY <3>3, <3>4, <3>5
  <2>8. Multiplied(s, t, q) /\ Len(s) = n
    BY <2>3, <2>5, <2>7, MultipliedLists
  <2>9. QED
    BY <2>1, <2>3, <2>8 DEF items
<1>6. VolumeServices = {"pubsub", "cloud-logging"}
  BY DEF VolumeServices
<1>7. QED
  BY <1>1, <1>3, <1>4, <1>5, <1>6

\* What so many units of a service come to is off the multiple of what one comes to by the
\* roundings of its items and of its units.
LEMMA ServiceSum ==
  ASSUME NEW selection, Counted(selection.form), NEW q \in Nat
  PROVE  /\ Charged(ServiceItems(selection, 1)) /\ Charged(ServiceItems(selection, q))
         /\ ItemCount(selection.service) * (q + 1) \in Int
         /\ 2 * Gap(Sum(ServiceItems(selection, 1)) * q, Sum(ServiceItems(selection, q)))
              <= ItemCount(selection.service) * (q + 1)
<1>1. PICK one, all : one = ServiceItems(selection, 1) /\ all = ServiceItems(selection, q)
  OBVIOUS
<1>2. PICK n \in Nat : n = ItemCount(selection.service)
  BY ServiceMultiplied
<1>3. Multiplied(one, all, q) /\ Len(one) <= n
  BY <1>1, <1>2, ServiceMultiplied
<1>4. Charged(one) /\ Charged(all) /\ DOMAIN one = DOMAIN all
  BY <1>3 DEF Multiplied
<1> DEFINE S == DOMAIN one
           a == Amounts(one)
           b == Amounts(all)
           e == [i \in S |-> a[i] * q]
           k == [i \in S |-> q + 1]
<1>5. /\ IsFiniteSet(S) /\ \A i \in S : a[i] = one[i].amount /\ a[i] \in Int
      /\ Sum(one) = SumFunctionOnSet(a, S) /\ Sum(one) \in Int
  BY <1>4, ChargedSum
<1>6. (\A i \in S : b[i] = all[i].amount /\ b[i] \in Int) /\ Sum(all) = SumFunctionOnSet(b, S)
  BY <1>4, ChargedSum
<1>7. \A i \in S : e[i] = a[i] * q /\ e[i] \in Int /\ k[i] = q + 1 /\ k[i] \in Int
  BY <1>5, Product
<1>8. \A i \in S : 2 * Gap(one[i].amount * q, all[i].amount) <= q + 1
  BY <1>3 DEF Multiplied
<1> HIDE DEF S, a, b, e, k
<1>9. SumFunctionOnSet(e, S) = Sum(one) * q
  BY <1>5, <1>7, SumScaled
<1>10. 2 * Gap(SumFunctionOnSet(e, S), SumFunctionOnSet(b, S)) <= SumFunctionOnSet(k, S)
  <2>1. \A i \in S : 2 * Gap(e[i], b[i]) <= k[i]
    BY <1>5, <1>6, <1>7, <1>8
  <2>2. QED
    BY <1>5, <1>6, <1>7, <2>1, SumApart
<1>11. SumFunctionOnSet(k, S) = Cardinality(S) * (q + 1)
  <2>1. q + 1 \in Int
    OBVIOUS
  <2>2. QED
    BY <1>5, <1>7, <2>1, SumConstant
<1>12. Cardinality(S) \in Nat /\ Cardinality(S) <= n
  <2>1. S = 1..Len(one) /\ Len(one) \in Nat
    BY <1>4, ChargedSum DEF S
  <2>2. Cardinality(S) = Len(one)
    <3>1. PICK l \in Nat : l = Len(one)
      BY <2>1
    <3>2. 1 \in Int /\ l \in Int /\ S = 1..l
      BY <2>1, <3>1
    <3>3. Cardinality(1..l) = IF 1 > l THEN 0 ELSE l - 1 + 1
      BY <3>2, FS_Interval
    <3>4. QED
      BY <3>1, <3>2, <3>3
  <2>3. QED
    BY <1>3, <2>1, <2>2
<1>13. Cardinality(S) * (q + 1) <= n * (q + 1)
  <2>1. PICK m \in Nat, x \in Nat : m = Cardinality(S) /\ x = q + 1
    BY <1>12
  <2>2. x * m <= x * n /\ x * m = m * x /\ x * n = n * x
    BY <1>12, <2>1, ProductGrows
  <2>3. QED
    BY <2>1, <2>2
<1>14. Sum(one) * q \in Int /\ Sum(all) \in Int /\ n * (q + 1) \in Int /\ Cardinality(S) * (q + 1) \in Int
  <2>1. q + 1 \in Int /\ q \in Int
    OBVIOUS
  <2>2. QED
    BY <1>4, <1>5, <1>12, <2>1, ChargedSum, Product
<1>15. PICK w \in Int, x \in Int, y \in Int, z \in Int :
         w = Sum(one) * q /\ x = Sum(all) /\ y = Cardinality(S) * (q + 1) /\ z = n * (q + 1)
  BY <1>14
<1>16. 2 * Gap(w, x) <= y /\ y <= z
  BY <1>6, <1>9, <1>10, <1>11, <1>13, <1>15
<1>17. 2 * Gap(w, x) <= z
  BY <1>16 DEF Gap
<1>18. 2 * Gap(Sum(one) * q, Sum(all)) <= n * (q + 1)
  BY <1>15, <1>17
<1>19. QED
  BY <1>1, <1>2, <1>4, <1>14, <1>18

\* The items of the catalog come to what the selections come to, in whichever order they
\* are priced.
LEMMA ExtrasSum ==
  ASSUME NEW selections, Listed(selections),
         \A j \in DOMAIN selections : Charged(ServiceItems(selections[j], selections[j].quantity)),
         NEW v, \A j \in DOMAIN selections : v[j] = Sum(ServiceItems(selections[j], selections[j].quantity))
  PROVE  /\ Charged(ExtraItems(selections))
         /\ Sum(ExtraItems(selections)) = SumFunctionOnSet(v, DOMAIN selections)
<1> DEFINE D == DOMAIN selections
           volume == {i \in D : selections[i].service \in VolumeServices}
           flat == D \ volume
           A == Picked(selections, flat)
           B == Picked(selections, volume)
           ordered == A \o B
           parts == [i \in DOMAIN ordered |-> ServiceItems(ordered[i], ordered[i].quantity)]
           p == [i \in DOMAIN ordered |-> Sum(parts[i])]
<1>1. /\ IsFiniteSet(D) /\ D \subseteq Nat
      /\ flat \subseteq D /\ volume \subseteq D /\ D = flat \cup volume /\ flat \cap volume = {}
  BY ListIndices
<1>2. ExtraItems(selections) = FlattenSeq(parts)
  BY DEF ExtraItems
<1> HIDE DEF volume, flat
<1>3. IsFiniteSet(flat) /\ IsFiniteSet(volume) /\ flat \subseteq Nat /\ volume \subseteq Nat
  BY <1>1, FS_Subset
<1>4. PICK m \in Nat, n \in Nat : m = Cardinality(flat) /\ n = Cardinality(volume)
  BY <1>3, FS_CardinalityType
<1>5. /\ Listed(A) /\ Len(A) = m /\ Listed(B) /\ Len(B) = n
  BY <1>3, <1>4, ListPicked
<1>6. (\A t \in 1..m : A[t] = selections[Nth(flat, t)]) /\ (\A t \in 1..n : B[t] = selections[Nth(volume, t)])
  BY <1>4 DEF Picked
<1> HIDE DEF D, A, B
<1>7. /\ Listed(ordered) /\ DOMAIN ordered = 1..(m + n)
      /\ \A t \in 1..m : ordered[t] = A[t]
      /\ \A t \in 1..(m + n) : ~(t <= m) => t - m \in 1..n /\ ordered[t] = B[t - m]
  <2>1. /\ Listed(ordered) /\ Len(ordered) = Len(A) + Len(B)
        /\ \A i \in DOMAIN A : i \in DOMAIN ordered /\ ordered[i] = A[i]
        /\ \A i \in DOMAIN ordered : \/ i \in DOMAIN A /\ ordered[i] = A[i]
                                     \/ i - Len(A) \in DOMAIN B /\ ordered[i] = B[i - Len(A)]
    BY <1>5, ListJoined
  <2>2. DOMAIN A = 1..m /\ DOMAIN B = 1..n
    BY <1>5, ListIndices
  <2> HIDE DEF ordered
  <2>3. DOMAIN ordered = 1..(m + n)
    BY <1>5, <2>1, ListIndices
  <2>4. QED
    BY <1>5, <2>1, <2>2, <2>3
<1> DEFINE at(t) == IF t <= m THEN Nth(flat, t) ELSE Nth(volume, t - m)
           rank(j) == IF j \in volume THEN m + Rank(volume, j) ELSE Rank(flat, j)
           T == 1..(m + n)
           k == [t \in T |-> at(t)]
           h == [j \in D |-> rank(j)]
<1> HIDE DEF ordered
<1>8. ASSUME NEW t \in T
      PROVE  at(t) \in D /\ rank(at(t)) = t /\ ordered[t] = selections[at(t)]
  <2>1. CASE t <= m
    <3>1. t \in 1..m
      BY <2>1
    <3>2. Nth(flat, t) \in flat /\ Rank(flat, Nth(flat, t)) = t
      BY <1>3, <1>4, <3>1, NthIn, NthRanked
    <3>3. at(t) = Nth(flat, t)
      BY <2>1
    <3>4. rank(at(t)) = Rank(flat, at(t))
      BY <1>1, <3>2, <3>3
    <3> HIDE DEF at, rank
    <3>5. QED
      BY <1>1, <1>6, <1>7, <3>1, <3>2, <3>3, <3>4
  <2>2. CASE ~(t <= m)
    <3>1. t - m \in 1..n /\ ordered[t] = B[t - m]
      BY <1>7, <2>2
    <3>2. Nth(volume, t - m) \in volume /\ Rank(volume, Nth(volume, t - m)) = t - m
      BY <1>3, <1>4, <3>1, NthIn, NthRanked
    <3>3. at(t) = Nth(volume, t - m)
      BY <2>2
    <3>4. rank(at(t)) = m + Rank(volume, at(t))
      BY <3>2, <3>3
    <3>5. m + (t - m) = t
      OBVIOUS
    <3> HIDE DEF at, rank
    <3>6. QED
      BY <1>1, <1>6, <3>1, <3>2, <3>3, <3>4, <3>5
  <2>3. QED
    BY <2>1, <2>2
<1>9. ASSUME NEW j \in D PROVE rank(j) \in T /\ at(rank(j)) = j
  <2>1. CASE j \in volume
    <3>1. PICK x : x = Rank(volume, j)
      OBVIOUS
    <3>2. x \in 1..n
      BY <1>3, <1>4, <2>1, <3>1, Ranked
    <3>3. rank(j) = m + x /\ ~(m + x <= m) /\ (m + x) - m = x /\ m + x \in T
      BY <2>1, <3>1, <3>2
    <3>4. Nth(volume, x) = j
      BY <1>3, <1>4, <2>1, <3>1, <3>2, NthRanked
    <3>5. at(m + x) = Nth(volume, x)
      BY <3>3
    <3>6. QED
      BY <3>3, <3>4, <3>5
  <2>2. CASE j \notin volume
    <3>1. PICK x : x = Rank(flat, j)
      OBVIOUS
    <3>0. j \in flat
      BY <1>1, <2>2
    <3>2. x \in 1..m
      BY <1>3, <1>4, <3>0, <3>1, Ranked
    <3>3. rank(j) = x /\ x <= m /\ x \in T
      BY <2>2, <3>1, <3>2
    <3>4. Nth(flat, x) = j
      BY <1>3, <1>4, <3>0, <3>1, <3>2, NthRanked
    <3>5. at(x) = Nth(flat, x)
      BY <3>3
    <3>6. QED
      BY <3>3, <3>4, <3>5
  <2>3. QED
    BY <2>1, <2>2
<1>10. \A t \in T : k[t] = at(t)
  OBVIOUS
<1>11. \A j \in D : h[j] = rank(j)
  OBVIOUS
<1>12. /\ \A t \in T : parts[t] = ServiceItems(ordered[t], ordered[t].quantity)
       /\ \A t \in T : p[t] = Sum(parts[t])
       /\ DOMAIN parts = T /\ Listed(parts)
  <2>1. DOMAIN ordered = T /\ m + n \in Nat
    BY <1>7
  <2>2. DOMAIN parts = T /\ \A t \in T : parts[t] = ServiceItems(ordered[t], ordered[t].quantity)
    BY <2>1
  <2>3. \A t \in T : p[t] = Sum(parts[t])
    BY <2>1
  <2>4. Listed(parts)
    BY <2>1, ListOf
  <2>5. QED
    BY <2>2, <2>3, <2>4
<1> HIDE DEF at, rank, T, k, h, parts, p
<1>13. \A t \in T : Charged(parts[t]) /\ p[t] = v[at(t)]
  BY <1>8, <1>12 DEF D
<1>14. Charged(FlattenSeq(parts)) /\ Sum(FlattenSeq(parts)) = SumFunctionOnSet(p, T)
  BY <1>12, <1>13, SumFlattened
<1>15. SumFunctionOnSet(v, D) = SumFunctionOnSet(p, T)
  <2>1. \A j \in D : v[j] \in Int
    BY ChargedSum DEF D
  <2>2. \A j \in D : h[j] \in T /\ k[h[j]] = j
    BY <1>9, <1>10, <1>11
  <2>3. \A t \in T : k[t] \in D /\ h[k[t]] = t /\ p[t] = v[k[t]]
    BY <1>8, <1>10, <1>11, <1>13
  <2>4. IsFiniteSet(T)
    BY FS_Interval DEF T
  <2>5. (\A j \in D : h[j] \in T) /\ (\A j \in D : k[h[j]] = j)
    BY <2>2
  <2>6. IsFiniteSet(D)
    BY <1>1
  <2>7. QED
    BY <2>1, <2>3, <2>4, <2>5, <2>6, SumMoved
<1>16. QED
  BY <1>2, <1>14, <1>15 DEF D

\* Equal selections have the same items.
LEMMA EqualItems ==
  ASSUME NEW x, NEW y, x.service = y.service, x.form = y.form
  PROVE  ServiceItems(x, 1) = ServiceItems(y, 1)
<1>1. VolumeItems(x, 1) = VolumeItems(y, 1)
  BY DEF VolumeItems
<1>2. QED
  BY <1>1 DEF ServiceItems

\* The rows of the catalog come to the multiples of what one unit of each selection comes to.
LEMMA RowsSum ==
  ASSUME NEW selections, Listed(selections),
         \A j \in DOMAIN selections : /\ Charged(ServiceItems(selections[j], 1))
                                      /\ selections[j].quantity \in Nat,
         NEW f, \A j \in DOMAIN selections :
                  f[j] = Sum(ServiceItems(selections[j], 1)) * selections[j].quantity
  PROVE  Sum(CatalogRows(selections)) = SumFunctionOnSet(f, DOMAIN selections)
<1> DEFINE D == DOMAIN selections
           unit(j) == Sum(ServiceItems(selections[j], 1))
           quantities == [j \in D |-> selections[j].quantity]
           K == {j \in D : KnownCard(selections[j].service)}
           F == Firsts(selections)
           T == 1..Cardinality(F)
           alike(i) == Equal(selections, i)
           first(j) == CHOOSE i \in alike(j) : \A l \in alike(j) : i <= l
           rows == CatalogRows(selections)
           h == [j \in K |-> Rank(F, first(j))]
           at == [n \in T |-> alike(Nth(F, n))]
<1>1. IsFiniteSet(D) /\ D \subseteq Nat /\ K \subseteq D /\ F \subseteq K
  BY ListIndices DEF Firsts
<1>2. /\ IsFiniteSet(F) /\ F \subseteq Nat /\ IsFiniteSet(K) /\ IsFiniteSet(D \ K) /\ IsFiniteSet(T)
      /\ Cardinality(F) \in Nat
  <2> HIDE DEF D, K, F
  <2>1. IsFiniteSet(F) /\ F \subseteq Nat /\ IsFiniteSet(K) /\ IsFiniteSet(D \ K)
    BY <1>1, FS_Subset
  <2>2. Cardinality(F) \in Nat
    BY <2>1, FS_CardinalityType
  <2>3. IsFiniteSet(T)
    BY <2>2, FS_Interval
  <2>4. QED
    BY <2>1, <2>2, <2>3
<1>3. /\ \A j \in D : unit(j) \in Int /\ selections[j].quantity \in Int /\ f[j] = unit(j) * selections[j].quantity
      /\ \A j \in D : f[j] \in Int
  <2>1. \A j \in D : unit(j) \in Int /\ selections[j].quantity \in Int
    BY ChargedSum
  <2>2. QED
    BY <2>1, Product
<1>4. \A i : \A j \in alike(i) : /\ j \in D /\ selections[j].service = selections[i].service
                                 /\ selections[j].form = selections[i].form
  BY DEF Equal
<1>5. \A i \in D : /\ i \in alike(i) /\ alike(i) \subseteq D
                   /\ \A j \in alike(i) : alike(j) = alike(i) /\ unit(j) = unit(i)
  <2>1. \A i \in D : i \in alike(i) /\ alike(i) \subseteq D /\ \A j \in alike(i) : alike(j) = alike(i)
    BY DEF Equal
  <2>2. \A i \in D : \A j \in alike(i) : unit(j) = unit(i)
    BY <1>4, EqualItems
  <2>3. QED
    BY <2>1, <2>2
<1>6. ASSUME NEW j \in K
      PROVE  /\ first(j) \in F /\ j \in alike(first(j))
             /\ \A i \in F : j \in alike(i) => i = first(j)
  <2>1. first(j) \in alike(j) /\ \A l \in alike(j) : first(j) <= l
    <3>1. alike(j) # {} /\ alike(j) \subseteq Nat
      BY <1>1, <1>5
    <3>2. \E i \in alike(j) : \A l \in alike(j) : i <= l
      BY <3>1, Least
    <3>3. QED
      BY <3>2
  <2>2. alike(first(j)) = alike(j) /\ first(j) \in D
    BY <1>1, <1>5, <2>1
  <2>3. KnownCard(selections[first(j)].service)
    BY <1>4, <2>1
  <2>4. first(j) \in F
    <3>1. \A l \in Equal(selections, first(j)) : first(j) <= l
      BY <2>1, <2>2
    <3> HIDE DEF first
    <3>2. QED
      BY <2>2, <2>3, <3>1 DEF Firsts
  <2>5. ASSUME NEW i \in F, j \in alike(i) PROVE i = first(j)
    <3>1. i \in D /\ \A l \in alike(i) : i <= l
      BY DEF Firsts
    <3>2. alike(j) = alike(i) /\ i \in alike(i)
      BY <1>5, <2>5, <3>1
    <3>3. i <= first(j) /\ first(j) <= i /\ i \in Nat /\ first(j) \in Nat
      BY <1>1, <2>1, <2>2, <3>1, <3>2
    <3> HIDE DEF first
    <3>4. QED
      BY <3>3
  <2>6. QED
    BY <1>5, <2>2, <2>4, <2>5
<1>7. /\ DOMAIN rows = T
      /\ \A n \in T : rows[n].amount = unit(Nth(F, n)) * SumFunctionOnSet(quantities, alike(Nth(F, n)))
  <2>1. rows = [n \in T |-> CatalogRow(selections, Nth(F, n), SumFunctionOnSet(quantities, alike(Nth(F, n))))]
    BY DEF CatalogRows
  <2>2. \A i, q : CatalogRow(selections, i, q).amount = unit(i) * q
    BY DEF CatalogRow, Row
  <2> HIDE DEF rows, T, F, quantities, alike, unit
  <2>3. QED
    BY <2>1, <2>2
<1>8. Sum(rows) = SumFunctionOnSet(Amounts(rows), T) /\ \A n \in T : Amounts(rows)[n] = rows[n].amount
  <2> HIDE DEF rows, T
  <2>1. DOMAIN Amounts(rows) = T /\ \A n \in T : Amounts(rows)[n] = rows[n].amount
    BY <1>7 DEF Amounts
  <2>2. QED
    BY <2>1 DEF Sum, SumFunction
<1>9. \A j \in D : quantities[j] = selections[j].quantity
  OBVIOUS
<1>10. (\A j \in K : h[j] = Rank(F, first(j))) /\ (\A n \in T : at[n] = alike(Nth(F, n)))
  OBVIOUS
<1>11. \A j \in D \ K : f[j] = 0
  <2>1. ASSUME NEW j \in D \ K PROVE f[j] = 0
    <3>1. ServiceItems(selections[j], 1) = <<>>
      BY DEF ServiceItems
    <3>2. DOMAIN <<>> = {}
      OBVIOUS
    <3>3. Sum(<<>>) = SumFunctionOnSet(Amounts(<<>>), {})
      BY <3>2 DEF Sum, SumFunction, Amounts
    <3>4. unit(j) = 0
      BY <3>1, <3>3, SumNone
    <3> HIDE DEF unit
    <3>5. f[j] = 0 * selections[j].quantity /\ selections[j].quantity \in Int
      BY <1>3, <3>4
    <3>6. QED
      BY <3>5
  <2>2. QED
    BY <2>1
<1>12. K \cup (D \ K) = D /\ K \cap (D \ K) = {}
  BY <1>1
<1>13. \A i \in K : alike(i) \subseteq K
  BY <1>4
<1> HIDE DEF D, K, F, T, alike, first, unit, quantities, rows, h, at
<1>14. ASSUME NEW n \in T
       PROVE  Nth(F, n) \in F /\ Rank(F, Nth(F, n)) = n /\ \A i \in F : Rank(F, i) = n => Nth(F, n) = i
  BY <1>2, NthIn, NthRanked DEF T
<1>15. ASSUME NEW n \in T
       PROVE  at[n] \subseteq K /\ \A j \in K : j \in at[n] <=> h[j] = n
  <2>1. PICK i \in F : i = Nth(F, n)
    BY <1>14
  <2>2. at[n] = alike(i) /\ Rank(F, i) = n /\ \A l \in F : Rank(F, l) = n => l = i
    BY <1>10, <1>14, <2>1
  <2>3. i \in K
    BY <1>1, <2>1
  <2>4. at[n] \subseteq K
    BY <1>13, <2>2, <2>3
  <2>5. ASSUME NEW j \in K PROVE j \in at[n] <=> h[j] = n
    <3>1. first(j) \in F /\ j \in alike(first(j)) /\ \A l \in F : j \in alike(l) => l = first(j)
      BY <1>6
    <3>2. h[j] = Rank(F, first(j))
      BY <1>10
    <3>3. j \in at[n] => h[j] = n
      BY <2>1, <2>2, <3>1, <3>2
    <3>4. h[j] = n => j \in at[n]
      BY <2>2, <3>1, <3>2
    <3>5. QED
      BY <3>3, <3>4
  <2>6. QED
    BY <2>4, <2>5
<1>16. ASSUME NEW n \in T
       PROVE  Amounts(rows)[n] = SumFunctionOnSet(f, at[n])
  <2>1. PICK i \in F : i = Nth(F, n)
    BY <1>14
  <2>2. PICK S : S = alike(i)
    OBVIOUS
  <2>3. S = at[n] /\ S \subseteq D /\ i \in D
    BY <1>1, <1>5, <1>10, <2>1, <2>2
  <2>4. IsFiniteSet(S)
    BY <1>1, <2>3, FS_Subset
  <2>5. PICK c \in Int : c = unit(i)
    BY <1>3, <2>3
  <2>6. \A j \in S : quantities[j] \in Int /\ f[j] = quantities[j] * c
    <3>1. ASSUME NEW j \in S PROVE quantities[j] \in Int /\ f[j] = quantities[j] * c
      <4>1. j \in D /\ unit(j) = c
        BY <1>5, <2>2, <2>3, <2>5
      <4>2. PICK q \in Int : q = selections[j].quantity
        BY <1>3, <4>1
      <4>3. quantities[j] = q /\ f[j] = c * q
        BY <1>3, <1>9, <4>1, <4>2
      <4>4. c * q = q * c
        OBVIOUS
      <4>5. QED
        BY <4>3, <4>4
    <3>2. QED
      BY <3>1
  <2>7. SumFunctionOnSet(f, S) = SumFunctionOnSet(quantities, S) * c
    BY <2>4, <2>6, SumScaled
  <2>8. PICK s \in Int : s = SumFunctionOnSet(quantities, S)
    BY <2>4, <2>6, SumType
  <2>9. Amounts(rows)[n] = c * s
    BY <1>7, <1>8, <2>1, <2>2, <2>5, <2>8
  <2>10. c * s = s * c
    OBVIOUS
  <2>11. QED
    BY <2>3, <2>7, <2>8, <2>9, <2>10
<1>17. SumFunctionOnSet(f, K) = SumFunctionOnSet(Amounts(rows), T)
  <2>1. \A j \in K : f[j] \in Int
    BY <1>1, <1>3
  <2>2. \A j \in K : h[j] \in T
    BY <1>2, <1>6, <1>10, Ranked DEF T
  <2>3. IsFiniteSet(K) /\ IsFiniteSet(T)
    BY <1>2
  <2>4. /\ \A n \in T : at[n] \subseteq K
        /\ \A n \in T : \A j \in K : j \in at[n] <=> h[j] = n
    BY <1>15
  <2>5. QED
    BY <1>16, <2>1, <2>2, <2>3, <2>4, SumParts
<1>18. SumFunctionOnSet(f, D) = SumFunctionOnSet(f, K) + SumFunctionOnSet(f, D \ K)
  <2>1. \A j \in K \cup (D \ K) : f[j] \in Int
    BY <1>3, <1>12
  <2>2. SumFunctionOnSet(f, K \cup (D \ K)) = SumFunctionOnSet(f, K) + SumFunctionOnSet(f, D \ K)
    BY <1>2, <1>12, <2>1, SumUnion
  <2>3. QED
    BY <1>12, <2>2
<1>19. SumFunctionOnSet(f, D \ K) = 0
  BY <1>2, <1>11, SumNoughts
<1>20. SumFunctionOnSet(f, K) \in Int
  BY <1>1, <1>2, <1>3, SumType
<1>21. SumFunctionOnSet(f, D) = SumFunctionOnSet(f, K)
  BY <1>18, <1>19, <1>20
<1>22. QED
  BY <1>8, <1>17, <1>21 DEF rows, D

\* The rows of the catalog are off its items by the roundings of each item and each unit.
LEMMA CatalogReconciles ==
  ASSUME NEW selections, Listed(selections),
         \A j \in DOMAIN selections : Counted(selections[j].form) /\ selections[j].quantity \in Nat
  PROVE  /\ Charged(ExtraItems(selections))
         /\ 2 * Gap(Sum(CatalogRows(selections)), Sum(ExtraItems(selections)))
              <= SumFunction([i \in DOMAIN selections |->
                                ItemCount(selections[i].service) * (selections[i].quantity + 1)])
<1> DEFINE D == DOMAIN selections
           f == [j \in D |-> Sum(ServiceItems(selections[j], 1)) * selections[j].quantity]
           v == [j \in D |-> Sum(ServiceItems(selections[j], selections[j].quantity))]
           c == [i \in D |-> ItemCount(selections[i].service) * (selections[i].quantity + 1)]
<1>1. ASSUME NEW j \in D
      PROVE  /\ Charged(ServiceItems(selections[j], 1)) /\ selections[j].quantity \in Nat
             /\ Charged(ServiceItems(selections[j], selections[j].quantity))
             /\ f[j] \in Int /\ v[j] \in Int /\ c[j] \in Int /\ 2 * Gap(f[j], v[j]) <= c[j]
  <2>1. PICK x : x = selections[j]
    OBVIOUS
  <2>2. PICK q \in Nat : q = x.quantity
    BY <2>1
  <2>3. /\ Charged(ServiceItems(x, 1)) /\ Charged(ServiceItems(x, q))
        /\ ItemCount(x.service) * (q + 1) \in Int
        /\ 2 * Gap(Sum(ServiceItems(x, 1)) * q, Sum(ServiceItems(x, q))) <= ItemCount(x.service) * (q + 1)
    BY <2>1, ServiceSum
  <2>4. Sum(ServiceItems(x, 1)) * q \in Int /\ Sum(ServiceItems(x, q)) \in Int
    BY <2>3, ChargedSum, Product
  <2>5. /\ f[j] = Sum(ServiceItems(x, 1)) * q /\ v[j] = Sum(ServiceItems(x, q))
        /\ c[j] = ItemCount(x.service) * (q + 1)
    BY <2>1, <2>2
  <2> HIDE DEF f, v, c
  <2>6. QED
    BY <2>1, <2>2, <2>3, <2>4, <2>5
<1>2. IsFiniteSet(D)
  BY ListIndices
<1>3. /\ \A j \in D : f[j] = Sum(ServiceItems(selections[j], 1)) * selections[j].quantity
      /\ \A j \in D : v[j] = Sum(ServiceItems(selections[j], selections[j].quantity))
      /\ DOMAIN c = D
  OBVIOUS
<1>4. SumFunction(c) = SumFunctionOnSet(c, D)
  BY <1>3 DEF SumFunction
<1> HIDE DEF f, v, c
<1>5. Sum(CatalogRows(selections)) = SumFunctionOnSet(f, D)
  BY <1>1, <1>3, RowsSum
<1>6. Charged(ExtraItems(selections)) /\ Sum(ExtraItems(selections)) = SumFunctionOnSet(v, D)
  BY <1>1, <1>3, ExtrasSum
<1>7. 2 * Gap(SumFunctionOnSet(f, D), SumFunctionOnSet(v, D)) <= SumFunctionOnSet(c, D)
  BY <1>1, <1>2, SumApart
<1>8. QED
  BY <1>4, <1>5, <1>6, <1>7 DEF c

\* The rows of the sections add up to their line items exactly and those of the catalog up to
\* the rounding of each item and each unit, however many selections there are, whatever their
\* quantities and however they share rows (legacy_resource_summary.py:7-15,
\* resource_summary.py:5-13).
THEOREM Reconciled == ApiSpec => []RowsReconcile
<1>1. Staged /\ AllAccepted => RowsReconcile
  <2> SUFFICES ASSUME Staged, AllAccepted, stage = "done" PROVE RowsReconcile
    BY DEF RowsReconcile
  <2> DEFINE w == Recommended(req).work
             L == LegacyItems(work, spec)
             E == ExtraItems(rest)
             slack == SumFunction([i \in DOMAIN rest |-> ItemCount(rest[i].service) * (rest[i].quantity + 1)])
  <2>1. /\ cost = Calculate(work, spec, E, work.term) /\ Quoted(work, spec)
        /\ rest = LeftOver(w) /\ spec = Normalize(work).spec
    BY DEF Staged
  <2>2. Accepted(w) /\ Accepted(work)
    BY RecommendedAccepted, WorkAccepted DEF AllAccepted
  <2>3. Listed(rest)
    BY <2>1, <2>2, LeftOverListed
  <2>4. ASSUME NEW j \in DOMAIN rest
        PROVE  Counted(rest[j].form) /\ rest[j].quantity \in Nat
    <3>1. PICK i \in DOMAIN w.selected : rest[j] = w.selected[i]
      BY <2>1, <2>2, LeftOverSelected
    <3>2. SelectionAccepted(w.selected[i])
      BY <2>2 DEF Accepted
    <3>3. QED
      BY <3>1, <3>2 DEF SelectionAccepted, Counted
  <2>5. Charged(E) /\ 2 * Gap(Sum(CatalogRows(rest)), Sum(E)) <= slack
    BY <2>3, <2>4, CatalogReconciles
  <2>6. Rowed(L)
    BY <2>1, <2>2, LegacyRowed
  <2>7. Sum(LegacyRows(L)) = Sum(L)
    BY <2>6, SectionsReconcile
  <2>8. cost.items = L \o E /\ cost.legacy = Len(L) /\ cost.subtotal = Sum(L \o E)
    <3>1. cost = Breakdown(L \o E, Len(L), Discounts(work, spec, L \o E, work.term))
      BY <2>1 DEF Calculate, CalculateOver
    <3> HIDE DEF L, E
    <3>2. QED
      BY <3>1 DEF Breakdown
  <2> HIDE DEF w, L, E, slack
  <2>9. Charged(L) /\ Listed(L) /\ Listed(E)
    BY <2>5, <2>6 DEF Rowed, Charged
  <2>10. SubSeq(cost.items, 1, cost.legacy) = L
    BY <2>8, <2>9, FirstPart
  <2>11. cost.subtotal - Sum(L) = Sum(E)
    <3>1. Sum(L \o E) = Sum(L) + Sum(E) /\ Sum(L) \in Int /\ Sum(E) \in Int
      BY <2>5, <2>9, SumJoined, ChargedSum
    <3>2. QED
      BY <2>8, <3>1
  <2>12. QED
    BY <2>5, <2>7, <2>10, <2>11 DEF RowsReconcile, slack
<1>2. QED
  BY <1>1, Determined, PTL

=============================================================================
