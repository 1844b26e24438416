---------------------------- MODULE Optimization ----------------------------
(***************************************************************************)
(* Two advisers over the estimate pipeline: the rightsizing engine         *)
(* (optimization/rightsizing_engine.py) and the commitment engine          *)
(* (optimization/commitment_engine.py), behind OptimizationService and its *)
(* endpoints.  Each request calls generate_estimate two or three times in  *)
(* its own thread: the stages of the pipeline pass between an engine's     *)
(* steps, and one estimate that cannot be had refuses the request.         *)
(*                                                                         *)
(* Utilization is in percent; ramUse is Nothing when it was not measured.  *)
(***************************************************************************)
EXTENDS EstimatePipeline

CONSTANTS
  Analysed,    \* the requirements that advice may be asked for
  Usages       \* the measured [peak, average, ramUse]

\* OptimizationService is given requirements, and percentages (domain/optimization.py);
\* Nothing is no compute section, of whatever size.
ASSUME AdviceAssumption ==
  /\ \A r \in Analysed :
       /\ Accepted(r)
       /\ r.compute # Nothing =>
            Nothing \notin [DOMAIN r.compute -> Range(r.compute) \cup Nat \cup {"none", "unset"}]
  /\ \A u \in Usages : u.peak \in Nat /\ (u.ramUse # Nothing => u.ramUse \in Nat)

VARIABLE advice   \* an adviser's request: its question, how far it is, its answer

\* The engine calls generate_estimate again; of the last estimate it keeps what it
\* has noted in advice.
Another(requirement) ==
  /\ stage = "done"
  /\ req' = requirement /\ work' = requirement
  /\ stage' = "submitted"
  /\ rest' = <<>> /\ noted' = {} /\ found' = {} /\ spec' = Nothing /\ cost' = Nothing

\* The engine answers with what it has found.
Answered(what) ==
  /\ advice' = [what EXCEPT !.pc = "answered"]
  /\ Respond

Asks(kind, pc) == advice # Nothing /\ advice.kind = kind /\ advice.pc = pc

-----------------------------------------------------------------------------
(* Rightsizing *)

IdleThreshold == 5
DownsizeThreshold == 40
UpsizeThreshold == 85
TargetPeak == 65

\* The first line item of the VMs.
ComputeMonthly ==
  LET lines == SelectSeq(cost.items, LAMBDA item : item.sku = "compute")
  IN IF lines = <<>> THEN 0 ELSE lines[1].amount

\* A faulty variant: vCPUs are rounded down to upsize as well.
TargetSizeFloored(current, usage, action) ==
  LET ratio == IF usage.ramUse = Nothing THEN usage.peak ELSE AtLeast(usage.peak, usage.ramUse)
  IN [vcpu |-> AtLeast((current.vcpu * ratio) \div TargetPeak, 1),
      ram |-> AtLeast(2 * Rounded(current.ram * ratio, 2 * TargetPeak), 20)]

\* The size that would run at the target: the larger of the two ratios for both
\* axes, vCPUs rounded up only to upsize, RAM to a tenth of a GB, and 1 at least.
TargetSize(current, usage, action) ==
  LET ratio == IF usage.ramUse = Nothing THEN usage.peak ELSE AtLeast(usage.peak, usage.ramUse)
      vcpu == current.vcpu * ratio
  IN [vcpu |-> AtLeast(IF action = "upsize" THEN -((-vcpu) \div TargetPeak) ELSE vcpu \div TargetPeak, 1),
      ram |-> AtLeast(2 * Rounded(current.ram * ratio, 2 * TargetPeak), 20)]

\* The resized requirement is priced, forced, by its shape: with the kind unset it
\* resolves to the nearest predefined type.
Resized(requirement, size) ==
  [requirement EXCEPT !.force = TRUE, !.compute.machineType = "none", !.compute.kind = "unset",
                      !.compute.vcpu = size.vcpu, !.compute.ram = size.ram]

Action(usage) ==
  CASE usage.peak < IdleThreshold /\ usage.average < IdleThreshold -> "terminate"
    [] ~(usage.peak < IdleThreshold /\ usage.average < IdleThreshold)
       /\ usage.peak < DownsizeThreshold -> "downsize"
    [] usage.peak > UpsizeThreshold -> "upsize"
    [] OTHER -> "keep"

\* RightsizingEngine.analyze: without a compute section it raises; estimates are made
\* without a commitment.
AskRightsizing ==
  \E r \in Analysed, usage \in Usages :
    IF r.compute = Nothing THEN advice' = [kind |-> "refused", pc |-> "answered"] /\ UNCHANGED vars
    ELSE /\ advice' = [kind |-> "rightsizing", pc |-> "current", of |-> r, usage |-> usage,
                       action |-> Action(usage), current |-> Nothing, target |-> Nothing,
                       advised |-> Nothing, savings |-> 0]
         /\ Start([r EXCEPT !.term = 0])

\* The current estimate settles a machine that is idle, well used, or of the target's
\* size already; otherwise the resized requirement is priced.
WeighCurrent ==
  LET size == TargetSize(spec.compute, advice.usage, advice.action)
      weighed == [advice EXCEPT !.current = spec.compute, !.target = size, !.savings = ComputeMonthly]
      fits == size.vcpu = spec.compute.vcpu /\ size.ram = spec.compute.ram
  IN /\ Asks("rightsizing", "current") /\ stage = "done"
     /\ CASE advice.action = "terminate" -> Answered(weighed)
          [] advice.action = "keep" \/ (advice.action # "terminate" /\ fits) ->
               Answered([weighed EXCEPT !.action = "keep", !.advised = spec.compute, !.savings = 0])
          [] OTHER -> /\ advice' = [weighed EXCEPT !.pc = "resized"]
                      /\ Another(Resized(req, size))

WeighResized ==
  /\ Asks("rightsizing", "resized") /\ stage = "done"
  /\ Answered([advice EXCEPT !.advised = spec.compute, !.savings = @ - ComputeMonthly])

-----------------------------------------------------------------------------
(* Commitments *)

CandidateTerms == {1, 3}
DiscountableCategories == {"Compute", "GPU"}

\* A faulty variant: discounts of whatever name count as the commitment's.
CommittedSavingsOfAny == FoldSeq(LAMBDA d, sum : d.savings + sum, 0, cost.discounts)

\* The savings of the discount named after the term: that of the VM bucket, since
\* those of GKE and Cloud SQL have names of their own.
CommittedSavings ==
  LET bucket == VmBucket(cost.items)
      named == SelectSeq(cost.discounts, LAMBDA d : d.kind = "committed" /\ d.covers = bucket)
  IN IF named = <<>> THEN 0 ELSE named[1].savings

Discountable == Sum(SelectSeq(cost.items, LAMBDA item : item.category \in DiscountableCategories))

\* CommitmentEngine.recommend prices the requirement without a commitment first.
AskCommitment ==
  \E r \in Analysed, steady \in BOOLEAN :
    /\ advice' = [kind |-> "commitment", pc |-> "pricing", of |-> r, steady |-> steady, discountable |-> 0,
                  savings |-> <<>>, totals |-> <<>>, years |-> 0]
    /\ Start([r EXCEPT !.term = 0])

\* The candidate with the largest savings, the shorter of equal ones, for a steady
\* workload with something to commit to.
BestTerm(priced) ==
  LET saved == priced.savings
      best == CHOOSE t \in CandidateTerms : \A u \in CandidateTerms :
                saved[u] < saved[t] \/ (saved[u] = saved[t] /\ t <= u)
  IN IF priced.discountable > 0 /\ priced.steady /\ saved[best] > 0 THEN best ELSE 0

\* One more term is priced; after the last one the answer is due.
WeighTerm ==
  LET term == req.term
      later == {t \in CandidateTerms : t > term}
      priced == [advice EXCEPT
                   !.discountable = IF term = 0 THEN Discountable ELSE @,
                   !.savings = IF term = 0 THEN @ ELSE @ @@ (term :> CommittedSavings),
                   !.totals = @ @@ (term :> cost.total)]
  IN /\ Asks("commitment", "pricing") /\ stage = "done"
     /\ IF later = {} THEN Answered([priced EXCEPT !.years = BestTerm(priced)])
        ELSE /\ advice' = priced
             /\ Another([req EXCEPT !.term = CHOOSE t \in later : \A u \in later : t <= u])

-----------------------------------------------------------------------------
(* The endpoints *)

Ask == advice = Nothing /\ stage = "idle" /\ (AskRightsizing \/ AskCommitment)

\* An estimate is blocked, or raises: so does the adviser.
AdviceFails ==
  /\ advice # Nothing
  /\ stage \in {"blocked", "failed", "raised"}
  /\ advice' = [kind |-> "refused", pc |-> "answered"]
  /\ Respond

\* The answer has been sent.
AdviceLeaves ==
  /\ advice # Nothing /\ advice.pc = "answered"
  /\ advice' = Nothing
  /\ UNCHANGED vars

\* The steps of one adviser's request between the stages of its estimates.
Advise == Ask \/ WeighCurrent \/ WeighResized \/ WeighTerm \/ AdviceFails \/ AdviceLeaves

-----------------------------------------------------------------------------
(* Properties *)

\* An upsize ends the shortage it was advised for: under the performance strategy,
\* and as long as the family sells a type of the target's size, the advised machine
\* carries the observed peak at the target utilization, though the size is computed
\* by one engine and turned into a machine by another (rightsizing_engine.py:15-20).
\* That the machine is "never under-provisioned on either axis" (22-25) is not so:
\* the RAM is that of the nearest type of the chosen vCPU count, the other strategies
\* may snap to a smaller type, and a downsize rounds vCPUs down to less than the peak.
AdviceFits ==
  Asks("rightsizing", "answered") /\ advice.action = "upsize" =>
    LET sold == \E i \in TypesOf(advice.of.compute.family) : MachineTypes[i].vcpu >= advice.target.vcpu
    IN advice.of.strategy = "performance" /\ sold =>
         TargetPeak * advice.advised.vcpu >= advice.current.vcpu * advice.usage.peak

\* A commitment is recommended only where it lowers the bill: with the term the
\* total, in which the on-demand discounts are lost, is below the total without it
\* and not above the total of the other term (commitment_engine.py:71-97 compares
\* savings against list prices, never totals).
CommitmentPays ==
  Asks("commitment", "answered") /\ advice.years # 0 =>
    /\ advice.totals[advice.years] < advice.totals[0]
    /\ \A t \in CandidateTerms : advice.totals[advice.years] <= advice.totals[t]
=============================================================================
