------------------------ MODULE ProjectBudget_proofs ------------------------
(***************************************************************************)
(* Proofs about ProjectBudget, for any projects, users, workers and        *)
(* budgets: setting a budget is linearizable although an unchanged         *)
(* attribute is never written.                                             *)
(***************************************************************************)
EXTENDS ProjectBudget, TLAPS

\* The initial state is typed.
LEMMA InitTyped == Init => TypeOK
BY DEF Init, TypeOK, AnyBudget

\* Every step keeps the types.
LEMMA TypeStep == TypeOK /\ [Next]_vars => TypeOK'
<1> SUFFICES ASSUME TypeOK, [Next]_vars PROVE TypeOK'
  OBVIOUS
<1> USE DEF TypeOK
<1>1. ASSUME NEW u \in Users, NEW p \in Projects, CreateProject(u, p) PROVE TypeOK'
  BY <1>1 DEF CreateProject
<1>2. ASSUME NEW r \in Requests, NEW u \in Users, NEW p \in Projects, NEW b \in AnyBudget,
             LoadProject(r, u, p, b)
      PROVE  TypeOK'
  <2>1. [project |-> p, wanted |-> b, loaded |-> budget[p], pc |-> "loaded"] \in Patch
    BY DEF Patch
  <2>2. QED
    BY <1>2, <2>1 DEF LoadProject
<1>3. ASSUME NEW r \in Requests, CommitBudget(r) PROVE TypeOK'
  <2>1. patch[r] \in Patch
    BY <1>3 DEF CommitBudget, Serving
  <2>2. [patch[r] EXCEPT !.pc = "patched"] \in Patch
    BY <2>1 DEF Patch
  <2>3. patch' \in [Requests -> Patch \cup {None}]
    BY <1>3, <2>2 DEF CommitBudget
  <2>4. budget' \in [Projects -> AnyBudget]
    BY <1>3, <2>1 DEF CommitBudget, Patch
  <2>5. QED
    BY <1>3, <2>3, <2>4 DEF CommitBudget
<1>4. ASSUME NEW r \in Requests, AnswerPatch(r) \/ AbandonPatch(r) PROVE TypeOK'
  BY <1>4 DEF AnswerPatch, AbandonPatch
<1>5. ASSUME UNCHANGED vars PROVE TypeOK'
  BY <1>5 DEF vars
<1>6. QED
  BY <1>1, <1>2, <1>3, <1>4, <1>5 DEF Next

\* Every row and every PATCH in flight is of its type.
THEOREM TypeCorrect == Spec => []TypeOK
<1>1. QED
  BY InitTyped, TypeStep, PTL DEF Spec

-----------------------------------------------------------------------------
(* A PATCH takes effect once between its start and its answer. *)

\* The abstract call the refinement mapping gives a worker.
MappedCall(r) ==
  IF patch[r] = None THEN None
  ELSE [project |-> patch[r].project, wanted |-> patch[r].wanted,
        effected |-> patch[r].pc = "patched" \/ patch[r].wanted = patch[r].loaded]

MappedCalls == [r \in Requests |-> MappedCall(r)]

\* A worker that serves no PATCH is no abstract call, and one that serves a PATCH
\* is a call in flight.
LEMMA MappedInFlight ==
  ASSUME TypeOK, NEW r \in Requests
  PROVE  /\ ~Serving(r) => MappedCall(r) = None
         /\ Serving(r) => MappedCall(r) \in Register!InFlight
BY DEF TypeOK, Serving, MappedCall, Register!InFlight, Patch, AnyBudget

\* When one worker's PATCH changes, the abstract call of that worker alone does.
LEMMA MappedUpdate ==
  ASSUME TypeOK, NEW r \in Requests, NEW v, patch' = [patch EXCEPT ![r] = v]
  PROVE  MappedCalls' = [MappedCalls EXCEPT ![r] = MappedCall(r)']
BY DEF TypeOK, MappedCalls, MappedCall

\* Loading the project starts the call, which takes effect at once when the
\* project has the wanted budget already.
LEMMA LoadRefines ==
  ASSUME TypeOK, NEW r \in Requests, NEW u \in Users, NEW p \in Projects, NEW b \in AnyBudget,
         LoadProject(r, u, p, b)
  PROVE  Register!Invoke(r, p, b) \/ Register!InvokeAndSet(r, p, b)
<1> DEFINE loaded == [project |-> p, wanted |-> b, loaded |-> budget[p], pc |-> "loaded"]
<1>1. patch' = [patch EXCEPT ![r] = loaded] /\ patch'[r] = loaded /\ budget' = budget
  BY DEF LoadProject, TypeOK
<1>2. loaded # None
  <2>1. loaded \in [project : Projects, wanted : Budgets \cup {NoBudget},
                    loaded : Budgets \cup {NoBudget}, pc : {"loaded", "patched"}]
    BY DEF TypeOK, AnyBudget
  <2>2. QED
    BY <2>1, BudgetAssumption
<1>3. MappedCalls[r] = None
  BY DEF LoadProject, Serving, MappedCalls, MappedCall
<1>4. MappedCall(r)' = [project |-> p, wanted |-> b, effected |-> b = budget[p]]
  BY <1>1, <1>2 DEF MappedCall
<1>5. MappedCalls' = [MappedCalls EXCEPT ![r] = MappedCall(r)']
  BY <1>1, MappedUpdate
<1>6. CASE b = budget[p]
  <2>1. budget' = [budget EXCEPT ![p] = b]
    BY <1>1, <1>6 DEF TypeOK
  <2>2. MappedCall(r)' = [project |-> p, wanted |-> b, effected |-> TRUE]
    BY <1>4, <1>6
  <2>3. QED
    BY <1>3, <1>5, <2>1, <2>2 DEF Register!InvokeAndSet, MappedCalls, MappedCall
<1>7. CASE b # budget[p]
  <2>1. MappedCall(r)' = [project |-> p, wanted |-> b, effected |-> FALSE]
    BY <1>4, <1>7
  <2>2. QED
    BY <1>1, <1>3, <1>5, <2>1 DEF Register!Invoke, MappedCalls, MappedCall
<1>8. QED
  BY <1>6, <1>7

\* A call in flight that differs only in having taken effect.
LEMMA SetEffected ==
  ASSUME NEW old \in Register!InFlight, NEW new \in Register!InFlight,
         new.project = old.project, new.wanted = old.wanted, new.effected = TRUE
  PROVE  new = [old EXCEPT !.effected = TRUE]
BY DEF Register!InFlight

\* Committing sets the budget, or is invisible because the call has taken effect.
LEMMA CommitRefines ==
  ASSUME TypeOK, NEW r \in Requests, CommitBudget(r)
  PROVE  Register!Set(r) \/ (budget' = budget /\ MappedCalls' = MappedCalls)
<1>1. /\ patch[r] \in Patch /\ patch[r] # None /\ patch[r].pc = "loaded"
      /\ patch' = [patch EXCEPT ![r] = [patch[r] EXCEPT !.pc = "patched"]]
  BY DEF CommitBudget, Serving, TypeOK
<1> DEFINE patched == [patch[r] EXCEPT !.pc = "patched"]
<1>2. /\ patch'[r] = patched /\ patched \in Patch /\ patched.pc = "patched"
      /\ patched.project = patch[r].project /\ patched.wanted = patch[r].wanted
  BY <1>1 DEF Patch, TypeOK
<1>3. patched # None
  BY <1>2, BudgetAssumption DEF Patch, AnyBudget
<1>4. MappedCall(r)' = [project |-> patch[r].project, wanted |-> patch[r].wanted, effected |-> TRUE]
  BY <1>2, <1>3 DEF MappedCall
<1>5. MappedCalls' = [MappedCalls EXCEPT ![r] = MappedCall(r)']
  BY <1>1, MappedUpdate
<1>6. CASE patch[r].wanted = patch[r].loaded
  <2>1. MappedCall(r) = [project |-> patch[r].project, wanted |-> patch[r].wanted, effected |-> TRUE]
    BY <1>1, <1>6 DEF MappedCall
  <2>2. MappedCalls' = MappedCalls
    BY <1>4, <1>5, <2>1 DEF MappedCalls
  <2>3. budget' = budget
    BY <1>6 DEF CommitBudget
  <2>4. QED
    BY <2>2, <2>3
<1>7. CASE patch[r].wanted # patch[r].loaded
  <2>1. MappedCalls[r] = [project |-> patch[r].project, wanted |-> patch[r].wanted, effected |-> FALSE]
    BY <1>1, <1>7 DEF MappedCalls, MappedCall
  <2>2. MappedCalls[r] \in [project : Projects, wanted : Budgets \cup {NoBudget}, effected : {FALSE}]
    BY <1>1, <2>1 DEF Patch, AnyBudget
  <2>3. MappedCall(r)' = [MappedCalls[r] EXCEPT !.effected = TRUE]
    <3>1. MappedCalls[r] \in Register!InFlight /\ MappedCall(r)' \in Register!InFlight
      BY <1>1, <1>4, <2>1 DEF Register!InFlight, Patch, AnyBudget
    <3>2. /\ MappedCall(r)'.project = MappedCalls[r].project
          /\ MappedCall(r)'.wanted = MappedCalls[r].wanted /\ MappedCall(r)'.effected = TRUE
      BY <1>4, <2>1
    <3>3. QED
      BY <3>1, <3>2, SetEffected
  <2>4. MappedCalls' = [MappedCalls EXCEPT ![r].effected = TRUE]
    BY <1>5, <2>3
  <2>5. budget' = [budget EXCEPT ![MappedCalls[r].project] = MappedCalls[r].wanted]
    BY <1>7, <2>1 DEF CommitBudget
  <2>6. QED
    BY <2>2, <2>4, <2>5 DEF Register!Set, MappedCalls, MappedCall
<1>8. QED
  BY <1>6, <1>7

\* An answered call has taken effect; a dropped one may have.
LEMMA EndRefines ==
  ASSUME TypeOK, NEW r \in Requests, AnswerPatch(r) \/ AbandonPatch(r)
  PROVE  /\ AnswerPatch(r) => Register!Answer(r)
         /\ AbandonPatch(r) => Register!Drop(r)
<1>1. Serving(r) /\ patch' = [patch EXCEPT ![r] = None] /\ budget' = budget
  BY DEF AnswerPatch, AbandonPatch
<1>2. MappedCall(r)' = None
  BY <1>1 DEF MappedCall, TypeOK
<1>3. MappedCalls' = [MappedCalls EXCEPT ![r] = None]
  BY <1>1, <1>2, MappedUpdate
<1>4. MappedCalls[r] \in Register!InFlight
  BY <1>1, MappedInFlight DEF MappedCalls
<1>5. ASSUME AnswerPatch(r)
      PROVE  MappedCalls[r] \in [project : Projects, wanted : Budgets \cup {NoBudget}, effected : {TRUE}]
  BY <1>1, <1>5 DEF AnswerPatch, Serving, TypeOK, Patch, AnyBudget, MappedCalls, MappedCall
<1>6. QED
  BY <1>1, <1>3, <1>4, <1>5 DEF Register!Answer, Register!Drop, MappedCalls, MappedCall

\* Every PATCH, a null one included, takes effect once between its start and its
\* answer: the workers implement the abstract register.
THEOREM Linearizable == Spec => BudgetLinearizable
<1>1. Init => Register!Init
  BY DEF Init, Register!Init
<1>2. TypeOK /\ [Next]_vars => [Register!Next]_<<budget, MappedCalls>>
  <2> SUFFICES ASSUME TypeOK, [Next]_vars
               PROVE  Register!Next \/ UNCHANGED <<budget, MappedCalls>>
    OBVIOUS
  <2>1. CASE patch' = patch /\ budget' = budget
    BY <2>1 DEF MappedCalls, MappedCall
  <2>2. ASSUME NEW r \in Requests, NEW u \in Users, NEW p \in Projects, NEW b \in AnyBudget,
               LoadProject(r, u, p, b)
        PROVE  Register!Next
    BY <2>2, LoadRefines DEF Register!Next, AnyBudget
  <2>3. ASSUME NEW r \in Requests, CommitBudget(r)
        PROVE  Register!Next \/ UNCHANGED <<budget, MappedCalls>>
    BY <2>3, CommitRefines DEF Register!Next
  <2>4. ASSUME NEW r \in Requests, AnswerPatch(r) \/ AbandonPatch(r)
        PROVE  Register!Next
    BY <2>4, EndRefines DEF Register!Next
  <2>5. QED
    BY <2>1, <2>2, <2>3, <2>4 DEF Next, vars, CreateProject
<1>3. QED
  BY <1>1, <1>2, TypeCorrect, PTL DEF Spec, BudgetLinearizable, Register!Spec, MappedCalls, MappedCall
=============================================================================
