--------------------------- MODULE ProjectBudget ---------------------------
(***************************************************************************)
(* Creating projects, and setting or clearing a project's monthly budget   *)
(* while other requests do the same (services/project_service.py,          *)
(* repositories/project_repository.py, api/routers/projects.py).           *)
(*                                                                         *)
(* A PATCH loads the project row, assigns the attribute and commits.  The  *)
(* ORM writes only what changed against the value the session loaded, so a *)
(* PATCH that asks for the value it loaded writes nothing, even when       *)
(* another PATCH has committed a different value in between.               *)
(***************************************************************************)
CONSTANTS
  Projects,    \* project identities the database can still hand out; bounds the runs
  Users,       \* registered users
  Admins,      \* the users whose role is "admin"
  Requests,    \* the workers that may serve a PATCH at the same time
  Budgets,     \* monthly ceilings a PATCH may carry
  NoBudget,    \* monthly_budget_usd is null
  Nobody,      \* the project does not exist yet
  None         \* the worker is idle

ASSUME BudgetAssumption ==
  /\ Admins \subseteq Users
  /\ NoBudget \notin Budgets
  /\ Nobody \notin Users
  /\ None \notin [project : Projects, wanted : Budgets \cup {NoBudget},
                  loaded : Budgets \cup {NoBudget}, pc : {"loaded", "patched"}]

VARIABLES
  owner,    \* owner[p]: projects.owner_id, or Nobody
  budget,   \* budget[p]: projects.monthly_budget_usd
  patch     \* patch[r]: None, or the PATCH worker r is serving

vars == <<owner, budget, patch>>

AnyBudget == Budgets \cup {NoBudget}
Patch == [project : Projects, wanted : AnyBudget, loaded : AnyBudget, pc : {"loaded", "patched"}]

TypeOK ==
  /\ owner \in [Projects -> Users \cup {Nobody}]
  /\ budget \in [Projects -> AnyBudget]
  /\ patch \in [Requests -> Patch \cup {None}]

Serving(r) == patch[r] # None
Exists(p) == owner[p] # Nobody

\* get_project: 404 for an unknown project, 403 unless admin or owner.
MayAccess(u, p) == Exists(p) /\ (u \in Admins \/ owner[p] = u)

\* list_projects: all of them for an admin, one's own otherwise.
Listed(u) == {p \in Projects : Exists(p) /\ (u \in Admins \/ owner[p] = u)}

CreateProject(u, p) ==
  /\ ~Exists(p)
  /\ owner' = [owner EXCEPT ![p] = u]
  /\ UNCHANGED <<budget, patch>>

\* set_budget loads the project to authorise the request.
LoadProject(r, u, p, b) ==
  /\ ~Serving(r)
  /\ MayAccess(u, p)
  /\ patch' = [patch EXCEPT ![r] = [project |-> p, wanted |-> b, loaded |-> budget[p],
                                    pc |-> "loaded"]]
  /\ UNCHANGED <<owner, budget>>

\* A faulty variant: null is taken for "not given" and the budget is kept.
CommitUnlessNull(r) ==
  /\ Serving(r)
  /\ patch[r].pc = "loaded"
  /\ budget' = IF patch[r].wanted = NoBudget
               THEN budget
               ELSE [budget EXCEPT ![patch[r].project] = patch[r].wanted]
  /\ patch' = [patch EXCEPT ![r].pc = "patched"]
  /\ UNCHANGED owner

\* update_budget: the flush emits an UPDATE only when the attribute differs
\* from the value this session loaded.
CommitBudget(r) ==
  /\ Serving(r)
  /\ patch[r].pc = "loaded"
  /\ budget' = IF patch[r].wanted = patch[r].loaded
               THEN budget
               ELSE [budget EXCEPT ![patch[r].project] = patch[r].wanted]
  /\ patch' = [patch EXCEPT ![r].pc = "patched"]
  /\ UNCHANGED owner

AnswerPatch(r) ==
  /\ Serving(r)
  /\ patch[r].pc = "patched"
  /\ patch' = [patch EXCEPT ![r] = None]
  /\ UNCHANGED <<owner, budget>>

\* The worker dies or the database refuses: the session is closed.
AbandonPatch(r) ==
  /\ Serving(r)
  /\ patch' = [patch EXCEPT ![r] = None]
  /\ UNCHANGED <<owner, budget>>

Init ==
  /\ owner = [p \in Projects |-> Nobody]
  /\ budget = [p \in Projects |-> NoBudget]
  /\ patch = [r \in Requests |-> None]

Next ==
  \/ \E u \in Users, p \in Projects : CreateProject(u, p)
  \/ \E r \in Requests, u \in Users, p \in Projects, b \in AnyBudget : LoadProject(r, u, p, b)
  \/ \E r \in Requests : CommitBudget(r) \/ AnswerPatch(r) \/ AbandonPatch(r)

Spec == Init /\ [][Next]_vars

-----------------------------------------------------------------------------
\* A PATCH that asks for the value it loaded takes effect when it loads; every
\* other one when it commits.
Register ==
  INSTANCE BudgetRegister WITH
    Calls <- Requests, Values <- Budgets, Unset <- NoBudget, value <- budget,
    call <- [r \in Requests |->
               IF patch[r] = None THEN None
               ELSE [project |-> patch[r].project, wanted |-> patch[r].wanted,
                     effected |-> patch[r].pc = "patched" \/ patch[r].wanted = patch[r].loaded]]

\* Every PATCH, a null one included, takes effect once between its start and its
\* answer, although an unchanged attribute is never written (update_budget).
BudgetLinearizable == Register!Spec
=============================================================================
