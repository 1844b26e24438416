-------------------------- MODULE EstimateVersions --------------------------
(***************************************************************************)
(* The numbered estimate versions of the projects and the queryable audit  *)
(* trail, as the HTTP workers of the backend read and write them           *)
(* (repositories/estimate_repository.py, services/project_service.py,      *)
(* api/routers/projects.py, tasks/audit_tasks.py).  Projects are never     *)
(* deleted and never change owner, so here they exist from the start;      *)
(* module ProjectBudget creates them.                                      *)
(*                                                                         *)
(* Requests run in a thread pool and in several replicas, each with its    *)
(* own session on a READ COMMITTED database, so several requests on one    *)
(* project interleave between their statements.  A request is a process    *)
(* with a program counter; a step is one statement that other requests can *)
(* observe.  The rows a session has flushed but not committed are          *)
(* invisible to the others, so flush, audit rows and commit are one step.  *)
(***************************************************************************)
EXTENDS Integers

CONSTANTS
  Projects,        \* project identities (primary keys)
  Users,           \* registered users
  Admins,          \* the users whose role is "admin"
  Owner,           \* Owner[p]: projects.owner_id
  Requests,        \* the workers that may serve a request at the same time
  Estimates,       \* estimate ids (uuid4) the pipeline can still produce; bounds the runs
  RetentionDays,   \* settings.audit_log_retention_days
  Nobody,          \* an idle worker serves nobody,
  NoProject,       \* on no project
  NoEstimate       \* the request holds no estimate

ASSUME VersionsAssumption ==
  /\ Admins \subseteq Users
  /\ Owner \in [Projects -> Users]
  /\ RetentionDays \in Nat \ {0}
  /\ Nobody \notin Users
  /\ NoProject \notin Projects
  /\ NoEstimate \notin Estimates

VARIABLES
  rows,       \* committed estimate_versions rows
  audit,      \* estimates whose expanded audit rows are stored in audit_log_rows
  generated,  \* estimates the pipeline has produced so far
  age,        \* age[e]: whole days since the stored audit rows of e were stamped, saturating
  req,        \* req[r]: what worker r is doing
  acked       \* versions whose creation was answered with 201

vars == <<rows, audit, generated, age, req, acked>>

Row == [project : Projects, version : Nat \ {0}, estimate : Estimates, creator : Users]

Steps == {"idle", "pricing", "priced", "numbered", "saved"}

\* "floor" is a history variable: the largest number acknowledged for the
\* project when the request began.
Request ==
  [pc : Steps, user : Users \cup {Nobody}, project : Projects \cup {NoProject},
   estimate : Estimates \cup {NoEstimate}, number : Nat, floor : Nat]

Idle ==
  [pc |-> "idle", user |-> Nobody, project |-> NoProject, estimate |-> NoEstimate,
   number |-> 0, floor |-> 0]

TypeOK ==
  /\ rows \subseteq Row
  /\ audit \subseteq Estimates
  /\ generated \subseteq Estimates
  /\ age \in [Estimates -> 0..(RetentionDays + 1)]
  /\ req \in [Requests -> Request]
  /\ acked \subseteq Row

-----------------------------------------------------------------------------
(* Queries *)

VersionsOf(p) == {row \in rows : row.project = p}
NumbersOf(p) == {row.version : row \in VersionsOf(p)}
AckedNumbers(p) == {row.version : row \in {a \in acked : a.project = p}}

\* m is SELECT max(...) over S, or 0 when it is NULL.
IsMaxOrZero(m, S) ==
  /\ m \in S \cup {0}
  /\ \A k \in S : k <= m

\* _authorize; any other user is answered 403 and nothing happens.
MayAccess(u, p) == u \in Admins \/ Owner[p] = u

\* The rows scalar_one_or_none sees: none is a 404, one is the version, and
\* more than one raises MultipleResultsFound.
Matches(p, v) == {row \in VersionsOf(p) : row.version = v}

\* GET .../estimates/{version} returns this row and no other.
Reloads(row) == Matches(row.project, row.version) = {row}

-----------------------------------------------------------------------------
(* Saving an estimate as a new version *)

\* The request is authorised; the pipeline then runs without touching the
\* database.
BeginSave(r, u, p) ==
  /\ req[r].pc = "idle"
  /\ MayAccess(u, p)
  /\ \E m \in AckedNumbers(p) \cup {0} :
       /\ IsMaxOrZero(m, AckedNumbers(p))
       /\ req' = [req EXCEPT ![r] = [Idle EXCEPT !.pc = "pricing", !.user = u,
                                                  !.project = p, !.floor = m]]
  /\ UNCHANGED <<rows, audit, generated, age, acked>>

\* The pipeline returns an estimate with a fresh id and its stamped audit
\* entries.  A request lives for seconds, so the entries are zero days old when
\* they are stored.
Price(r, e) ==
  /\ req[r].pc = "pricing"
  /\ e \notin generated
  /\ generated' = generated \cup {e}
  /\ req' = [req EXCEPT ![r].pc = "priced", ![r].estimate = e]
  /\ UNCHANGED <<rows, audit, age, acked>>

\* A faulty variant: the maximum is taken over the caller's own versions.
ReadOwnNumber(r) ==
  /\ req[r].pc = "priced"
  /\ LET own == {row.version : row \in {x \in VersionsOf(req[r].project) : x.creator = req[r].user}}
     IN \E m \in own \cup {0} :
       /\ IsMaxOrZero(m, own)
       /\ req' = [req EXCEPT ![r].pc = "numbered", ![r].number = m + 1]
  /\ UNCHANGED <<rows, audit, generated, age, acked>>

\* A faulty variant: the project filter of the SELECT is missing.
ReadAnyNumber(r) ==
  /\ req[r].pc = "priced"
  /\ \E m \in {row.version : row \in rows} \cup {0} :
       /\ IsMaxOrZero(m, {row.version : row \in rows})
       /\ req' = [req EXCEPT ![r].pc = "numbered", ![r].number = m + 1]
  /\ UNCHANGED <<rows, audit, generated, age, acked>>

\* A faulty variant: the numbers start at 0.
ReadLastNumber(r) ==
  /\ req[r].pc = "priced"
  /\ \E m \in NumbersOf(req[r].project) \cup {0} :
       /\ IsMaxOrZero(m, NumbersOf(req[r].project))
       /\ req' = [req EXCEPT ![r].pc = "numbered", ![r].number = m]
  /\ UNCHANGED <<rows, audit, generated, age, acked>>

\* next_version_number: SELECT max(version) of the project, over the rows
\* committed so far.
ReadNumber(r) ==
  /\ req[r].pc = "priced"
  /\ \E m \in NumbersOf(req[r].project) \cup {0} :
       /\ IsMaxOrZero(m, NumbersOf(req[r].project))
       /\ req' = [req EXCEPT ![r].pc = "numbered", ![r].number = m + 1]
  /\ UNCHANGED <<rows, audit, generated, age, acked>>

NewRow(r) ==
  [project |-> req[r].project, version |-> req[r].number,
   estimate |-> req[r].estimate, creator |-> req[r].user]

\* A faulty variant: the version replaces the row that has its number.
OverwriteVersion(r) ==
  /\ req[r].pc = "numbered"
  /\ rows' = (rows \ Matches(req[r].project, req[r].number)) \cup {NewRow(r)}
  /\ audit' = audit \cup {req[r].estimate}
  /\ req' = [req EXCEPT ![r].pc = "saved"]
  /\ UNCHANGED <<generated, age, acked>>

\* INSERT the version, one audit row per entry of the estimate, COMMIT.
CommitVersion(r) ==
  /\ req[r].pc = "numbered"
  /\ rows' = rows \cup {NewRow(r)}
  /\ audit' = audit \cup {req[r].estimate}
  /\ req' = [req EXCEPT ![r].pc = "saved"]
  /\ UNCHANGED <<generated, age, acked>>

\* The 201 answer, after the project was read again for its budget status.
AnswerSave(r) ==
  /\ req[r].pc = "saved"
  /\ acked' = acked \cup {NewRow(r)}
  /\ req' = [req EXCEPT ![r] = Idle]
  /\ UNCHANGED <<rows, audit, generated, age>>

-----------------------------------------------------------------------------
(* Failures, and the daily retention sweep *)

\* The pipeline raises, the client goes away, or the worker dies: get_db closes
\* the session, which rolls back what was not committed.
Abandon(r) ==
  /\ req[r].pc # "idle"
  /\ req' = [req EXCEPT ![r] = Idle]
  /\ UNCHANGED <<rows, audit, generated, age, acked>>

DayPasses ==
  /\ age' = [e \in Estimates |->
               IF e \in audit /\ age[e] <= RetentionDays THEN age[e] + 1 ELSE age[e]]
  /\ UNCHANGED <<rows, audit, generated, req, acked>>

\* Faulty variants: the cutoff is one day early; the sweep keeps what it should
\* delete.
PurgeEarly ==
  /\ audit' = {e \in audit : age[e] < RetentionDays}
  /\ age' = [e \in Estimates |-> IF e \in audit' THEN age[e] ELSE 0]
  /\ UNCHANGED <<rows, generated, req, acked>>

PurgeOnlyUnsaved ==
  /\ audit' = {e \in audit : age[e] <= RetentionDays \/ \E row \in rows : row.estimate = e}
  /\ age' = [e \in Estimates |-> IF e \in audit' THEN age[e] ELSE 0]
  /\ UNCHANGED <<rows, generated, req, acked>>

\* purge_expired_audit_logs_task: one DELETE of the audit rows older than the
\* cutoff; versions are left alone.
PurgeAudit ==
  /\ audit' = {e \in audit : age[e] <= RetentionDays}
  /\ age' = [e \in Estimates |-> IF e \in audit' THEN age[e] ELSE 0]
  /\ UNCHANGED <<rows, generated, req, acked>>

-----------------------------------------------------------------------------
Init ==
  /\ rows = {}
  /\ audit = {}
  /\ generated = {}
  /\ age = [e \in Estimates |-> 0]
  /\ req = [r \in Requests |-> Idle]
  /\ acked = {}

SaveStep(r) ==
  \/ \E u \in Users, p \in Projects : BeginSave(r, u, p)
  \/ \E e \in Estimates : Price(r, e)
  \/ ReadNumber(r)
  \/ CommitVersion(r)
  \/ AnswerSave(r)

Next ==
  \/ \E r \in Requests : SaveStep(r) \/ Abandon(r)
  \/ DayPasses
  \/ PurgeAudit

Spec == Init /\ [][Next]_vars

\* Days go by and celery beat fires the sweep every day; nothing is assumed of
\* the requests.
FairSpec == Spec /\ WF_vars(DayPasses) /\ WF_vars(PurgeAudit)

-----------------------------------------------------------------------------
(* Properties *)

\* The version numbers of a project never skip: below every committed version
\* is the one before it, whatever saves overlapped, failed or were abandoned
\* (next_version_number, add_version).
VersionsContiguous ==
  \A p \in Projects : \A n \in NumbersOf(p) : n = 1 \/ n - 1 \in NumbersOf(p)

\* A save that begins after another save of the project was acknowledged takes
\* a larger number, so "latest" (get_latest, list_versions) respects the order
\* in which a user saw the saves happen.
LaterSaveHasLargerNumber ==
  \A r \in Requests :
    req[r].pc \in {"numbered", "saved"} => req[r].number > req[r].floor

\* A version answered with 201 is stored: no crash, abandoned request or
\* overlapping save takes it away again (add_version commits before the answer).
AckedDurable == acked \subseteq rows

\* A version is stored with its audit rows, and only the retention sweep removes
\* them, never before audit_log_retention_days have passed
\* (add_version, delete_audit_rows_older_than).
AuditKeptForRetention ==
  [][ /\ \A row \in rows' \ rows : row.estimate \in audit'
      /\ \A e \in audit \ audit' : age[e] > RetentionDays ]_vars

\* Every stored audit row is eventually purged (the daily beat schedule).
AuditEventuallyPurged == \A e \in Estimates : (e \in audit) ~> (e \notin audit)

\* Every acknowledged version can be reloaded, and reloading gives exactly what
\* was saved (get_version selects by project and number and expects one row).
AckedVersionsReload == \A row \in acked : Reloads(row)

\* At most one save is under way on a project.
OneSavePerProject ==
  \A r, s \in Requests :
    r # s /\ req[r].pc # "idle" /\ req[s].pc # "idle" => req[r].project # req[s].project

\* As long as the saves of each project follow one another, however those of
\* different projects overlap and whoever saves, fails or goes away, every
\* acknowledged version can be reloaded as it was saved (next_version_number,
\* get_version).
ReloadsWhileApart == []OneSavePerProject => []AckedVersionsReload

\* The version rows, read as the abstract history.
History ==
  INSTANCE VersionHistory WITH
    history <- [p \in Projects |-> {<<row.version, row.estimate>> : row \in VersionsOf(p)}]

\* Overlapping saves keep the history append-only, and a new version's number is
\* at most the next one.
AppendOnly == History!LooseSpec

\* When the saves of a project do not overlap, each creates the next number
\* (README: "every save creates an immutable, auto-incrementing version").
AutoIncrementing == History!StrictSpec
=============================================================================
