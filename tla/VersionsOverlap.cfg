\* Two workers and two projects: saves overlap or follow one another, an admin among
\* the users.  Fairness for the sweep, so no symmetry.
CONSTANTS
  ann = ann
  boss = boss
  Projects = {p1, p2}
  Users = {ann, boss}
  Admins = {boss}
  Owner <- MCOwner
  Requests = {r1, r2}
  Estimates = {e1, e2}
  RetentionDays = 1
  Nobody = Nobody
  NoProject = NoProject
  NoEstimate = NoEstimate
SPECIFICATION FairSpec
INVARIANTS
  TypeOK
  VersionsContiguous
  LaterSaveHasLargerNumber
  AckedDurable
PROPERTIES
  AuditKeptForRetention
  AppendOnly
  AuditEventuallyPurged
  ReloadsWhileApart
