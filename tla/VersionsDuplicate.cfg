\* Two overlapping saves of one project.
CONSTANTS
  ann = ann
  boss = boss
  Projects = {p1}
  Users = {ann, boss}
  Admins = {boss}
  Owner <- MCOwner
  Requests = {r1, r2}
  Estimates = {e1, e2}
  RetentionDays = 1
  Nobody = Nobody
  NoProject = NoProject
  NoEstimate = NoEstimate
SPECIFICATION Spec
INVARIANT AckedVersionsReload
