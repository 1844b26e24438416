\* Two workers, two addresses, one project, two edits by hand.
CONSTANTS
  Emails = {ann, bob}
  Ids = {1, 2}
  Workers = {w1, w2}
  Projects = {p1}
  MaxEdits = 2
  NoUser = NoUser
  Nobody = Nobody
  Idle = Idle
SPECIFICATION Spec
INVARIANTS
  RegistrationsExclusive
  NoStaleAuthority
SYMMETRY AccountsSymmetry
