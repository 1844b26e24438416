\* Two threads, two published days; the rates of the second day lack the currency.
CONSTANTS
  w1 = w1
  w2 = w2
  server = server
  Workers = {w1, w2}
  Processes = {server}
  ProcessOf <- MCProcessOf
  Shared = Shared
  NoStore = NoStore
  MaxRetries = 2
  MaxDay = 2
  Covered = {1}
SPECIFICATION FairSpec
INVARIANTS
  NeverFabricated
  FreshIsBacked
PROPERTIES
  CopySurvives
  EventuallyCurrent
  Responds
