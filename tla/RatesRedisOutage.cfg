\* Redis goes away after the process chose it.
CONSTANTS
  w1 = w1
  w2 = w2
  server = server
  Workers = {w1, w2}
  Processes = {server}
  ProcessOf <- MCProcessOf
  Shared = Shared
  NoStore = NoStore
  MaxRetries = 2
  MaxDay = 2
  Covered = {1}
SPECIFICATION Spec
INVARIANT ReportNeverBlocked
