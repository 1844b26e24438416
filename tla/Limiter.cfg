\* Two processes, one bucket with a limit of two, a window of two ticks and the
\* first tick of the next one.
CONSTANTS
  Processes = {p1, p2}
  Keys = {standard}
  Limit <- MCLimit
  Shared = Shared
  NoStore = NoStore
  NoKey = NoKey
  WindowTicks = 2
  MaxClock = 2
  MaxPerWindow = 3
SPECIFICATION Spec
SYMMETRY ProcessSymmetry
INVARIANTS
  AdmittedWithinLimit
  RejectionDeserved
  CountersExpire
