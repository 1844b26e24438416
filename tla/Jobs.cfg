\* Two jobs of different kinds, two task slots, one client.
CONSTANTS
  batch = batch
  Jobs = {sheet, batch}
  Workers = {w1, w2}
  Clients = {c1}
  Kind <- MCKind
  Size <- MCSize
  Bad <- MCBad
  NoJob = NoJob
SPECIFICATION FairSpec
INVARIANTS
  BatchIsolated
  DownloadHasFile
  StatusCoherent
PROPERTY JobFinishes
