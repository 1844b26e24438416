\* Every inference of a text is recorded.
CONSTANTS
  MachineTypes <- MCMachineTypes
  Capability <- MCCapability
  Tiers <- MCTiers
  DiskMin <- MCDiskMin
  DiskMax = 65536
  MinNodes = 1
  MaxNodes = 1000
  GpuFamilies <- MCGpuFamilies
  GpuMax <- MCGpuMax
  Nothing = Nothing
  Price <- MCPrice
  HourRate <- MCHourRate
  TierPrice <- MCTierPrice
  SpotPercent <- MCSpotPercent
  Committed <- MCCommitted
  Sustained = 20
  Tax = 18
  Support = 3
  PubSubFreeGb = 10
  LoggingFreeGb = 50
  Requests <- MCRequests
  Analysed <- MCAnalysed
  Usages <- MCUsages
  Uploads <- MCUploads
  Answers <- MCAnswers
  Texts <- MCTexts
  Configured = TRUE
SPECIFICATION ApiSpec
INVARIANT InferencesRecorded
