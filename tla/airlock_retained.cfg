\* architecture.md on events held for consent: retain until page unload.
SPECIFICATION Spec
CONSTANTS
  Types = {"view", "click"}
  UnloadCritical = {"view"}
  Malformed = {}
  Uncloneable = {}
  FormsOf <- FloodFormsOf
  Dest <- FloodDest
  Ceiling = {"ccm", "activity"}
  RemapDest <- StrayRemap
  NoBeacon = "none"
  CoalescedDest <- NoMerge
  Coalesce = FALSE
  EgressPurposes = {"ad_storage"}
  ConsentStrict = FALSE
  HoldOnDenied = TRUE
  RemapWired = TRUE
  BootConsent <- adDenied
  ConsentUpdates <- adUpdates
  Budgeted = FALSE
  Bytes <- UnitBytes
  BudgetBytes = 0
  Chunk = 1
  NoJob = NoJob
  MaxPushes = 2
  MaxCritical = 0
  MaxUpdates = 1
  MaxHides = 1
PROPERTIES RetainedUntilUnload
\* The page goes away: every behaviour may end.
CHECK_DEADLOCK FALSE
