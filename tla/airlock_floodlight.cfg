\* Floodlight: two forms an event, hold on denied, re-map on grant that strays
\* for one of them; under the fairness of the page and the chamber.
SPECIFICATION FairSpec
CONSTANTS
  Types = {"view", "click"}
  UnloadCritical = {"view"}
  Malformed = {}
  Uncloneable = {}
  FormsOf <- FloodFormsOf
  Dest <- FloodDest
  Ceiling = {"ccm", "activity"}
  RemapDest <- StrayRemap
  NoBeacon = "none"
  CoalescedDest <- NoMerge
  Coalesce = FALSE
  EgressPurposes = {"ad_storage"}
  ConsentStrict = FALSE
  HoldOnDenied = TRUE
  RemapWired = TRUE
  BootConsent <- adDenied
  ConsentUpdates <- adUpdates
  Budgeted = FALSE
  Bytes <- UnitBytes
  BudgetBytes = 0
  Chunk = 1
  NoJob = NoJob
  MaxPushes = 2
  MaxCritical = 1
  MaxUpdates = 3
  MaxHides = 1
INVARIANTS TypeOK AtMostOnce OneFate HeldOnlyWhileBlocked AsyncOrder CeilingRespected
PROPERTIES ImplementsSeal EveryPushSettles
\* The page goes away: every behaviour may end.
CHECK_DEADLOCK FALSE
