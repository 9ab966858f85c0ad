\* GA4: two trackers, a coalesce hook that may send what it merged elsewhere,
\* two events a cycle, a keepalive budget, a payload the mapper refuses, one
\* postMessage() cannot clone, a pending signal.
SPECIFICATION Spec
CONSTANTS
  Types = {"view", "purchase", "badPurchase", "callback"}
  UnloadCritical = {"purchase"}
  Malformed = {"badPurchase"}
  Uncloneable = {"callback"}
  FormsOf <- TwoFormsOf
  Dest <- TwoDest
  Ceiling = {"ga4"}
  RemapDest <- TwoRemap
  NoBeacon = "none"
  CoalescedDest <- StrayMerge
  Coalesce = TRUE
  EgressPurposes = {"analytics_storage"}
  ConsentStrict = FALSE
  HoldOnDenied = FALSE
  RemapWired = FALSE
  BootConsent <- analyticsPending
  ConsentUpdates <- analyticsUpdates
  Budgeted = TRUE
  Bytes <- UnitBytes
  BudgetBytes = 2
  Chunk = 2
  NoJob = NoJob
  MaxPushes = 3
  MaxCritical = 0
  MaxUpdates = 1
  MaxHides = 1
INVARIANTS NoSilentLoss RingHasDrain CeilingRespected
PROPERTIES CriticalFirst QuietAfterDispose
\* The page goes away: every behaviour may end.
CHECK_DEADLOCK FALSE
