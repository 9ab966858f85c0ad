\* Booted with consent pending or granted; configure may fail, the network may
\* never answer, the SDK may use another tenant, which the host overrides.
SPECIFICATION FairSpec
CONSTANTS
  BootConsents <- pendingOrGranted
  ConsentWired = TRUE
  ConsentUpdates <- mixed
  Urls = {"edgeOtherTenant", "other"}
  Override = TRUE
  BootMayFail = FALSE
  ConfigureMayFail = TRUE
  MaxEvents = 2
  MaxUpdates = 2
INVARIANTS TypeOK AnsweredOnce ConsentReachesAlloy EventsInTurn
PROPERTIES SealIsLive EventsSettle
\* A page that pushes no more, or a disposed handle, stops.
CHECK_DEADLOCK FALSE
