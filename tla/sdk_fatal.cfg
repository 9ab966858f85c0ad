\* index.js:1705: the chain stays alive past a fatal.
SPECIFICATION FairSpec
CONSTANTS
  BootConsents <- grantedOnly
  ConsentWired = TRUE
  ConsentUpdates <- grants
  Urls = {"edge"}
  Override = FALSE
  BootMayFail = TRUE
  ConfigureMayFail = FALSE
  MaxEvents = 2
  MaxUpdates = 0
PROPERTIES ChainOutlivesFatal
\* A page that pushes no more, or a disposed handle, stops.
CHECK_DEADLOCK FALSE
