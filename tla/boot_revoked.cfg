\* GA4 alone, strict, booted twice; the user revokes after the second boot.
SPECIFICATION Spec
CONSTANTS
  Connectors = 1
  Interactive = 1
  PurposesOf <- OneConnector
  consentStrict = TRUE
  HoldsDenied = {}
  MayFail = {}
  Groups <- SiteGroups
  GroupPurposeMap <- SiteMap
  ActiveSets <- SiteActive
  Unresolved = Unresolved
  NoBoot = NoBoot
  MaxBoots = 2
  MaxChanges = 1
  MaxClicks = 1
PROPERTY RevokeStopsEgress
\* OneTrust changes no more and the page stops.
CHECK_DEADLOCK FALSE
