\* Two connectors, two boots that overlap, fail and replace each other, and a
\* OneTrust that loads late and changes twice.
SPECIFICATION Spec
CONSTANTS
  Connectors = 2
  Interactive = 1
  PurposesOf <- TwoConnectors
  consentStrict = FALSE
  HoldsDenied = {2}
  MayFail = {2}
  Groups <- SiteGroups
  GroupPurposeMap <- SiteMap
  ActiveSets <- SiteActive
  Unresolved = Unresolved
  NoBoot = NoBoot
  MaxBoots = 2
  MaxChanges = 2
  MaxClicks = 1
INVARIANTS NoLeak SlotIsLive LiveFollowsOneTrust
\* OneTrust changes no more and the page stops.
CHECK_DEADLOCK FALSE
