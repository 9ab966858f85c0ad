SPECIFICATION PageSpec
CONSTANTS
    Scopes = {"hero", "side", "__view__"}
    Elements = {"e1", "e2"}
    NoElement = "none"
    PlacementLists <- SitePlacements
    Propositions <- SitePropositions
    MaxBoots = 2
    MaxMessages = 2
    ADVANCED_MATCHING_FIELDS = {"em", "ph"}
    OtherFields = {"nick"}
    Raw = {"A", "a", "B"}
    Normalize <- Lowered
    BootIdentity <- AtBoot
    HostIdentity <- GivenByHost
    MaxIdentities = 2
    MaxBeacons = 2
    MaxNodes = 2
    MaxTasks = 2
    MaxCalls = 2
    Urls = {"a", "b"}
    NoUrl = "none"
    MatcherSets <- SiteMatchers
    MaxForeign <- OthersWrap
    MaxSessionBoots = 3
    MaxNow = 3
    Timeout = 1
    NoCookie = NoCookie
    OtherCookie = OtherCookie
INVARIANT HiddenHasBackstop
INVARIANT ExposureFollowsDisplay
INVARIANT CachesAgree
INVARIANT LatestIdentityWins
INVARIANT BatchesInOrder
INVARIANT SuppressionHonest
INVARIANT SessionsCounted
PROPERTY HiddenSettles
CHECK_DEADLOCK FALSE
