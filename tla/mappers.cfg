SPECIFICATION MappersSpec
CONSTANTS
    GA4_BATCH_MAX_BYTES = 18
    GA4_BATCH_MAX_EVENTS = 2
    PerEventKeys = {"en", "_et", "ep.a"}
    Scalar = Scalar
    Throws = Throws
    Depth = 3
    Omitted = Omitted
    WrongType = WrongType
    BadUrl = BadUrl
    Auids = {"A", "B"}
    Numbers = {"42"}
    Defaults <- SiteDefaults
    Batches <- GaBatches
    Heaps <- Payloads
    Denylists <- SiteDenylists
    Entries <- SiteEntries
    BootConsents <- SiteConsents
    Grants <- GrantedLater
    ConsentDefaults <- Denials
    Pages <- SitePages
    MaterialEvents <- SiteEvents
INVARIANT SplitWithinLimits
INVARIANT StripsSinglySpelled
INVARIANT ReleasedAsConsented
INVARIANT AcceptedIsServed
CHECK_DEADLOCK FALSE
