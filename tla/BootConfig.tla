----------------------------- MODULE BootConfig -----------------------------
(***************************************************************************)
(* boot(config) of adapters/eds/index.js as a function of its config: what *)
(* the validations refuse, what each connector's boot makes of its entry   *)
(* and of the page, the events the composite routes to it. ConsentBoot has *)
(* the same boot() as steps in time.                                       *)
(*                                                                         *)
(* A field is Omitted, a text (the empty one included), or of a type that  *)
(* was not expected. An entry has every field any connector reads, Omitted *)
(* where it does not give one.                                             *)
(***************************************************************************)
EXTENDS Connectors
LOCAL INSTANCE SequencesExt

CONSTANTS
    WrongType,   \* a value of a type no field has
    BadUrl,      \* a text that is no URL
    Defaults     \* the connectors' default endpoints, by connector and vendor

ASSUME DefaultsAssumption == Defaults["helix-rum"] # BadUrl

Text(value) == value \notin {Omitted, WrongType, ""}

(* a ?? b *)
Or(a, b) == IF a = Omitted THEN b ELSE a
-----------------------------------------------------------------------------
KNOWN_CONNECTOR_TYPES ==
    {"ga4", "ga4-gtag", "pixel", "helix-rum", "alloy", "google-ads", "floodlight"}

PIXEL_REQUIRED_ID == [meta |-> "pixelId", linkedin |-> "partnerId", bing |-> "tagId"]

(* The top of the config: each field absent or of its type, and no other.  *)
BOOT_CONFIG_TOP_LEVEL_FIELDS ==
    [connectors |-> "array", consent |-> "object", consentStrict |-> "boolean",
     payloadDenylist |-> "texts", onetrust |-> "mapped"]

(* kinds: field of the config -> what kind of value it has.                *)
validateConfig(kinds) ==
    \A f \in DOMAIN kinds :
        /\ f \in DOMAIN BOOT_CONFIG_TOP_LEVEL_FIELDS
        /\ kinds[f] \in {"undefined", BOOT_CONFIG_TOP_LEVEL_FIELDS[f]}

(* Two placements for one scope: only one handle could have it.            *)
duplicateScope(placements) ==
    \E i, j \in DOMAIN placements : i # j /\ placements[i].scope = placements[j].scope

validPlacement(p) == Text(p.scope) /\ Text(p.selector) /\ p.minHeight \in Nat

DatastreamId(entry) == Or(entry.datastreamId, Or(entry.datastream, entry.edgeConfigId))

(* One connector of the config: no error.                                  *)
validateConnectorEntry(entry) ==
    /\ entry.type \in KNOWN_CONNECTOR_TYPES
    /\ entry.type = "pixel" =>
         /\ entry.vendor \in DOMAIN PIXEL_REQUIRED_ID
         /\ Text(entry[PIXEL_REQUIRED_ID[entry.vendor]])
    /\ entry.type = "ga4-gtag" => Text(entry.measurementId)
    /\ entry.type \in {"google-ads", "floodlight"} => Text(entry.conversionId)
    /\ entry.type = "helix-rum" => entry.weight = Omitted \/ entry.weight \in Nat
    /\ entry.type = "alloy" =>
         /\ Text(entry.bundleUrl) /\ Text(DatastreamId(entry))
         /\ entry.placements # Omitted =>
              /\ \A i \in DOMAIN entry.placements : validPlacement(entry.placements[i])
              /\ ~duplicateScope(entry.placements)
-----------------------------------------------------------------------------
Declared(endpoint) == [endpoint |-> endpoint, matrix |-> <<>>]

(* The activity declared by its bare path, which no activity is sent to.   *)
DeclaredBare(config) == Declared(config.activityEndpoint)

(* An activity's endpoint is declared with its src, a prefix of its path.  *)
deriveActivityCeilingEndpoint(config) ==
    [endpoint |-> config.activityEndpoint, matrix |-> Segment("src", config.src)]

(* Every pixel endpoint and each of the others is declared as it is used;  *)
(* a floodlight config without an activity declares only one.              *)
Endpoints(type, config) ==
    CASE type = "ga4" -> {Declared(config.endpoints[i]) : i \in DOMAIN config.endpoints}
      [] type = "helix-rum" ->
           {Declared(rumUrl(config.collectBaseURL, config.weight))}
      [] type = "floodlight" ->
           {Declared(config.endpoint)} \cup
             IF hasActivityIdentity(config) THEN {deriveActivityCeilingEndpoint(config)} ELSE {}
      [] OTHER -> {Declared(config.endpoint)}

Events(type, config) ==
    CASE type \in {"ga4", "ga4-gtag"} -> {"*"}
      [] type \in {"google-ads", "floodlight", "alloy"} -> {"page_view"}
      [] type = "helix-rum" -> {"top", "error", "cwv"}
      [] type = "pixel" -> DOMAIN config.eventMap

acceptsEvent(events, name) == "*" \in events \/ name \in events

PixelConfig(entry) ==
    LET endpoint == Or(entry.endpoint, Defaults[entry.vendor]) IN
      CASE entry.vendor = "meta" -> createMetaPixelConfig(entry.pixelId, endpoint)
        [] entry.vendor = "linkedin" ->
             createLinkedInInsightConfig(entry.partnerId, Or(entry.conversionId, "00000000"), endpoint)
        [] entry.vendor = "bing" -> createBingUetConfig(entry.tagId, endpoint)

(* The connector's config. helix-rum's weight is resolved before it is     *)
(* handed over, so that both sides name one URL.                           *)
ConnectorConfig(entry, consentDefault) ==
    LET endpoint == Or(entry.endpoint, Defaults[entry.type]) IN
      CASE entry.type = "pixel" -> PixelConfig(entry)
        [] entry.type = "ga4" -> [endpoints |-> Or(entry.endpoints, <<Defaults["ga4"]>>)]
        [] entry.type = "ga4-gtag" -> [endpoint |-> endpoint, measurementId |-> entry.measurementId]
        [] entry.type = "google-ads" ->
             [endpoint |-> endpoint, conversionId |-> entry.conversionId,
              consentDefault |-> consentDefault]
        [] entry.type = "floodlight" ->
             [endpoint |-> endpoint, conversionId |-> entry.conversionId, src |-> entry.src,
              activityEndpoint |-> Or(entry.activityEndpoint, Defaults["activity"]),
              activityType |-> entry.activityType, cat |-> entry.cat,
              consentDefault |-> consentDefault]
        [] entry.type = "helix-rum" ->
             [collectBaseURL |-> Or(entry.collectBaseURL, Defaults["helix-rum"]),
              weight |-> resolveWeight(entry.rate, entry.weight)]
        [] entry.type = "alloy" -> [endpoint |-> Defaults["alloy"]]

(* No consent given is consent to storage: only GA4 and Google read it.    *)
StorageGranted(consent, purpose) == consent = Omitted \/ State(consent, purpose) = "granted"

(* What the host reads for the connector from the page.                    *)
Ctx(entry, consent, consentDefault, page) ==
    CASE entry.type \in {"google-ads", "floodlight"} ->
           WithConsent(sourceGoogleAdsCtx(page.cookie, page.landing,
                                          StorageGranted(consent, "ad_storage")),
                       consent, consentDefault)
      [] entry.type \in {"ga4", "ga4-gtag"} ->
           [clientId |-> page.clientId, sessionId |-> page.sessionId, consent |-> consent,
            consentDefault |-> consentDefault, mpConsent |-> shapeMpConsent(consent)]
      [] OTHER -> <<>>

(* The requests of an event, in the connector's chamber. Alloy's are the   *)
(* bundle's own.                                                           *)
Requests(entry, consent, consentDefault, page, event) ==
    LET config == ConnectorConfig(entry, consentDefault)
        ctx == Ctx(entry, consent, consentDefault, page) IN
      CASE entry.type = "ga4" -> handleGa4(event, config, ctx)
        [] entry.type = "ga4-gtag" -> handleGa4Gtag(event, config, ctx)
        [] entry.type = "google-ads" -> handleGoogleAds(event, config, ctx)
        [] entry.type = "floodlight" -> handleFloodlight(event, config, ctx)
        [] entry.type = "pixel" -> handlePixel(event, config)
        [] entry.type = "helix-rum" -> handleHelixRum(event, config)
        [] entry.type = "alloy" -> <<>>

(* Weight 0 is never selected, and then the handle does nothing.           *)
Selectable(entry) == entry.type = "helix-rum" => resolveWeight(entry.rate, entry.weight) > 0

(* A connector that fails its boot for its own config's sake.              *)
BootThrows(entry) ==
    \/ entry.type = "helix-rum" /\ Or(entry.collectBaseURL, Defaults["helix-rum"]) = BadUrl
    \/ entry.type = "alloy" /\ ~(Text(entry.bundleUrl) /\ Text(DatastreamId(entry)))
    \/ entry.type = "pixel" /\ entry.vendor \notin DOMAIN PIXEL_REQUIRED_ID

(* The entries are validated and booted in turn; the first that fails      *)
(* takes those before it down.                                             *)
bootConnectors(entries) ==
    LET fails(i) == ~validateConnectorEntry(entries[i]) \/ BootThrows(entries[i]) IN
      IF \E i \in DOMAIN entries : fails(i) THEN [threw |-> TRUE, live |-> <<>>]
      ELSE [threw |-> FALSE, live |-> entries]

boot(kinds, entries) ==
    IF ~validateConfig(kinds) THEN [threw |-> TRUE, live |-> <<>>] ELSE bootConnectors(entries)

(* composite.push: what each live connector makes of an event.             *)
Served(entry, consent, consentDefault, page, event) ==
    IF /\ acceptsEvent(Events(entry.type, ConnectorConfig(entry, consentDefault)), event.type)
       /\ Selectable(entry)
    THEN Requests(entry, consent, consentDefault, page, event) ELSE <<>>
-----------------------------------------------------------------------------
(* A config that validation lets through boots every connector of it, but  *)
(* for a collector whose base is no URL. Every request a connector makes of*)
(* an event is for an endpoint the host declared. An event the composite   *)
(* passes by is one its connector has nothing to say about, and of one it  *)
(* routes there goes out something, unless it is a purchase that lacks what*)
(* a purchase must have, or the config gives GA4 no endpoint at all. What a*)
(* chamber samples or a bundle sends is theirs to choose.                  *)
ServedAsDeclared(entry, consent, consentDefault, page, event) ==
    LET config == ConnectorConfig(entry, consentDefault)
        served == Served(entry, consent, consentDefault, page, event)
        routed == acceptsEvent(Events(entry.type, config), event.type) IN
      IF ~validateConnectorEntry(entry) THEN TRUE
      ELSE /\ boot(<<>>, <<entry>>).threw => entry.collectBaseURL = BadUrl
           /\ \A i \in DOMAIN served : checkEndpointCeiling(served[i], Endpoints(entry.type, config))
           /\ entry.type \notin {"helix-rum", "alloy"} =>
                /\ Requests(entry, consent, consentDefault, page, event) = served
                /\ routed /\ served = <<>> =>
                     entry.type = "ga4" /\ (event.type = "purchase" \/ DOMAIN config.endpoints = {})
=============================================================================
