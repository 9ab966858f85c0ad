----------------------------- MODULE Connectors -----------------------------
(***************************************************************************)
(* What the connectors make of an event: the requests of GA4 (MP and gtag),*)
(* Google Ads, Floodlight, the pixel vendors and helix-rum, how the Google *)
(* ones say consent, and how the two that are re-mapped when a held beacon *)
(* is released say it anew. All of connectors/ but alloy.                  *)
(*                                                                         *)
(* An event has a type and a payload, a function from field names. A       *)
(* request is its endpoint, the matrix segments of its path, its query, and*)
(* what is in its body; a parameter whose value is Omitted is not there.   *)
(* Values are text; percent-encoding, which only hides their punctuation,  *)
(* is left out.                                                            *)
(***************************************************************************)
EXTENDS Naturals, Sequences, Consent
LOCAL INSTANCE SequencesExt
LOCAL INSTANCE Functions

CONSTANTS
    Omitted,  \* undefined or null
    Auids,    \* well-formed values of the _gcl_au cookie
    Numbers   \* values of payload fields that are finite numbers

(* undefined is no text, no number and no encoded consent.                 *)
ASSUME OmittedAssumption ==
    /\ Omitted \notin Auids \cup {"0", "1"}
    /\ Omitted \notin Nat
    /\ \A a, b \in {"0", "1"} : Omitted # "G1" \o a \o b

(* appendParam(), for each parameter of a query.                           *)
Given(params) == Restrict(params, {k \in DOMAIN params : params[k] # Omitted})

(* appendMatrixParam(): a segment added to a path.                         *)
Segment(name, value) == IF value = Omitted THEN <<>> ELSE <<<<name, value>>>>

(* Parameters of two kinds.                                                *)
Merged(f, g) == [k \in DOMAIN f \cup DOMAIN g |-> IF k \in DOMAIN f THEN f[k] ELSE g[k]]

Field(event, name) == IF name \in DOMAIN event.payload THEN event.payload[name] ELSE Omitted

Request(endpoint, matrix, query, body) ==
    [endpoint |-> endpoint, matrix |-> matrix, query |-> Given(query),
     body |-> Given(body)]

Get(endpoint, query) == Request(endpoint, <<>>, query, <<>>)
-----------------------------------------------------------------------------
(* consent-mode.js. A consent vector the host did not give says nothing.   *)
Vector(consent) == IF consent = Omitted THEN <<>> ELSE consent

State(consent, purpose) == resolveConsent(Vector(consent), purpose)

AnyPending(consent, purposes) == \E p \in purposes : State(consent, p) = "pending"

GCS_DIGIT == [granted |-> "1", denied |-> "0"]

(* One string for two purposes, so none while one of them is undecided.    *)
encodeGcs(consent) ==
    IF AnyPending(consent, {"ad_storage", "analytics_storage"}) THEN Omitted
    ELSE "G1" \o GCS_DIGIT[State(consent, "ad_storage")]
              \o GCS_DIGIT[State(consent, "analytics_storage")]

GCD_PURPOSES == {"ad_storage", "analytics_storage", "ad_user_data", "ad_personalization"}

GCD_LETTER == [granted |-> "r", denied |-> "q"]

isDeniedAllDefault(consentDefault) ==
    consentDefault = Omitted
      \/ \A p \in GCD_PURPOSES : State(consentDefault, p) = "denied"

encodeGcd(consent, consentDefault) ==
    IF ~isDeniedAllDefault(consentDefault) \/ AnyPending(consent, GCD_PURPOSES) THEN Omitted
    ELSE LET letter(p) == GCD_LETTER[State(consent, p)] IN
           "13" \o letter("ad_storage") \o "3" \o letter("analytics_storage")
             \o "3" \o letter("ad_user_data") \o "3" \o letter("ad_personalization") \o "5l1"

encodeNpa(consent) ==
    IF \A p \in {"ad_user_data", "ad_personalization"} : State(consent, p) = "granted"
    THEN "0" ELSE "1"

(* What the Measurement Protocol says of consent, purpose by purpose.      *)
shapeMpConsent(consent) ==
    [p \in {q \in {"ad_user_data", "ad_personalization"} : State(consent, q) # "pending"} |->
       State(consent, p)]
-----------------------------------------------------------------------------
(* google-ads/cookies.js. A page is its _gcl_au cookie and the click ids of*)
(* its landing URL.                                                        *)
CLICK_ID_PARAMS == {"gclid", "wbraid", "gbraid"}

parseGclAuId(cookie) == IF cookie \in Auids THEN cookie ELSE Omitted

readClickIds(landing) ==
    [p \in CLICK_ID_PARAMS |-> IF p \in DOMAIN landing THEN landing[p] ELSE Omitted]

NoLanding == <<>>

sourceGoogleAdsCtx(cookie, landing, adStorageGranted) ==
    [auid |-> IF adStorageGranted THEN parseGclAuId(cookie) ELSE Omitted,
     clicks |-> readClickIds(landing)]

WithConsent(sourced, consent, consentDefault) ==
    [auid |-> sourced.auid, clicks |-> sourced.clicks,
     consent |-> consent, consentDefault |-> consentDefault]

Page(event, id) ==
    [tid |-> id, en |-> event.type,
     dl |-> Field(event, "page_location"), dt |-> Field(event, "page_title")]

Signals(ctx) ==
    [gcs |-> encodeGcs(ctx.consent), gcd |-> encodeGcd(ctx.consent, ctx.consentDefault),
     npa |-> encodeNpa(ctx.consent)]

mapToAwCollect(event, config, ctx) ==
    Get(config.endpoint,
        Merged(Merged(Page(event, config.conversionId), Merged([auid |-> ctx.auid], ctx.clicks)),
               Signals(ctx)))

mapToDcCollect(event, config, ctx) ==
    Get(config.endpoint,
        Merged(Merged(Page(event, config.conversionId), [auid |-> ctx.auid]), Signals(ctx)))

mapToDcActivity(event, config, ctx) ==
    Request(config.activityEndpoint,
        Segment("src", config.src) \o Segment("type", config.activityType)
          \o Segment("cat", config.cat) \o Segment("npa", Signals(ctx).npa)
          \o Segment("gcs", Signals(ctx).gcs) \o Segment("gcd", Signals(ctx).gcd)
          \o Segment("auiddc", ctx.auid), <<>>, <<>>)

hasActivityIdentity(config) == config.src # Omitted

handleGoogleAds(event, config, ctx) ==
    IF event.type # "page_view" THEN <<>> ELSE <<mapToAwCollect(event, config, ctx)>>

(* Two beacons of one event, if the config names an activity.              *)
handleFloodlight(event, config, ctx) ==
    IF event.type # "page_view" THEN <<>>
    ELSE <<mapToDcCollect(event, config, ctx)>>
         \o IF hasActivityIdentity(config) THEN <<mapToDcActivity(event, config, ctx)>> ELSE <<>>

(* The remapKey of the k-th request. *)
RemapKey(k) == IF k = 2 THEN "activity" ELSE "ccm"

(* A re-map that keeps what could be read when the beacon was held.        *)
RemapCtxOfBoot(config, consent, cookie) ==
    WithConsent(sourceGoogleAdsCtx(cookie, NoLanding, FALSE), consent, config.consentDefault)

(* The re-map reads the cookie anew, under the consent it is released with.*)
RemapCtx(config, consent, cookie) ==
    WithConsent(sourceGoogleAdsCtx(cookie, NoLanding, State(consent, "ad_storage") = "granted"),
                consent, config.consentDefault)

googleAdsRemap(event, config, consent, cookie) ==
    mapToAwCollect(event, config, RemapCtx(config, consent, cookie))

floodlightRemap(event, config, consent, cookie, remapKey) ==
    IF remapKey = "activity" THEN mapToDcActivity(event, config, RemapCtx(config, consent, cookie))
    ELSE mapToDcCollect(event, config, RemapCtx(config, consent, cookie))
-----------------------------------------------------------------------------
(* ga4/gtag.js. A payload field that is not one of the page's own becomes  *)
(* an event parameter, named for its kind.                                 *)
CORE_PAYLOAD_KEYS == {"page_location", "page_referrer", "page_title"}

EventParams(event) ==
    LET custom == DOMAIN event.payload \ CORE_PAYLOAD_KEYS
        named(k) == (IF event.payload[k] \in Numbers THEN "epn." ELSE "ep.") \o k IN
      [p \in {named(k) : k \in custom} |-> event.payload[CHOOSE k \in custom : named(k) = p]]

handleGa4Gtag(event, config, ctx) ==
    <<Request(config.endpoint, <<>>,
        Merged([v |-> "2", tid |-> config.measurementId, cid |-> ctx.clientId, sid |-> ctx.sessionId,
                en |-> event.type, dl |-> Field(event, "page_location"),
                dr |-> Field(event, "page_referrer"), dt |-> Field(event, "page_title"),
                gcs |-> encodeGcs(ctx.consent), gcd |-> encodeGcd(ctx.consent, ctx.consentDefault)],
               EventParams(event)), <<>>)>>

(* ga4/map.js: the one validation of an event; a throw drops the event.    *)
validatePurchase(event) ==
    /\ {Field(event, f) : f \in {"transaction_id", "currency", "items"}} \cap {Omitted, ""} = {}
    /\ Field(event, "value") \in Numbers

mapToMp(event, ctx) ==
    [name |-> event.type, params |-> event.payload, client_id |-> ctx.clientId,
     session_id |-> ctx.sessionId,
     consent |-> IF ctx.mpConsent = <<>> THEN Omitted ELSE ctx.mpConsent]

(* One request a tracker, all to endpoints of the config.                  *)
handleGa4(event, config, ctx) ==
    IF event.type = "purchase" /\ ~validatePurchase(event) THEN <<>>
    ELSE [t \in DOMAIN config.endpoints |->
            Request(config.endpoints[t], <<>>, <<>>, mapToMp(event, ctx))]
-----------------------------------------------------------------------------
(* pixel/connector.js and its vendors. paramMap: query key -> where the    *)
(* value comes from.                                                       *)
Static(value) == [from |-> "static", of |-> value]
Vendor == [from |-> "event", of |-> Omitted]
Param(key) == [from |-> "params", of |-> key]

createMetaPixelConfig(id, endpoint) ==
    [endpoint |-> endpoint, eventMap |-> [page_view |-> "PageView", lead |-> "Lead"],
     paramMap |-> [id |-> Static(id), ev |-> Vendor, value |-> Param("value"),
                   currency |-> Param("currency"), content_name |-> Param("content_name"),
                   content_category |-> Param("content_category")]]

(* The vendor event of a lead is the conversion, a page view has none.     *)
createLinkedInInsightConfig(id, conversion, endpoint) ==
    [endpoint |-> endpoint, eventMap |-> [page_view |-> Omitted, lead |-> conversion],
     paramMap |-> [pid |-> Static(id), fmt |-> Static("gif"), conversionId |-> Vendor]]

createBingUetConfig(id, endpoint) ==
    [endpoint |-> endpoint, eventMap |-> [page_view |-> "pageLoad", lead |-> "custom"],
     paramMap |-> [ti |-> Static(id), evt |-> Vendor, gv |-> Param("value"),
                   ec |-> Param("event_category")]]

handlePixel(event, config) ==
    LET value(spec) == CASE spec.from = "static" -> spec.of
                         [] spec.from = "event"  -> config.eventMap[event.type]
                         [] spec.from = "params" -> Field(event, spec.of) IN
      IF event.type \notin DOMAIN config.eventMap THEN <<>>
      ELSE <<Get(config.endpoint,
                 [k \in DOMAIN config.paramMap |-> value(config.paramMap[k])])>>
-----------------------------------------------------------------------------
(* helix-rum. *)
RATE_WEIGHTS == [on |-> 1, off |-> 0, high |-> 10, medium |-> 100, low |-> 1000]

resolveWeight(rate, weight) ==
    CASE weight # Omitted -> weight
      [] weight = Omitted /\ rate \in DOMAIN RATE_WEIGHTS -> RATE_WEIGHTS[rate]
      [] OTHER -> RATE_WEIGHTS["medium"]

(* A URL under the base, one for each weight.                              *)
rumUrl(collectBaseURL, weight) == <<collectBaseURL, weight>>

CWV_ATTRIBUTION_FIELDS == {"target", "loadState"}

(* What an error and a web vital add to a checkpoint.                      *)
Extras(event) ==
    CASE event.type = "error" -> {"source", "target"}
      [] event.type = "cwv"   -> {"name", "value"} \cup CWV_ATTRIBUTION_FIELDS
      [] OTHER -> {}

handleHelixRum(event, config) ==
    <<Request(rumUrl(config.collectBaseURL, resolveWeight(Omitted, config.weight)), <<>>, <<>>,
              Merged([checkpoint |-> event.type], [f \in Extras(event) |-> Field(event, f)]))>>
-----------------------------------------------------------------------------
(* endpoint-ceiling.js: a declared endpoint admits its own path, and one   *)
(* with matrix segments also what adds segments to them.                   *)
checkEndpointCeiling(request, endpoints) ==
    \E e \in endpoints :
        /\ e.endpoint = request.endpoint
        /\ IF e.matrix = <<>> THEN request.matrix = <<>> ELSE IsPrefix(e.matrix, request.matrix)
-----------------------------------------------------------------------------
Identifiers == {"auid"} \cup CLICK_ID_PARAMS
ConsentParams == {"gcs", "gcd", "npa"}

(* The parameters of a request, wherever it carries them.                  *)
Carried(request) ==
    LET named(s) == IF s[1] = "auiddc" THEN "auid" ELSE s[1]
        matrix == request.matrix IN
      Merged(request.query, [k \in {named(s) : s \in ToSet(matrix)} |->
                               (CHOOSE s \in ToSet(matrix) : named(s) = k)[2]])

(* A beacon held at the seal and re-mapped on its release goes to the same *)
(* endpoint with the same event; what it says of consent is the consent it *)
(* is released under, never the one it was mapped under; it carries the    *)
(* advertising identifier the cookie holds now exactly when storage for    *)
(* advertising is granted now, and no identifier it did not have.          *)
ReleasedUnder(request, released, consent, consentDefault, cookie) ==
    LET old == Carried(request)
        new == Carried(released)
        own(carried) == Restrict(carried, DOMAIN carried \ (Identifiers \cup ConsentParams))
        says(p) == IF p \in DOMAIN new THEN new[p] ELSE Omitted
        granted(p) == resolveConsent(consent, p) = "granted"
        digit(p) == IF granted(p) THEN "1" ELSE "0"
        undecided(purposes) == \E p \in purposes : resolveConsent(consent, p) = "pending" IN
      /\ released.endpoint = request.endpoint /\ own(new) = own(old)
      /\ "auid" \in DOMAIN new <=> granted("ad_storage") /\ cookie \in Auids
      /\ says("auid") \in {Omitted, cookie}
      /\ CLICK_ID_PARAMS \cap DOMAIN new \subseteq DOMAIN old
      /\ says("gcs") = Omitted <=> undecided({"ad_storage", "analytics_storage"})
      /\ says("gcs") \in {Omitted, "G1" \o digit("ad_storage") \o digit("analytics_storage")}
      /\ (says("npa") = "0") <=> granted("ad_user_data") /\ granted("ad_personalization")
      /\ says("gcd") # Omitted => ~undecided(GCD_PURPOSES)
=============================================================================
