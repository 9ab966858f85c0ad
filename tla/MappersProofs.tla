---------------------------- MODULE MappersProofs ----------------------------
(***************************************************************************)
(* What TLAPS proves of the runtime's pure functions, for any config, page *)
(* and event: that a config let through boots and sends only where it      *)
(* declared, that a beacon released from the seal says the consent it is   *)
(* released under, that what crosses to a chamber is exactly the payload   *)
(* without what the denylist names, and that a batch of GA4 requests goes  *)
(* out as its events, each once, in posts within GA4's limits.             *)
(***************************************************************************)
EXTENDS Mappers, TLAPS
LOCAL INSTANCE Functions
LOCAL INSTANCE SequencesExt
WF == INSTANCE WellFoundedInduction

(* What consent resolves to, and says.                                     *)
LEMMA Resolved ==
    ASSUME NEW vector, NEW purpose
    PROVE  resolveConsent(vector, purpose) \in {"granted", "denied", "pending"}
BY DEF resolveConsent

Digit(vector, purpose) == IF resolveConsent(vector, purpose) = "granted" THEN "1" ELSE "0"

Undecided(vector, purposes) == \E p \in purposes : resolveConsent(vector, p) = "pending"

LEMMA GcsSays ==
    ASSUME NEW vector, vector # Omitted
    PROVE  /\ Undecided(vector, {"ad_storage", "analytics_storage"}) => encodeGcs(vector) = Omitted
           /\ ~Undecided(vector, {"ad_storage", "analytics_storage"}) =>
                /\ encodeGcs(vector) =
                     "G1" \o Digit(vector, "ad_storage") \o Digit(vector, "analytics_storage")
                /\ encodeGcs(vector) # Omitted
<1>1. \A p : State(vector, p) = resolveConsent(vector, p)
    BY DEF State, Vector
<1>2. Undecided(vector, {"ad_storage", "analytics_storage"})
        <=> AnyPending(vector, {"ad_storage", "analytics_storage"})
    BY <1>1 DEF Undecided, AnyPending
<1>3. ASSUME NEW p, State(vector, p) # "pending"
      PROVE  GCS_DIGIT[State(vector, p)] = Digit(vector, p)
    BY <1>1, <1>3, Resolved DEF GCS_DIGIT, Digit
<1>4. ASSUME ~AnyPending(vector, {"ad_storage", "analytics_storage"})
      PROVE  /\ encodeGcs(vector) =
                  "G1" \o Digit(vector, "ad_storage") \o Digit(vector, "analytics_storage")
             /\ encodeGcs(vector) # Omitted
  <2>1. /\ GCS_DIGIT[State(vector, "ad_storage")] = Digit(vector, "ad_storage")
        /\ GCS_DIGIT[State(vector, "analytics_storage")] = Digit(vector, "analytics_storage")
      BY <1>3, <1>4 DEF AnyPending
  <2>2. encodeGcs(vector) =
          "G1" \o Digit(vector, "ad_storage") \o Digit(vector, "analytics_storage")
      BY <1>4, <2>1 DEF encodeGcs
  <2>3. /\ Digit(vector, "ad_storage") \in {"0", "1"}
        /\ Digit(vector, "analytics_storage") \in {"0", "1"}
      BY DEF Digit
  <2> QED
      BY <2>2, <2>3, OmittedAssumption
<1> QED
    BY <1>2, <1>4 DEF encodeGcs

LEMMA GcdSays ==
    ASSUME NEW vector, vector # Omitted, NEW consentDefault,
           Undecided(vector, GCD_PURPOSES)
    PROVE  encodeGcd(vector, consentDefault) = Omitted
BY DEF encodeGcd, AnyPending, Undecided, State, Vector

LEMMA NpaSays ==
    ASSUME NEW vector, vector # Omitted
    PROVE  /\ encodeNpa(vector) \in {"0", "1"}
           /\ encodeNpa(vector) = "0" <=>
                /\ resolveConsent(vector, "ad_user_data") = "granted"
                /\ resolveConsent(vector, "ad_personalization") = "granted"
BY DEF encodeNpa, State, Vector

LEMMA GivenOf ==
    ASSUME NEW q
    PROVE  /\ DOMAIN Given(q) = {k \in DOMAIN q : q[k] # Omitted}
           /\ \A k \in DOMAIN Given(q) : Given(q)[k] = q[k]
BY DEF Given, Restrict
-----------------------------------------------------------------------------
(* A beacon and its re-map, whatever carries their parameters: q0 and q1.  *)
LEMMA Remaps ==
    ASSUME NEW request, NEW released, NEW now, NEW consentDefault, NEW cookie,
           NEW q0, NEW q1, now # Omitted,
           released.endpoint = request.endpoint,
           Carried(request) = Given(q0), Carried(released) = Given(q1),
           DOMAIN q1 \ (Identifiers \cup ConsentParams)
             = DOMAIN q0 \ (Identifiers \cup ConsentParams),
           \A k \in DOMAIN q1 \ (Identifiers \cup ConsentParams) : q1[k] = q0[k],
           {"auid"} \cup ConsentParams \subseteq DOMAIN q1,
           q1["auid"] = IF State(now, "ad_storage") = "granted"
                        THEN parseGclAuId(cookie) ELSE Omitted,
           \A p \in CLICK_ID_PARAMS \cap DOMAIN q1 : q1[p] = Omitted,
           q1["gcs"] = encodeGcs(now), q1["gcd"] = encodeGcd(now, consentDefault),
           q1["npa"] = encodeNpa(now)
    PROVE  ReleasedUnder(request, released, now, consentDefault, cookie)
<1> DEFINE old == Given(q0)
           new == Given(q1)
           others == Identifiers \cup ConsentParams
           own(carried) == Restrict(carried, DOMAIN carried \ others)
           says(p) == IF p \in DOMAIN new THEN new[p] ELSE Omitted
<1>1. /\ DOMAIN old = {k \in DOMAIN q0 : q0[k] # Omitted}
      /\ DOMAIN new = {k \in DOMAIN q1 : q1[k] # Omitted}
      /\ \A k \in DOMAIN old : old[k] = q0[k]
      /\ \A k \in DOMAIN new : new[k] = q1[k]
    BY GivenOf
<1>2. \A p \in DOMAIN q1 : says(p) = q1[p]
    BY <1>1
<1>3. own(new) = own(old)
  <2>1. DOMAIN new \ others = DOMAIN old \ others
      BY <1>1
  <2>2. \A k \in DOMAIN new \ others : new[k] = old[k]
      BY <1>1, <2>1
  <2> QED
      BY <2>1, <2>2 DEF Restrict
<1>4. {"auid", "gcs", "gcd", "npa"} \subseteq DOMAIN q1
    BY DEF ConsentParams
<1>5. State(now, "ad_storage") = resolveConsent(now, "ad_storage")
    BY DEF State, Vector
<1>6. "auid" \in DOMAIN new <=> resolveConsent(now, "ad_storage") = "granted" /\ cookie \in Auids
    BY <1>1, <1>4, <1>5, OmittedAssumption DEF parseGclAuId
<1>7. says("auid") \in {Omitted, cookie}
    BY <1>2, <1>4 DEF parseGclAuId
<1>8. CLICK_ID_PARAMS \cap DOMAIN new \subseteq DOMAIN old
    BY <1>1
<1>9. /\ says("gcs") = encodeGcs(now) /\ says("gcd") = encodeGcd(now, consentDefault)
      /\ says("npa") = encodeNpa(now)
    BY <1>2, <1>4
<1>10. /\ says("gcs") = Omitted <=> Undecided(now, {"ad_storage", "analytics_storage"})
       /\ says("gcs") \in {Omitted,
            "G1" \o Digit(now, "ad_storage") \o Digit(now, "analytics_storage")}
    BY <1>9, GcsSays
<1>11. (says("npa") = "0") <=> /\ resolveConsent(now, "ad_user_data") = "granted"
                               /\ resolveConsent(now, "ad_personalization") = "granted"
    BY <1>9, NpaSays
<1>12. says("gcd") # Omitted => ~Undecided(now, GCD_PURPOSES)
    BY <1>9, GcdSays
<1> QED
    BY <1>3, <1>6, <1>7, <1>8, <1>10, <1>11, <1>12 DEF ReleasedUnder, Digit, Undecided
-----------------------------------------------------------------------------
(* The parameters of a request that is its query alone.                    *)
LEMMA CarriedInQuery ==
    ASSUME NEW endpoint, NEW query
    PROVE  /\ Carried(Get(endpoint, query)) = Given(query)
           /\ Get(endpoint, query).endpoint = endpoint
<1> DEFINE request == Get(endpoint, query)
<1>1. request = [endpoint |-> endpoint, matrix |-> <<>>, query |-> Given(query), body |-> Given(<<>>)]
    BY DEF Get, Request
<1>2. ToSet(request.matrix) = {}
    BY <1>1 DEF ToSet
<1>3. request.query = Given(query) /\ request.endpoint = endpoint
    BY <1>1
<1>4. Carried(request) =
        [k \in DOMAIN Given(query) \cup {} |->
           IF k \in DOMAIN Given(query) THEN Given(query)[k] ELSE Given(query)[k]]
    BY <1>2, <1>3 DEF Carried, Merged
<1>5. Given(query) = [k \in DOMAIN Given(query) |-> Given(query)[k]]
    BY DEF Given, Restrict
<1> QED
    BY <1>3, <1>4, <1>5

(* The segments of an activity's path, as a set.                           *)
LEMMA Segmented ==
    ASSUME NEW name, NEW value
    PROVE  /\ Segment(name, value) \in Seq({<<name, value>>})
           /\ ToSet(Segment(name, value)) = {s \in {<<name, value>>} : value # Omitted}
BY DEF Segment, ToSet

LEMMA SegmentIn ==
    ASSUME NEW name, NEW value, NEW S, <<name, value>> \in S
    PROVE  Segment(name, value) \in Seq(S)
<1> DEFINE segment == <<name, value>>
<1>1. Segment(name, value) = IF value = Omitted THEN <<>> ELSE <<segment>>
    BY DEF Segment
<1>2. segment \in S
    OBVIOUS
<1> HIDE DEF segment
<1> QED
    BY <1>1, <1>2

LEMMA ToSetOfJoin ==
    ASSUME NEW S, NEW s \in Seq(S), NEW t \in Seq(S)
    PROVE  /\ s \o t \in Seq(S)
           /\ ToSet(s \o t) = ToSet(s) \cup ToSet(t)
<1>1. s \in Seq(S) /\ t \in Seq(S)
    OBVIOUS
<1>2. s \o t \in Seq(S) /\ Len(s \o t) = Len(s) + Len(t)
    BY <1>1
<1>3. \A i \in DOMAIN s : (s \o t)[i] = s[i] /\ i \in DOMAIN (s \o t)
    BY <1>1, <1>2
<1>4. \A i \in DOMAIN t : (s \o t)[Len(s) + i] = t[i] /\ Len(s) + i \in DOMAIN (s \o t)
    BY <1>1, <1>2
<1>5. ASSUME NEW i \in DOMAIN (s \o t)
      PROVE  (s \o t)[i] \in ToSet(s) \cup ToSet(t)
  <2>1. CASE i \in DOMAIN s
      BY <1>3, <2>1 DEF ToSet
  <2>2. CASE i \notin DOMAIN s
    <3>1. i - Len(s) \in DOMAIN t /\ Len(s) + (i - Len(s)) = i
        BY <1>2, <2>2
    <3> QED
        BY <1>4, <3>1 DEF ToSet
  <2> QED
      BY <2>1, <2>2
<1>6. ToSet(s) \cup ToSet(t) \subseteq ToSet(s \o t)
    BY <1>3, <1>4 DEF ToSet
<1> QED
    BY <1>2, <1>5, <1>6 DEF ToSet

(* Their names, those of the query where both carry a parameter.           *)
ActivityParams(config, ctx) ==
    [src |-> config.src, type |-> config.activityType, cat |-> config.cat,
     npa |-> Signals(ctx).npa, gcs |-> Signals(ctx).gcs, gcd |-> Signals(ctx).gcd,
     auid |-> ctx.auid]

LEMMA ActivitySegments ==
    ASSUME NEW event, NEW config, NEW ctx
    PROVE  LET q == ActivityParams(config, ctx)
               named(k) == IF k = "auid" THEN "auiddc" ELSE k
               request == mapToDcActivity(event, config, ctx) IN
             /\ request = [endpoint |-> config.activityEndpoint, matrix |-> request.matrix,
                           query |-> Given(<<>>), body |-> Given(<<>>)]
             /\ ToSet(request.matrix) = {<<named(k), q[k]>> : k \in {n \in DOMAIN q : q[n] # Omitted}}
<1> DEFINE q == ActivityParams(config, ctx)
           p(n, v) == {s \in {<<n, v>>} : v # Omitted}
           s1 == Segment("src", q.src)
           s2 == Segment("type", q.type)
           s3 == Segment("cat", q.cat)
           s4 == Segment("npa", q.npa)
           s5 == Segment("gcs", q.gcs)
           s6 == Segment("gcd", q.gcd)
           s7 == Segment("auiddc", q.auid)
           all == {<<"src", q.src>>, <<"type", q.type>>, <<"cat", q.cat>>, <<"npa", q.npa>>,
                   <<"gcs", q.gcs>>, <<"gcd", q.gcd>>, <<"auiddc", q.auid>>}
           m2 == s1 \o s2
           m3 == m2 \o s3
           m4 == m3 \o s4
           m5 == m4 \o s5
           m6 == m5 \o s6
           m7 == m6 \o s7
<1>1. /\ q.src = config.src /\ q.type = config.activityType /\ q.cat = config.cat
      /\ q.npa = Signals(ctx).npa /\ q.gcs = Signals(ctx).gcs /\ q.gcd = Signals(ctx).gcd
      /\ q.auid = ctx.auid
      /\ DOMAIN q = {"src", "type", "cat", "npa", "gcs", "gcd", "auid"}
    BY DEF ActivityParams
<1>2. mapToDcActivity(event, config, ctx)
        = [endpoint |-> config.activityEndpoint, matrix |-> m7, query |-> Given(<<>>),
           body |-> Given(<<>>)]
    BY <1>1 DEF mapToDcActivity, Request
<1>3. /\ ToSet(s1) = p("src", q.src) /\ ToSet(s2) = p("type", q.type)
      /\ ToSet(s3) = p("cat", q.cat) /\ ToSet(s4) = p("npa", q.npa)
      /\ ToSet(s5) = p("gcs", q.gcs) /\ ToSet(s6) = p("gcd", q.gcd)
      /\ ToSet(s7) = p("auiddc", q.auid)
    BY Segmented
<1>4. ASSUME NEW name, NEW value, <<name, value>> \in all
      PROVE  Segment(name, value) \in Seq(all)
    BY <1>4, SegmentIn
<1>5. /\ s1 \in Seq(all) /\ s2 \in Seq(all) /\ s3 \in Seq(all) /\ s4 \in Seq(all)
      /\ s5 \in Seq(all) /\ s6 \in Seq(all) /\ s7 \in Seq(all)
    BY <1>4
<1> HIDE DEF q, s1, s2, s3, s4, s5, s6, s7, m2, m3, m4, m5, m6, m7, all
<1>6. m2 \in Seq(all) /\ ToSet(m2) = ToSet(s1) \cup ToSet(s2)
    BY <1>5, ToSetOfJoin DEF m2
<1>7. m3 \in Seq(all) /\ ToSet(m3) = ToSet(m2) \cup ToSet(s3)
    BY <1>5, <1>6, ToSetOfJoin DEF m3
<1>8. m4 \in Seq(all) /\ ToSet(m4) = ToSet(m3) \cup ToSet(s4)
    BY <1>5, <1>7, ToSetOfJoin DEF m4
<1>9. m5 \in Seq(all) /\ ToSet(m5) = ToSet(m4) \cup ToSet(s5)
    BY <1>5, <1>8, ToSetOfJoin DEF m5
<1>10. m6 \in Seq(all) /\ ToSet(m6) = ToSet(m5) \cup ToSet(s6)
    BY <1>5, <1>9, ToSetOfJoin DEF m6
<1>11. m7 \in Seq(all) /\ ToSet(m7) = ToSet(m6) \cup ToSet(s7)
    BY <1>5, <1>10, ToSetOfJoin DEF m7
<1>12. ToSet(m7) = p("src", q.src) \cup p("type", q.type) \cup p("cat", q.cat)
         \cup p("npa", q.npa) \cup p("gcs", q.gcs) \cup p("gcd", q.gcd) \cup p("auiddc", q.auid)
    BY <1>3, <1>6, <1>7, <1>8, <1>9, <1>10, <1>11
<1>13. ToSet(m7) = {<<IF k = "auid" THEN "auiddc" ELSE k, q[k]>> :
                          k \in {n \in DOMAIN q : q[n] # Omitted}}
    BY <1>1, <1>12
<1> QED
    BY <1>2, <1>13 DEF q

LEMMA CarriedInPath ==
    ASSUME NEW event, NEW config, NEW ctx
    PROVE  /\ Carried(mapToDcActivity(event, config, ctx)) = Given(ActivityParams(config, ctx))
           /\ mapToDcActivity(event, config, ctx).endpoint = config.activityEndpoint
<1> DEFINE q == ActivityParams(config, ctx)
           request == mapToDcActivity(event, config, ctx)
           path(k) == IF k = "auid" THEN "auiddc" ELSE k
           named(s) == IF s[1] = "auiddc" THEN "auid" ELSE s[1]
           given == {n \in DOMAIN q : q[n] # Omitted}
           segments == ToSet(request.matrix)
<1>1. /\ request = [endpoint |-> config.activityEndpoint, matrix |-> request.matrix,
                   query |-> Given(<<>>), body |-> Given(<<>>)]
      /\ segments = {<<path(k), q[k]>> : k \in given}
  <2> DEFINE actual == [endpoint |-> config.activityEndpoint, matrix |-> request.matrix,
                        query |-> Given(<<>>), body |-> Given(<<>>)]
  <2>1. request = actual
      BY ActivitySegments
  <2>2. segments = {<<path(k), q[k]>> : k \in given}
      BY ActivitySegments
  <2> QED
      BY <2>1, <2>2
<1>2. DOMAIN q = {"src", "type", "cat", "npa", "gcs", "gcd", "auid"}
    BY DEF ActivityParams
<1> HIDE DEF q, request
<1>3. request.endpoint = config.activityEndpoint /\ request.query = Given(<<>>)
    BY <1>1
<1>4. DOMAIN request.query = {}
  <2>1. DOMAIN <<>> = {}
      OBVIOUS
  <2>2. DOMAIN Given(<<>>) \subseteq DOMAIN <<>>
      BY GivenOf
  <2> QED
      BY <1>3, <2>1, <2>2
<1>5. ASSUME NEW k \in given
      PROVE  /\ <<path(k), q[k]>> \in segments /\ named(<<path(k), q[k]>>) = k
             /\ \A s \in segments : named(s) = k => s = <<path(k), q[k]>>
  <2>1. k # "auiddc" /\ \A n \in given : n # "auiddc"
      BY <1>2
  <2>2. named(<<path(k), q[k]>>) = k /\ \A n \in given : named(<<path(n), q[n]>>) = n
      BY <2>1
  <2>3. ASSUME NEW s \in segments, named(s) = k
        PROVE  s = <<path(k), q[k]>>
    <3>1. PICK n \in given : s = <<path(n), q[n]>>
        BY <1>1
    <3>2. named(s) = n
        BY <2>2, <3>1
    <3> QED
        BY <2>3, <3>1, <3>2
  <2>4. <<path(k), q[k]>> \in segments
      BY <1>1
  <2> QED
      BY <2>2, <2>3, <2>4
<1>6. {named(s) : s \in segments} = given
  <2>1. ASSUME NEW s \in segments
        PROVE  named(s) \in given
    <3>1. PICK k \in given : s = <<path(k), q[k]>>
        BY <1>1
    <3>2. named(<<path(k), q[k]>>) = k
        BY <1>5
    <3> QED
        BY <3>1, <3>2
  <2>2. ASSUME NEW k \in given
        PROVE  \E s \in segments : k = named(s)
      BY <1>5
  <2> QED
      BY <2>1, <2>2
<1>7. \A k \in given : (CHOOSE s \in segments : named(s) = k)[2] = q[k]
  <2> SUFFICES ASSUME NEW k \in given
               PROVE  (CHOOSE s \in segments : named(s) = k)[2] = q[k]
      OBVIOUS
  <2> DEFINE chosen == CHOOSE s \in segments : named(s) = k
             segment == <<path(k), q[k]>>
  <2>1. chosen = segment
      BY <1>5
  <2>2. segment[2] = q[k]
      OBVIOUS
  <2> HIDE DEF chosen, segment
  <2>3. chosen[2] = q[k]
      BY <2>1, <2>2
  <2> QED
      BY <2>3 DEF chosen
<1>8. Carried(request) =
        Merged(request.query, [k \in {named(s) : s \in segments} |->
                                 (CHOOSE s \in segments : named(s) = k)[2]])
    BY DEF Carried
<1>9. Carried(request) =
        Merged(request.query, [k \in given |-> (CHOOSE s \in segments : named(s) = k)[2]])
    BY <1>6, <1>8
<1>10. Carried(request) = [k \in given |-> (CHOOSE s \in segments : named(s) = k)[2]]
    BY <1>4, <1>9 DEF Merged
<1>11. Carried(request) = [k \in given |-> q[k]]
    BY <1>7, <1>10
<1>12. Given(q) = [k \in given |-> q[k]]
    BY DEF Given, Restrict
<1> QED
    BY <1>3, <1>11, <1>12 DEF q, request
-----------------------------------------------------------------------------
(* The query of an Ads beacon, and that of a Floodlight one.               *)
CollectParams(event, config, ctx, clicks) ==
    Merged(Merged(Page(event, config.conversionId), Merged([auid |-> ctx.auid], clicks)),
           Signals(ctx))

CollectShape(query, own, ctx, clicks) ==
    /\ DOMAIN query = {"tid", "en", "dl", "dt", "auid", "gcs", "gcd", "npa"} \cup DOMAIN clicks
    /\ query["tid"] = own["tid"] /\ query["en"] = own["en"]
    /\ query["dl"] = own["dl"] /\ query["dt"] = own["dt"]
    /\ query["auid"] = ctx.auid
    /\ \A k \in DOMAIN clicks : query[k] = clicks[k]
    /\ query["gcs"] = encodeGcs(ctx.consent)
    /\ query["gcd"] = encodeGcd(ctx.consent, ctx.consentDefault)
    /\ query["npa"] = encodeNpa(ctx.consent)

LEMMA CollectParamsAre ==
    ASSUME NEW event, NEW config, NEW ctx, NEW clicks, DOMAIN clicks \subseteq CLICK_ID_PARAMS
    PROVE  CollectShape(CollectParams(event, config, ctx, clicks),
                        Page(event, config.conversionId), ctx, clicks)
<1> DEFINE page == Page(event, config.conversionId)
           signals == Signals(ctx)
           ids == Merged([auid |-> ctx.auid], clicks)
           both == Merged(page, ids)
           q == Merged(both, signals)
<1>1. DOMAIN page = {"tid", "en", "dl", "dt"}
    BY DEF Page
<1>2. /\ DOMAIN signals = {"gcs", "gcd", "npa"} /\ signals["gcs"] = encodeGcs(ctx.consent)
      /\ signals["gcd"] = encodeGcd(ctx.consent, ctx.consentDefault)
      /\ signals["npa"] = encodeNpa(ctx.consent)
    BY DEF Signals
<1>3. /\ DOMAIN ids = {"auid"} \cup DOMAIN clicks /\ ids["auid"] = ctx.auid
      /\ \A k \in DOMAIN clicks : ids[k] = clicks[k]
    BY DEF Merged, CLICK_ID_PARAMS
<1> HIDE DEF page, signals, ids
<1>4. /\ DOMAIN both = DOMAIN page \cup DOMAIN ids
      /\ \A k \in DOMAIN page : both[k] = page[k]
      /\ \A k \in DOMAIN ids \ DOMAIN page : both[k] = ids[k]
    BY DEF Merged
<1> HIDE DEF both
<1>5. /\ DOMAIN q = DOMAIN both \cup DOMAIN signals
      /\ \A k \in DOMAIN both : q[k] = both[k]
      /\ \A k \in DOMAIN signals \ DOMAIN both : q[k] = signals[k]
    BY DEF Merged
<1> HIDE DEF q
<1>6. /\ DOMAIN q = {"tid", "en", "dl", "dt", "auid"} \cup DOMAIN clicks \cup {"gcs", "gcd", "npa"}
      /\ \A k \in {"tid", "en", "dl", "dt"} : q[k] = page[k]
      /\ q["auid"] = ctx.auid
    BY <1>1, <1>2, <1>3, <1>4, <1>5
<1>7. \A k \in DOMAIN clicks : q[k] = clicks[k]
    BY <1>1, <1>3, <1>4, <1>5 DEF CLICK_ID_PARAMS
<1>8. {"gcs", "gcd", "npa"} \cap DOMAIN both = {}
    BY <1>1, <1>3, <1>4 DEF CLICK_ID_PARAMS
<1>9. q["gcs"] = signals["gcs"] /\ q["gcd"] = signals["gcd"] /\ q["npa"] = signals["npa"]
    BY <1>2, <1>5, <1>8
<1>10. q = CollectParams(event, config, ctx, clicks) /\ page = Page(event, config.conversionId)
    BY DEF q, both, ids, signals, page, CollectParams
<1>11. CollectShape(q, page, ctx, clicks)
    BY <1>2, <1>6, <1>7, <1>9 DEF CollectShape
<1> QED
    BY <1>10, <1>11

(* What a re-map reads.                                                    *)
LEMMA RemapReads ==
    ASSUME NEW config, NEW now, NEW cookie
    PROVE  LET ctx == RemapCtx(config, now, cookie) IN
             /\ ctx.auid = IF State(now, "ad_storage") = "granted"
                           THEN parseGclAuId(cookie) ELSE Omitted
             /\ DOMAIN ctx.clicks = CLICK_ID_PARAMS
             /\ \A p \in CLICK_ID_PARAMS : ctx.clicks[p] = Omitted
             /\ ctx.consent = now /\ ctx.consentDefault = config.consentDefault
<1> DEFINE sourced == sourceGoogleAdsCtx(cookie, NoLanding, State(now, "ad_storage") = "granted")
<1>1. DOMAIN NoLanding = {}
    BY DEF NoLanding
<1>2. readClickIds(NoLanding) = [p \in CLICK_ID_PARAMS |-> Omitted]
    BY <1>1 DEF readClickIds
<1>3. /\ sourced.auid = IF State(now, "ad_storage") = "granted"
                        THEN parseGclAuId(cookie) ELSE Omitted
      /\ sourced.clicks = [p \in CLICK_ID_PARAMS |-> Omitted]
    BY <1>2 DEF sourceGoogleAdsCtx
<1> HIDE DEF sourced
<1>4. RemapCtx(config, now, cookie)
        = [auid |-> sourced.auid, clicks |-> sourced.clicks, consent |-> now,
           consentDefault |-> config.consentDefault]
    BY DEF sourced, RemapCtx, WithConsent
<1> QED
    BY <1>3, <1>4

(* The beacons, of any context the page gives and of a re-map.             *)
LEMMA AdsRemapped ==
    ASSUME NEW event, NEW config, NEW ctx, NEW now, NEW cookie, now # Omitted,
           DOMAIN ctx.clicks = CLICK_ID_PARAMS
    PROVE  ReleasedUnder(mapToAwCollect(event, config, ctx),
                         googleAdsRemap(event, config, now, cookie), now,
                         config.consentDefault, cookie)
<1> DEFINE rctx == RemapCtx(config, now, cookie)
           q0 == CollectParams(event, config, ctx, ctx.clicks)
           q1 == CollectParams(event, config, rctx, rctx.clicks)
           request == mapToAwCollect(event, config, ctx)
           released == googleAdsRemap(event, config, now, cookie)
           page == Page(event, config.conversionId)
<1>1. /\ rctx.auid = IF State(now, "ad_storage") = "granted"
                     THEN parseGclAuId(cookie) ELSE Omitted
      /\ DOMAIN rctx.clicks = CLICK_ID_PARAMS
      /\ \A p \in CLICK_ID_PARAMS : rctx.clicks[p] = Omitted
      /\ rctx.consent = now /\ rctx.consentDefault = config.consentDefault
    BY RemapReads
<1> HIDE DEF rctx
<1>2. request = Get(config.endpoint, q0) /\ released = Get(config.endpoint, q1)
    BY DEF mapToAwCollect, googleAdsRemap, CollectParams, rctx
<1>3. CollectShape(q0, page, ctx, ctx.clicks) /\ CollectShape(q1, page, rctx, rctx.clicks)
    BY <1>1, CollectParamsAre
<1> HIDE DEF q0, q1, page
<1>4. /\ DOMAIN q0 = {"tid", "en", "dl", "dt", "auid", "gcs", "gcd", "npa"} \cup CLICK_ID_PARAMS
      /\ DOMAIN q1 = {"tid", "en", "dl", "dt", "auid", "gcs", "gcd", "npa"} \cup CLICK_ID_PARAMS
      /\ \A k \in {"tid", "en", "dl", "dt"} : q1[k] = q0[k]
      /\ q1["auid"] = rctx.auid
      /\ \A p \in CLICK_ID_PARAMS : q1[p] = rctx.clicks[p]
      /\ q1["gcs"] = encodeGcs(rctx.consent)
      /\ q1["gcd"] = encodeGcd(rctx.consent, rctx.consentDefault)
      /\ q1["npa"] = encodeNpa(rctx.consent)
    BY <1>1, <1>3 DEF CollectShape
<1>5. /\ Carried(request) = Given(q0) /\ Carried(released) = Given(q1)
      /\ released.endpoint = request.endpoint
    BY <1>2, CarriedInQuery
<1> HIDE DEF request, released
<1>6. /\ DOMAIN q0 \ (Identifiers \cup ConsentParams) = {"tid", "en", "dl", "dt"}
      /\ DOMAIN q1 \ (Identifiers \cup ConsentParams) = {"tid", "en", "dl", "dt"}
      /\ {"auid"} \cup ConsentParams \subseteq DOMAIN q1
    BY <1>4 DEF Identifiers, ConsentParams, CLICK_ID_PARAMS
<1>7. \A k \in DOMAIN q1 \ (Identifiers \cup ConsentParams) : q1[k] = q0[k]
    BY <1>4, <1>6
<1>8. \A p \in CLICK_ID_PARAMS \cap DOMAIN q1 : q1[p] = Omitted
    BY <1>1, <1>4
<1>9. ReleasedUnder(request, released, now, config.consentDefault, cookie)
    BY <1>1, <1>4, <1>5, <1>6, <1>7, <1>8, Remaps
<1> QED
    BY <1>9 DEF request, released

LEMMA DcRemapped ==
    ASSUME NEW event, NEW config, NEW ctx, NEW now, NEW cookie, now # Omitted
    PROVE  ReleasedUnder(mapToDcCollect(event, config, ctx),
                         floodlightRemap(event, config, now, cookie, "ccm"), now,
                         config.consentDefault, cookie)
<1> DEFINE rctx == RemapCtx(config, now, cookie)
           query(c) == Merged(Merged(Page(event, config.conversionId), [auid |-> c.auid]),
                              Signals(c))
           q0 == query(ctx)
           q1 == query(rctx)
           request == mapToDcCollect(event, config, ctx)
           released == floodlightRemap(event, config, now, cookie, "ccm")
           page == Page(event, config.conversionId)
           none == [p \in {} |-> Omitted]
<1>1. /\ rctx.auid = IF State(now, "ad_storage") = "granted"
                     THEN parseGclAuId(cookie) ELSE Omitted
      /\ rctx.consent = now /\ rctx.consentDefault = config.consentDefault
    BY RemapReads
<1> HIDE DEF rctx
<1>2. request = Get(config.endpoint, q0) /\ released = Get(config.endpoint, q1)
    BY DEF mapToDcCollect, floodlightRemap, rctx
<1>3. ASSUME NEW c
      PROVE  CollectShape(query(c), page, c, none)
  <2>1. Merged([auid |-> c.auid], none) = [auid |-> c.auid]
      BY DEF Merged
  <2>2. query(c) = CollectParams(event, config, c, none)
      BY <2>1 DEF CollectParams
  <2>3. DOMAIN none \subseteq CLICK_ID_PARAMS
      OBVIOUS
  <2> QED
      BY <2>2, <2>3, CollectParamsAre
<1>4. DOMAIN none = {} /\ CollectShape(q0, page, ctx, none) /\ CollectShape(q1, page, rctx, none)
    BY <1>3
<1>6. /\ Carried(request) = Given(q0) /\ Carried(released) = Given(q1)
      /\ released.endpoint = request.endpoint
    BY <1>2, CarriedInQuery
<1> HIDE DEF q0, q1, request, released, page, none, query
<1>5. /\ DOMAIN q0 = {"tid", "en", "dl", "dt", "auid", "gcs", "gcd", "npa"}
      /\ DOMAIN q1 = {"tid", "en", "dl", "dt", "auid", "gcs", "gcd", "npa"}
      /\ \A k \in {"tid", "en", "dl", "dt"} : q1[k] = q0[k]
      /\ q1["auid"] = rctx.auid
      /\ q1["gcs"] = encodeGcs(rctx.consent)
      /\ q1["gcd"] = encodeGcd(rctx.consent, rctx.consentDefault)
      /\ q1["npa"] = encodeNpa(rctx.consent)
    BY <1>4 DEF CollectShape
<1>7. /\ DOMAIN q0 \ (Identifiers \cup ConsentParams) = {"tid", "en", "dl", "dt"}
      /\ DOMAIN q1 \ (Identifiers \cup ConsentParams) = {"tid", "en", "dl", "dt"}
      /\ {"auid"} \cup ConsentParams \subseteq DOMAIN q1
    BY <1>4, <1>5 DEF Identifiers, ConsentParams, CLICK_ID_PARAMS
<1>8. \A k \in DOMAIN q1 \ (Identifiers \cup ConsentParams) : q1[k] = q0[k]
    BY <1>4, <1>5, <1>7
<1>9. \A p \in CLICK_ID_PARAMS \cap DOMAIN q1 : q1[p] = Omitted
    BY <1>5 DEF CLICK_ID_PARAMS
<1>10. ReleasedUnder(request, released, now, config.consentDefault, cookie)
    BY <1>1, <1>5, <1>6, <1>7, <1>8, <1>9, Remaps
<1> QED
    BY <1>10 DEF request, released

LEMMA ActivityRemapped ==
    ASSUME NEW event, NEW config, NEW ctx, NEW now, NEW cookie, now # Omitted
    PROVE  ReleasedUnder(mapToDcActivity(event, config, ctx),
                         floodlightRemap(event, config, now, cookie, "activity"), now,
                         config.consentDefault, cookie)
<1> DEFINE rctx == RemapCtx(config, now, cookie)
           q0 == ActivityParams(config, ctx)
           q1 == ActivityParams(config, rctx)
           request == mapToDcActivity(event, config, ctx)
           released == mapToDcActivity(event, config, rctx)
<1>1. /\ rctx.auid = IF State(now, "ad_storage") = "granted"
                     THEN parseGclAuId(cookie) ELSE Omitted
      /\ rctx.consent = now /\ rctx.consentDefault = config.consentDefault
    BY RemapReads
<1>2. released = floodlightRemap(event, config, now, cookie, "activity")
    BY DEF floodlightRemap
<1> HIDE DEF rctx
<1>3. ASSUME NEW c
      PROVE  LET q == ActivityParams(config, c) IN
             /\ DOMAIN q = {"src", "type", "cat", "npa", "gcs", "gcd", "auid"}
             /\ q["src"] = config.src /\ q["type"] = config.activityType /\ q["cat"] = config.cat
             /\ q["auid"] = c.auid
             /\ q["gcs"] = encodeGcs(c.consent)
             /\ q["gcd"] = encodeGcd(c.consent, c.consentDefault)
             /\ q["npa"] = encodeNpa(c.consent)
    BY DEF ActivityParams, Signals
<1>4. /\ DOMAIN q0 = {"src", "type", "cat", "npa", "gcs", "gcd", "auid"}
      /\ q0["src"] = config.src /\ q0["type"] = config.activityType /\ q0["cat"] = config.cat
    BY <1>3
<1>5. /\ DOMAIN q1 = {"src", "type", "cat", "npa", "gcs", "gcd", "auid"}
      /\ q1["src"] = config.src /\ q1["type"] = config.activityType /\ q1["cat"] = config.cat
      /\ q1["auid"] = rctx.auid
      /\ q1["gcs"] = encodeGcs(rctx.consent)
      /\ q1["gcd"] = encodeGcd(rctx.consent, rctx.consentDefault)
      /\ q1["npa"] = encodeNpa(rctx.consent)
    BY <1>3
<1>6. /\ Carried(request) = Given(q0) /\ Carried(released) = Given(q1)
      /\ released.endpoint = request.endpoint
    BY CarriedInPath
<1> HIDE DEF q0, q1, request, released
<1>7. /\ DOMAIN q0 \ (Identifiers \cup ConsentParams) = {"src", "type", "cat"}
      /\ DOMAIN q1 \ (Identifiers \cup ConsentParams) = {"src", "type", "cat"}
      /\ {"auid"} \cup ConsentParams \subseteq DOMAIN q1
    BY <1>4, <1>5 DEF Identifiers, ConsentParams, CLICK_ID_PARAMS
<1>8. \A k \in DOMAIN q1 \ (Identifiers \cup ConsentParams) : q1[k] = q0[k]
    BY <1>4, <1>5, <1>7
<1>9. \A p \in CLICK_ID_PARAMS \cap DOMAIN q1 : q1[p] = Omitted
    BY <1>5 DEF CLICK_ID_PARAMS
<1>10. ReleasedUnder(request, released, now, config.consentDefault, cookie)
    BY <1>1, <1>5, <1>6, <1>7, <1>8, <1>9, Remaps
<1> QED
    BY <1>2, <1>10 DEF request
-----------------------------------------------------------------------------
(* What was held of an event, and what its release makes of it.            *)
Held(entry, consent, consentDefault, page, event) ==
    Requests(entry, consent, consentDefault, page, event)

Anew(entry, event, k, consentDefault, now, cookie) ==
    IF entry.type = "google-ads"
    THEN googleAdsRemap(event, ConnectorConfig(entry, consentDefault), now, cookie)
    ELSE floodlightRemap(event, ConnectorConfig(entry, consentDefault), now, cookie, RemapKey(k))

LEMMA GoogleConfig ==
    ASSUME NEW entry, NEW consentDefault, entry.type \in {"google-ads", "floodlight"}
    PROVE  ConnectorConfig(entry, consentDefault).consentDefault = consentDefault
<1>1. CASE entry.type = "google-ads"
    BY <1>1 DEF ConnectorConfig
<1>2. CASE entry.type = "floodlight"
    BY <1>2 DEF ConnectorConfig
<1> QED
    BY <1>1, <1>2

LEMMA GoogleCtx ==
    ASSUME NEW entry, NEW consent, NEW consentDefault, NEW page,
           entry.type \in {"google-ads", "floodlight"}
    PROVE  DOMAIN Ctx(entry, consent, consentDefault, page).clicks = CLICK_ID_PARAMS
<1>1. ASSUME NEW cookie, NEW landing, NEW granted
      PROVE  DOMAIN WithConsent(sourceGoogleAdsCtx(cookie, landing, granted),
                                consent, consentDefault).clicks = CLICK_ID_PARAMS
    BY DEF WithConsent, sourceGoogleAdsCtx, readClickIds
<1>2. Ctx(entry, consent, consentDefault, page) =
        WithConsent(sourceGoogleAdsCtx(page.cookie, page.landing,
                                       StorageGranted(consent, "ad_storage")),
                    consent, consentDefault)
    BY DEF Ctx
<1> QED
    BY <1>1, <1>2

LEMMA OneOrTwo ==
    ASSUME NEW a, NEW b
    PROVE  <<a>> \o <<>> = <<a>> /\ <<a>> \o <<b>> = <<a, b>>
<1> DEFINE S == {a, b}
<1>1. <<a>> \in Seq(S) /\ <<b>> \in Seq(S) /\ <<>> \in Seq(S)
    OBVIOUS
<1>2. <<a>> \o <<>> = <<a>>
    BY <1>1
<1>3. Len(<<a>> \o <<b>>) = 2 /\ (<<a>> \o <<b>>)[1] = a /\ (<<a>> \o <<b>>)[2] = b
    BY <1>1
<1>4. <<a>> \o <<b>> \in Seq(S)
    BY <1>1
<1>5. <<a, b>> \in Seq(S) /\ Len(<<a, b>>) = 2 /\ <<a, b>>[1] = a /\ <<a, b>>[2] = b
    OBVIOUS
<1> DEFINE s == <<a>> \o <<b>>
           t == <<a, b>>
<1> HIDE DEF S, s, t
<1>6. s \in Seq(S) /\ t \in Seq(S) /\ Len(s) = Len(t) /\ \A i \in 1..Len(s) : s[i] = t[i]
  <2>1. s \in Seq(S) /\ t \in Seq(S) /\ Len(s) = 2 /\ Len(t) = 2
      BY <1>3, <1>4, <1>5 DEF s, t
  <2>2. s[1] = t[1] /\ s[2] = t[2]
      BY <1>3, <1>5 DEF s, t
  <2>3. \A i \in 1..2 : i = 1 \/ i = 2
      OBVIOUS
  <2> QED
      BY <2>1, <2>2, <2>3
<1>7. s = t
    BY <1>6
<1> QED
    BY <1>2, <1>7 DEF s, t

LEMMA ReleaseIsAsConsented ==
    ASSUME NEW entry, entry.type \in {"google-ads", "floodlight"},
           NEW consent, NEW consentDefault, NEW page, NEW event,
           NEW k \in DOMAIN Held(entry, consent, consentDefault, page, event),
           NEW now, now # Omitted, NEW cookie
    PROVE  ReleasedUnder(Held(entry, consent, consentDefault, page, event)[k],
                         Anew(entry, event, k, consentDefault, now, cookie),
                         now, consentDefault, cookie)
<1> DEFINE config == ConnectorConfig(entry, consentDefault)
           ctx == Ctx(entry, consent, consentDefault, page)
           requests == Held(entry, consent, consentDefault, page, event)
           released == Anew(entry, event, k, consentDefault, now, cookie)
<1>1. config.consentDefault = consentDefault
    BY GoogleConfig
<1>2. DOMAIN ctx.clicks = CLICK_ID_PARAMS
    BY GoogleCtx
<1>3. CASE entry.type = "google-ads"
  <2>1. requests = handleGoogleAds(event, config, ctx)
      BY <1>3 DEF Held, Requests
  <2>2. released = googleAdsRemap(event, config, now, cookie)
      BY <1>3 DEF Anew
  <2> HIDE DEF config, ctx, requests, released
  <2>3. k \in DOMAIN requests
      BY DEF requests
  <2>4. requests = <<mapToAwCollect(event, config, ctx)>>
      BY <2>1, <2>3 DEF handleGoogleAds
  <2>5. requests[k] = mapToAwCollect(event, config, ctx)
      BY <2>3, <2>4
  <2>6. ReleasedUnder(requests[k], released, now, consentDefault, cookie)
      BY <1>1, <1>2, <2>2, <2>5, AdsRemapped
  <2> QED
      BY <2>6 DEF requests, released
<1>4. CASE entry.type = "floodlight"
  <2>1. requests = handleFloodlight(event, config, ctx)
      BY <1>4 DEF Held, Requests
  <2>2. released = floodlightRemap(event, config, now, cookie, RemapKey(k))
      BY <1>4 DEF Anew
  <2> HIDE DEF config, ctx, requests, released
  <2>3. k \in DOMAIN requests
      BY DEF requests
  <2> DEFINE collect == mapToDcCollect(event, config, ctx)
             activity == mapToDcActivity(event, config, ctx)
  <2>4. requests = <<collect>> \/ requests = <<collect, activity>>
    <3>1. DOMAIN <<>> = {}
        OBVIOUS
    <3>2. <<collect>> \o <<>> = <<collect>> /\ <<collect>> \o <<activity>> = <<collect, activity>>
        BY OneOrTwo
    <3> QED
        BY <2>1, <2>3, <3>1, <3>2 DEF handleFloodlight
  <2> HIDE DEF collect, activity
  <2>5. \/ k = 1 /\ requests[k] = collect
        \/ k = 2 /\ requests[k] = activity
      BY <2>3, <2>4
  <2>6. CASE k = 1 /\ requests[k] = collect
    <3>1. released = floodlightRemap(event, config, now, cookie, "ccm")
        BY <2>2, <2>6 DEF RemapKey
    <3>2. ReleasedUnder(collect, released, now, config.consentDefault, cookie)
        BY <3>1, DcRemapped DEF collect
    <3> QED
        BY <1>1, <2>6, <3>2 DEF requests, released
  <2>7. CASE k = 2 /\ requests[k] = activity
    <3>1. released = floodlightRemap(event, config, now, cookie, "activity")
        BY <2>2, <2>7 DEF RemapKey
    <3>2. ReleasedUnder(activity, released, now, config.consentDefault, cookie)
        BY <3>1, ActivityRemapped DEF activity
    <3> QED
        BY <1>1, <2>7, <3>2 DEF requests, released
  <2> QED
      BY <2>5, <2>6, <2>7
<1> QED
    BY <1>3, <1>4

(* What a call is, tells the four apart.                                   *)
LEMMA CallsDiffer ==
    /\ \A requests : Coalesce(requests) => call'.of = "coalesce"
    /\ \A heap, denylist : Govern(heap, denylist) => call'.of = "govern"
    /\ \A entry, consent, consentDefault, page, event :
          Serve(entry, consent, consentDefault, page, event) => call'.of = "serve"
    /\ \A entry, event, request, k, consentDefault, now, cookie :
          Release(entry, event, request, k, consentDefault, now, cookie) => call'.of = "release"
BY DEF Coalesce, Govern, Serve, Release

(* A beacon released from the seal says the consent it is released under,  *)
(* carries the identifier that consent lets it read, and is otherwise the  *)
(* beacon that was held.                                                   *)
THEOREM ReleaseSaysConsent == MappersSpec => []ReleasedAsConsented
<1>1. MappersInit => ReleasedAsConsented
    BY DEF MappersInit, ReleasedAsConsented
<1>2. ReleasedAsConsented /\ [MappersNext]_mappersVars => ReleasedAsConsented'
  <2> SUFFICES ASSUME ReleasedAsConsented, [MappersNext]_mappersVars
               PROVE  ReleasedAsConsented'
      OBVIOUS
  <2>1. ASSUME NEW requests \in Batches, Coalesce(requests)
        PROVE  ReleasedAsConsented'
      BY <2>1, CallsDiffer DEF ReleasedAsConsented
  <2>2. ASSUME NEW heap \in Heaps, NEW denylist \in Denylists, Govern(heap, denylist)
        PROVE  ReleasedAsConsented'
      BY <2>2, CallsDiffer DEF ReleasedAsConsented
  <2>3. ASSUME NEW entry \in Remapped, NEW event \in MaterialEvents, NEW page \in Pages,
               NEW consent \in BootConsents, NEW consentDefault \in ConsentDefaults,
               NEW k \in DOMAIN Requests(entry, consent, consentDefault, page, event),
               NEW now \in Sending, NEW later \in Pages,
               Release(entry, event, Requests(entry, consent, consentDefault, page, event)[k], k,
                       consentDefault, now, later.cookie)
        PROVE  ReleasedAsConsented'
    <3> DEFINE request == Requests(entry, consent, consentDefault, page, event)[k]
    <3>1. entry.type \in {"google-ads", "floodlight"} /\ now # Omitted
        BY MappersAssumption DEF Remapped, Sending
    <3>2. ReleasedUnder(request, Anew(entry, event, k, consentDefault, now, later.cookie),
                        now, consentDefault, later.cookie)
        BY <3>1, ReleaseIsAsConsented DEF Held
    <3>3. out' = Anew(entry, event, k, consentDefault, now, later.cookie)
        BY <2>3 DEF Release, Anew
    <3>4. call' = [of |-> "release", request |-> request, consent |-> now,
                   consentDefault |-> consentDefault, cookie |-> later.cookie]
        BY <2>3 DEF Release
    <3> HIDE DEF request
    <3>5. /\ call'.request = request /\ call'.consent = now
          /\ call'.consentDefault = consentDefault /\ call'.cookie = later.cookie
        BY <3>4
    <3> QED
        BY <3>2, <3>3, <3>5 DEF ReleasedAsConsented
  <2>4. ASSUME NEW entry \in Entries, NEW consent \in BootConsents,
               NEW consentDefault \in ConsentDefaults, NEW page \in Pages,
               NEW event \in MaterialEvents, Serve(entry, consent, consentDefault, page, event)
        PROVE  ReleasedAsConsented'
      BY <2>4, CallsDiffer DEF ReleasedAsConsented
  <2>5. CASE UNCHANGED mappersVars
      BY <2>5 DEF mappersVars, ReleasedAsConsented
  <2> QED
      BY <2>1, <2>2, <2>3, <2>4, <2>5 DEF MappersNext
<1> QED
    BY <1>1, <1>2, PTL DEF MappersSpec
-----------------------------------------------------------------------------
(* What a connector sends of an event, all of it where it declared.        *)
Within(requests, endpoints) ==
    \A i \in DOMAIN requests : checkEndpointCeiling(requests[i], endpoints)

LEMMA NothingIsWithin == ASSUME NEW endpoints PROVE Within(<<>>, endpoints)
<1>1. DOMAIN <<>> = {}
    OBVIOUS
<1> QED
    BY <1>1 DEF Within

LEMMA OneIsWithin ==
    ASSUME NEW request, NEW endpoints, checkEndpointCeiling(request, endpoints)
    PROVE  Within(<<request>>, endpoints)
BY DEF Within

LEMMA BarePathIsIn ==
    ASSUME NEW endpoint, NEW query, NEW body, NEW endpoints, Declared(endpoint) \in endpoints
    PROVE  checkEndpointCeiling(Request(endpoint, <<>>, query, body), endpoints)
<1> DEFINE request == Request(endpoint, <<>>, query, body)
           declared == Declared(endpoint)
<1>1. request.endpoint = endpoint /\ request.matrix = <<>>
    BY DEF Request
<1>2. declared.endpoint = endpoint /\ declared.matrix = <<>>
    BY DEF Declared
<1> HIDE DEF request, declared
<1>3. checkEndpointCeiling(request, endpoints)
    BY <1>1, <1>2 DEF checkEndpointCeiling, declared
<1> QED
    BY <1>3 DEF request

(* An activity's path begins with the segment its endpoint is declared by. *)
LEMMA ActivityIsIn ==
    ASSUME NEW event, NEW config, NEW ctx, NEW endpoints, config.src # Omitted,
           deriveActivityCeilingEndpoint(config) \in endpoints
    PROVE  checkEndpointCeiling(mapToDcActivity(event, config, ctx), endpoints)
<1> DEFINE src == Segment("src", config.src)
           s2 == Segment("type", config.activityType)
           s3 == Segment("cat", config.cat)
           s4 == Segment("npa", Signals(ctx).npa)
           s5 == Segment("gcs", Signals(ctx).gcs)
           s6 == Segment("gcd", Signals(ctx).gcd)
           s7 == Segment("auiddc", ctx.auid)
           all == {<<"src", config.src>>, <<"type", config.activityType>>,
                   <<"cat", config.cat>>, <<"npa", Signals(ctx).npa>>,
                   <<"gcs", Signals(ctx).gcs>>, <<"gcd", Signals(ctx).gcd>>,
                   <<"auiddc", ctx.auid>>}
           m2 == src \o s2
           m3 == m2 \o s3
           m4 == m3 \o s4
           m5 == m4 \o s5
           m6 == m5 \o s6
           m7 == m6 \o s7
           request == mapToDcActivity(event, config, ctx)
           declared == deriveActivityCeilingEndpoint(config)
<1>1. request.matrix = m7 /\ request.endpoint = config.activityEndpoint
    BY DEF mapToDcActivity, Request
<1>2. declared.matrix = src /\ declared.endpoint = config.activityEndpoint
    BY DEF deriveActivityCeilingEndpoint
<1>3. ASSUME NEW name, NEW value, <<name, value>> \in all
      PROVE  Segment(name, value) \in Seq(all)
    BY <1>3, SegmentIn
<1>4. /\ src \in Seq(all) /\ s2 \in Seq(all) /\ s3 \in Seq(all) /\ s4 \in Seq(all)
      /\ s5 \in Seq(all) /\ s6 \in Seq(all) /\ s7 \in Seq(all)
    BY <1>3
<1>5. Len(src) = 1
    BY DEF Segment
<1> HIDE DEF src, s2, s3, s4, s5, s6, s7, m2, m3, m4, m5, m6, m7, all
<1>6. ASSUME NEW m \in Seq(all), NEW s \in Seq(all), Len(m) >= 1, m[1] = src[1]
      PROVE  m \o s \in Seq(all) /\ Len(m \o s) >= 1 /\ (m \o s)[1] = src[1]
    BY <1>6
<1>7. m2 \in Seq(all) /\ Len(m2) >= 1 /\ m2[1] = src[1]
    BY <1>4, <1>5, <1>6 DEF m2
<1>8. m3 \in Seq(all) /\ Len(m3) >= 1 /\ m3[1] = src[1]
    BY <1>4, <1>6, <1>7 DEF m3
<1>9. m4 \in Seq(all) /\ Len(m4) >= 1 /\ m4[1] = src[1]
    BY <1>4, <1>6, <1>8 DEF m4
<1>10. m5 \in Seq(all) /\ Len(m5) >= 1 /\ m5[1] = src[1]
    BY <1>4, <1>6, <1>9 DEF m5
<1>11. m6 \in Seq(all) /\ Len(m6) >= 1 /\ m6[1] = src[1]
    BY <1>4, <1>6, <1>10 DEF m6
<1>12. m7 \in Seq(all) /\ Len(m7) >= 1 /\ m7[1] = src[1]
    BY <1>4, <1>6, <1>11 DEF m7
<1>13. IsPrefix(src, m7)
  <2>1. SubSeq(src, 1, 1) \in Seq(all) /\ SubSeq(m7, 1, 1) \in Seq(all)
      BY <1>4, <1>5, <1>12
  <2>2. /\ Len(SubSeq(src, 1, 1)) = 1 /\ SubSeq(src, 1, 1)[1] = src[1]
        /\ Len(SubSeq(m7, 1, 1)) = 1 /\ SubSeq(m7, 1, 1)[1] = m7[1]
      BY <1>4, <1>5, <1>12
  <2> DEFINE s == SubSeq(src, 1, 1)
             t == SubSeq(m7, 1, 1)
  <2> HIDE DEF s, t
  <2>3. s \in Seq(all) /\ t \in Seq(all) /\ Len(s) = 1 /\ Len(t) = 1 /\ s[1] = t[1]
      BY <1>12, <2>1, <2>2 DEF s, t
  <2>4. s = t
      BY <2>3
  <2> QED
      BY <1>5, <1>12, <2>4 DEF IsPrefix, s, t
<1>14. src # <<>>
    BY <1>5
<1> HIDE DEF request, declared
<1>15. checkEndpointCeiling(request, endpoints)
    BY <1>1, <1>2, <1>13, <1>14 DEF checkEndpointCeiling, declared
<1> QED
    BY <1>15 DEF request
-----------------------------------------------------------------------------
(* What a boot makes of an entry: a connector's config, the endpoints it   *)
(* declares, the events routed to it, and the requests of one event.       *)
Sent(entry, consent, consentDefault, page, event) ==
    Requests(entry, consent, consentDefault, page, event)

Allowed(entry, consentDefault) == Endpoints(entry.type, ConnectorConfig(entry, consentDefault))

Routed(entry, consentDefault, event) ==
    acceptsEvent(Events(entry.type, ConnectorConfig(entry, consentDefault)), event.type)

(* The three things said of each connector, once its entry is valid.       *)
SendsInside(entry, consent, consentDefault, page, event) ==
    Within(Sent(entry, consent, consentDefault, page, event), Allowed(entry, consentDefault))

PassesBy(entry, consent, consentDefault, page, event) ==
    ~Routed(entry, consentDefault, event) =>
        Sent(entry, consent, consentDefault, page, event) = <<>>

Answers(entry, consent, consentDefault, page, event) ==
    Routed(entry, consentDefault, event)
      /\ Sent(entry, consent, consentDefault, page, event) = <<>> =>
        entry.type = "ga4"
          /\ (event.type = "purchase" \/ DOMAIN ConnectorConfig(entry, consentDefault).endpoints = {})

LEMMA Ga4Serves ==
    ASSUME NEW entry, entry.type = "ga4", NEW consent, NEW consentDefault, NEW page, NEW event
    PROVE  /\ SendsInside(entry, consent, consentDefault, page, event)
           /\ PassesBy(entry, consent, consentDefault, page, event)
           /\ Answers(entry, consent, consentDefault, page, event)
<1> DEFINE config == ConnectorConfig(entry, consentDefault)
           ctx == Ctx(entry, consent, consentDefault, page)
           mapped == [t \in DOMAIN config.endpoints |->
                        Request(config.endpoints[t], <<>>, <<>>, mapToMp(event, ctx))]
           sent == Sent(entry, consent, consentDefault, page, event)
           allowed == {Declared(config.endpoints[i]) : i \in DOMAIN config.endpoints}
<1>1. Allowed(entry, consentDefault) = allowed
    BY DEF Allowed, Endpoints
<1>2. Routed(entry, consentDefault, event)
    BY DEF Routed, Events, acceptsEvent
<1>3. sent = handleGa4(event, config, ctx)
    BY DEF Sent, Requests
<1> HIDE DEF config, ctx
<1>4. Within(mapped, allowed)
  <2> SUFFICES ASSUME NEW t \in DOMAIN config.endpoints
               PROVE  checkEndpointCeiling(Request(config.endpoints[t], <<>>, <<>>,
                                                   mapToMp(event, ctx)), allowed)
      BY DEF Within
  <2>1. Declared(config.endpoints[t]) \in allowed
      OBVIOUS
  <2> HIDE DEF allowed
  <2> QED
      BY <2>1, BarePathIsIn
<1>5. sent = <<>> \/ sent = mapped
    BY <1>3 DEF handleGa4
<1>6. sent = <<>> => event.type = "purchase" \/ mapped = <<>>
    BY <1>3 DEF handleGa4
<1>7. Within(sent, allowed)
  <2> HIDE DEF mapped, sent, allowed
  <2> QED
      BY <1>4, <1>5, NothingIsWithin
<1>8. ASSUME mapped = <<>>
      PROVE  DOMAIN config.endpoints = {}
  <2>1. DOMAIN mapped = DOMAIN config.endpoints
      OBVIOUS
  <2>2. DOMAIN <<>> = {}
      OBVIOUS
  <2> QED
      BY <1>8, <2>1, <2>2
<1> QED
    BY <1>1, <1>2, <1>6, <1>7, <1>8 DEF SendsInside, PassesBy, Answers, config

LEMMA GtagServes ==
    ASSUME NEW entry, entry.type = "ga4-gtag", NEW consent, NEW consentDefault, NEW page, NEW event
    PROVE  /\ SendsInside(entry, consent, consentDefault, page, event)
           /\ PassesBy(entry, consent, consentDefault, page, event)
           /\ Answers(entry, consent, consentDefault, page, event)
<1> DEFINE config == ConnectorConfig(entry, consentDefault)
           ctx == Ctx(entry, consent, consentDefault, page)
           sent == Sent(entry, consent, consentDefault, page, event)
           allowed == {Declared(config.endpoint)}
<1>1. Allowed(entry, consentDefault) = allowed
    BY DEF Allowed, Endpoints
<1>2. Routed(entry, consentDefault, event)
    BY DEF Routed, Events, acceptsEvent
<1>3. sent = handleGa4Gtag(event, config, ctx)
    BY DEF Sent, Requests
<1> HIDE DEF config, ctx, sent
<1>4. PICK query : sent = <<Request(config.endpoint, <<>>, query, <<>>)>>
    BY <1>3 DEF handleGa4Gtag
<1>5. checkEndpointCeiling(Request(config.endpoint, <<>>, query, <<>>), allowed)
  <2>1. Declared(config.endpoint) \in allowed
      OBVIOUS
  <2> QED
      BY <2>1, BarePathIsIn
<1>6. Within(sent, allowed)
    BY <1>4, <1>5, OneIsWithin
<1>7. sent # <<>>
    BY <1>4
<1> QED
    BY <1>1, <1>2, <1>6, <1>7 DEF SendsInside, PassesBy, Answers, sent

LEMMA AdsServe ==
    ASSUME NEW entry, entry.type = "google-ads", NEW consent, NEW consentDefault, NEW page, NEW event
    PROVE  /\ SendsInside(entry, consent, consentDefault, page, event)
           /\ PassesBy(entry, consent, consentDefault, page, event)
           /\ Answers(entry, consent, consentDefault, page, event)
<1> DEFINE config == ConnectorConfig(entry, consentDefault)
           ctx == Ctx(entry, consent, consentDefault, page)
           sent == Sent(entry, consent, consentDefault, page, event)
           allowed == {Declared(config.endpoint)}
<1>1. Allowed(entry, consentDefault) = allowed
    BY DEF Allowed, Endpoints
<1>2. Routed(entry, consentDefault, event) <=> event.type = "page_view"
    BY DEF Routed, Events, acceptsEvent
<1>3. sent = handleGoogleAds(event, config, ctx)
    BY DEF Sent, Requests
<1> HIDE DEF config, ctx, sent
<1>4. CASE event.type # "page_view"
  <2>1. sent = <<>>
      BY <1>3, <1>4 DEF handleGoogleAds
  <2>2. Within(sent, allowed)
      BY <2>1, NothingIsWithin
  <2> QED
      BY <1>1, <1>2, <1>4, <2>1, <2>2 DEF SendsInside, PassesBy, Answers, sent
<1>5. CASE event.type = "page_view"
  <2>1. PICK query : sent = <<Get(config.endpoint, query)>>
      BY <1>3, <1>5 DEF handleGoogleAds, mapToAwCollect
  <2>2. checkEndpointCeiling(Get(config.endpoint, query), allowed)
    <3>1. Declared(config.endpoint) \in allowed
        OBVIOUS
    <3> QED
        BY <3>1, BarePathIsIn DEF Get
  <2>3. Within(sent, allowed) /\ sent # <<>>
      BY <2>1, <2>2, OneIsWithin
  <2> QED
      BY <1>1, <1>2, <1>5, <2>3 DEF SendsInside, PassesBy, Answers, sent
<1> QED
    BY <1>4, <1>5

LEMMA FloodlightServes ==
    ASSUME NEW entry, entry.type = "floodlight", NEW consent, NEW consentDefault, NEW page, NEW event
    PROVE  /\ SendsInside(entry, consent, consentDefault, page, event)
           /\ PassesBy(entry, consent, consentDefault, page, event)
           /\ Answers(entry, consent, consentDefault, page, event)
<1> DEFINE config == ConnectorConfig(entry, consentDefault)
           ctx == Ctx(entry, consent, consentDefault, page)
           sent == Sent(entry, consent, consentDefault, page, event)
           allowed == Allowed(entry, consentDefault)
           collect == mapToDcCollect(event, config, ctx)
           activity == mapToDcActivity(event, config, ctx)
<1>1. allowed = {Declared(config.endpoint)} \cup
                  IF hasActivityIdentity(config) THEN {deriveActivityCeilingEndpoint(config)} ELSE {}
    BY DEF Allowed, Endpoints
<1>2. Routed(entry, consentDefault, event) <=> event.type = "page_view"
    BY DEF Routed, Events, acceptsEvent
<1>3. sent = handleFloodlight(event, config, ctx)
    BY DEF Sent, Requests
<1> HIDE DEF config, ctx, sent, allowed
<1>4. CASE event.type # "page_view"
  <2>1. sent = <<>>
      BY <1>3, <1>4 DEF handleFloodlight
  <2>2. Within(sent, allowed)
      BY <2>1, NothingIsWithin
  <2> QED
      BY <1>2, <1>4, <2>1, <2>2 DEF SendsInside, PassesBy, Answers, sent, allowed
<1>5. CASE event.type = "page_view"
  <2>1. checkEndpointCeiling(collect, allowed)
    <3>1. Declared(config.endpoint) \in allowed
        BY <1>1
    <3> QED
        BY <3>1, BarePathIsIn DEF mapToDcCollect, Get
  <2>2. CASE hasActivityIdentity(config)
    <3>1. sent = <<collect, activity>>
        BY <1>3, <1>5, <2>2, OneOrTwo DEF handleFloodlight
    <3>2. deriveActivityCeilingEndpoint(config) \in allowed /\ config.src # Omitted
        BY <1>1, <2>2 DEF hasActivityIdentity
    <3>3. checkEndpointCeiling(activity, allowed)
        BY <3>2, ActivityIsIn
    <3> HIDE DEF collect, activity
    <3>4. Within(<<collect, activity>>, allowed) /\ sent # <<>>
        BY <2>1, <3>1, <3>3 DEF Within
    <3> QED
        BY <1>2, <1>5, <3>1, <3>4 DEF SendsInside, PassesBy, Answers, sent, allowed
  <2>3. CASE ~hasActivityIdentity(config)
    <3>1. sent = <<collect>>
        BY <1>3, <1>5, <2>3, OneOrTwo DEF handleFloodlight
    <3> HIDE DEF collect
    <3>2. Within(<<collect>>, allowed) /\ sent # <<>>
        BY <2>1, <3>1, OneIsWithin
    <3> QED
        BY <1>2, <1>5, <3>1, <3>2 DEF SendsInside, PassesBy, Answers, sent, allowed
  <2> QED
      BY <2>2, <2>3
<1> QED
    BY <1>4, <1>5

LEMMA PixelServes ==
    ASSUME NEW entry, entry.type = "pixel", entry.vendor \in DOMAIN PIXEL_REQUIRED_ID,
           NEW consent, NEW consentDefault, NEW page, NEW event
    PROVE  /\ SendsInside(entry, consent, consentDefault, page, event)
           /\ PassesBy(entry, consent, consentDefault, page, event)
           /\ Answers(entry, consent, consentDefault, page, event)
<1> DEFINE config == ConnectorConfig(entry, consentDefault)
           sent == Sent(entry, consent, consentDefault, page, event)
           allowed == {Declared(config.endpoint)}
<1>1. Allowed(entry, consentDefault) = allowed
    BY DEF Allowed, Endpoints
<1>2. Events("pixel", config) = DOMAIN config.eventMap
    BY DEF Events
<1>3. "*" \notin DOMAIN config.eventMap
  <2>1. config = PixelConfig(entry)
      BY DEF ConnectorConfig
  <2>2. /\ \A id, endpoint : DOMAIN createMetaPixelConfig(id, endpoint).eventMap
                               = {"page_view", "lead"}
        /\ \A id, conversion, endpoint :
              DOMAIN createLinkedInInsightConfig(id, conversion, endpoint).eventMap
                = {"page_view", "lead"}
        /\ \A id, endpoint : DOMAIN createBingUetConfig(id, endpoint).eventMap
                               = {"page_view", "lead"}
      BY DEF createMetaPixelConfig, createLinkedInInsightConfig, createBingUetConfig
  <2>3. entry.vendor \in {"meta", "linkedin", "bing"}
      BY DEF PIXEL_REQUIRED_ID
  <2>4. DOMAIN PixelConfig(entry).eventMap = {"page_view", "lead"}
    <3>1. CASE entry.vendor = "meta"
        BY <2>2, <3>1 DEF PixelConfig
    <3>2. CASE entry.vendor = "linkedin"
        BY <2>2, <3>2 DEF PixelConfig
    <3>3. CASE entry.vendor = "bing"
        BY <2>2, <3>3 DEF PixelConfig
    <3> QED
        BY <2>3, <3>1, <3>2, <3>3
  <2> QED
      BY <2>1, <2>4
<1>4. Routed(entry, consentDefault, event) <=> event.type \in DOMAIN config.eventMap
    BY <1>2, <1>3 DEF Routed, acceptsEvent
<1>5. sent = handlePixel(event, config)
    BY DEF Sent, Requests
<1> HIDE DEF config, sent
<1>6. CASE event.type \notin DOMAIN config.eventMap
  <2>1. sent = <<>>
      BY <1>5, <1>6 DEF handlePixel
  <2>2. Within(sent, allowed)
      BY <2>1, NothingIsWithin
  <2> QED
      BY <1>1, <1>4, <1>6, <2>1, <2>2 DEF SendsInside, PassesBy, Answers, sent
<1>7. CASE event.type \in DOMAIN config.eventMap
  <2>1. PICK query : sent = <<Get(config.endpoint, query)>>
      BY <1>5, <1>7 DEF handlePixel
  <2>2. checkEndpointCeiling(Get(config.endpoint, query), allowed)
    <3>1. Declared(config.endpoint) \in allowed
        OBVIOUS
    <3> QED
        BY <3>1, BarePathIsIn DEF Get
  <2>3. Within(sent, allowed) /\ sent # <<>>
      BY <2>1, <2>2, OneIsWithin
  <2> QED
      BY <1>1, <1>4, <1>7, <2>3 DEF SendsInside, PassesBy, Answers, sent
<1> QED
    BY <1>6, <1>7

(* helix-rum's two sides name one URL: a weight is resolved but once.      *)
LEMMA HelixSends ==
    ASSUME NEW entry, entry.type = "helix-rum",
           entry.weight = Omitted \/ entry.weight \in Nat,
           NEW consent, NEW consentDefault, NEW page, NEW event
    PROVE  SendsInside(entry, consent, consentDefault, page, event)
<1> DEFINE config == ConnectorConfig(entry, consentDefault)
           sent == Sent(entry, consent, consentDefault, page, event)
           url == rumUrl(config.collectBaseURL, config.weight)
<1>1. Allowed(entry, consentDefault) = {Declared(url)}
    BY DEF Allowed, Endpoints
<1>2. sent = handleHelixRum(event, config)
    BY DEF Sent, Requests
<1>3. config.weight = resolveWeight(entry.rate, entry.weight)
    BY DEF ConnectorConfig
<1>4. resolveWeight(entry.rate, entry.weight) \in Nat
  <2>1. CASE entry.weight # Omitted
      BY <2>1 DEF resolveWeight
  <2>2. CASE entry.weight = Omitted /\ entry.rate \in DOMAIN RATE_WEIGHTS
    <3>1. \A r \in DOMAIN RATE_WEIGHTS : RATE_WEIGHTS[r] \in Nat
        BY DEF RATE_WEIGHTS
    <3>2. resolveWeight(entry.rate, entry.weight) = RATE_WEIGHTS[entry.rate]
        BY <2>2 DEF resolveWeight
    <3> QED
        BY <2>2, <3>1, <3>2
  <2>3. CASE entry.weight = Omitted /\ entry.rate \notin DOMAIN RATE_WEIGHTS
    <3>1. resolveWeight(entry.rate, entry.weight) = RATE_WEIGHTS["medium"]
        BY <2>3 DEF resolveWeight
    <3> QED
        BY <3>1 DEF RATE_WEIGHTS
  <2> QED
      BY <2>1, <2>2, <2>3
<1>5. config.weight # Omitted
    BY <1>3, <1>4, OmittedAssumption
<1> HIDE DEF config, sent
<1>6. resolveWeight(Omitted, config.weight) = config.weight
    BY <1>5 DEF resolveWeight
<1>7. PICK body : sent = <<Request(url, <<>>, <<>>, body)>>
    BY <1>2, <1>6 DEF handleHelixRum
<1>8. checkEndpointCeiling(Request(url, <<>>, <<>>, body), {Declared(url)})
  <2>1. Declared(url) \in {Declared(url)}
      OBVIOUS
  <2> QED
      BY <2>1, BarePathIsIn
<1>9. Within(sent, {Declared(url)})
    BY <1>7, <1>8, OneIsWithin
<1> QED
    BY <1>1, <1>9 DEF SendsInside, sent

(* A valid entry boots, but for a collector whose base is no URL.          *)
LEMMA ValidBoots ==
    ASSUME NEW entry, validateConnectorEntry(entry), boot(<<>>, <<entry>>).threw
    PROVE  entry.collectBaseURL = BadUrl
<1>1. validateConfig(<<>>)
  <2>1. DOMAIN <<>> = {}
      OBVIOUS
  <2> QED
      BY <2>1 DEF validateConfig
<1>2. boot(<<>>, <<entry>>) = bootConnectors(<<entry>>)
    BY <1>1 DEF boot
<1>3. PICK i \in DOMAIN <<entry>> :
        ~validateConnectorEntry(<<entry>>[i]) \/ BootThrows(<<entry>>[i])
  <2>1. ASSUME ~\E i \in DOMAIN <<entry>> :
                  ~validateConnectorEntry(<<entry>>[i]) \/ BootThrows(<<entry>>[i])
        PROVE  bootConnectors(<<entry>>) = [threw |-> FALSE, live |-> <<entry>>]
      BY <2>1 DEF bootConnectors
  <2>2. [threw |-> FALSE, live |-> <<entry>>].threw = FALSE
      OBVIOUS
  <2> QED
      BY <1>2, <2>1, <2>2
<1>4. BootThrows(entry)
  <2>1. i = 1 /\ <<entry>>[i] = entry
      OBVIOUS
  <2> QED
      BY <1>3, <2>1
<1>5. ~(entry.type = "alloy" /\ ~(Text(entry.bundleUrl) /\ Text(DatastreamId(entry))))
    BY DEF validateConnectorEntry
<1>6. ~(entry.type = "pixel" /\ entry.vendor \notin DOMAIN PIXEL_REQUIRED_ID)
    BY DEF validateConnectorEntry
<1>7. Or(entry.collectBaseURL, Defaults["helix-rum"]) = BadUrl
    BY <1>4, <1>5, <1>6 DEF BootThrows
<1> QED
    BY <1>7, DefaultsAssumption DEF Or

LEMMA SentWhenRouted ==
    ASSUME NEW entry, NEW consent, NEW consentDefault, NEW page, NEW event
    PROVE  Served(entry, consent, consentDefault, page, event)
             = IF Routed(entry, consentDefault, event) /\ Selectable(entry)
               THEN Sent(entry, consent, consentDefault, page, event) ELSE <<>>
BY DEF Served, Routed, Sent

LEMMA ValidIsServed ==
    ASSUME NEW entry, NEW consent, NEW consentDefault, NEW page, NEW event
    PROVE  ServedAsDeclared(entry, consent, consentDefault, page, event)
<1> DEFINE config == ConnectorConfig(entry, consentDefault)
           served == Served(entry, consent, consentDefault, page, event)
           sent == Sent(entry, consent, consentDefault, page, event)
           allowed == Allowed(entry, consentDefault)
<1>1. CASE ~validateConnectorEntry(entry)
    BY <1>1 DEF ServedAsDeclared
<1>2. CASE validateConnectorEntry(entry)
  <2>1. boot(<<>>, <<entry>>).threw => entry.collectBaseURL = BadUrl
      BY <1>2, ValidBoots
  <2>2. entry.type \in KNOWN_CONNECTOR_TYPES
      BY <1>2 DEF validateConnectorEntry
  <2>3. entry.type \notin {"helix-rum", "alloy"} =>
          /\ SendsInside(entry, consent, consentDefault, page, event)
          /\ PassesBy(entry, consent, consentDefault, page, event)
          /\ Answers(entry, consent, consentDefault, page, event)
    <3>1. entry.type = "pixel" => entry.vendor \in DOMAIN PIXEL_REQUIRED_ID
        BY <1>2 DEF validateConnectorEntry
    <3> QED
        BY <2>2, <3>1, Ga4Serves, GtagServes, AdsServe, FloodlightServes, PixelServes
           DEF KNOWN_CONNECTOR_TYPES
  <2>4. Within(sent, allowed)
    <3>1. CASE entry.type \notin {"helix-rum", "alloy"}
        BY <2>3, <3>1 DEF SendsInside
    <3>2. CASE entry.type = "helix-rum"
      <4>1. entry.weight = Omitted \/ entry.weight \in Nat
          BY <1>2, <3>2 DEF validateConnectorEntry
      <4> QED
          BY <3>2, <4>1, HelixSends DEF SendsInside
    <3>3. CASE entry.type = "alloy"
      <4>1. sent = <<>>
          BY <3>3 DEF Sent, Requests
      <4> QED
          BY <4>1, NothingIsWithin
    <3> QED
        BY <3>1, <3>2, <3>3
  <2>5. served = IF Routed(entry, consentDefault, event) /\ Selectable(entry) THEN sent ELSE <<>>
      BY SentWhenRouted
  <2>6. Within(served, allowed)
    <3> HIDE DEF served, sent, allowed
    <3> QED
        BY <2>4, <2>5, NothingIsWithin
  <2>7. entry.type \notin {"helix-rum", "alloy"} =>
          /\ sent = served
          /\ Routed(entry, consentDefault, event) /\ served = <<>> =>
               entry.type = "ga4" /\ (event.type = "purchase" \/ DOMAIN config.endpoints = {})
    <3> SUFFICES ASSUME entry.type \notin {"helix-rum", "alloy"}
                 PROVE  /\ sent = served
                        /\ Routed(entry, consentDefault, event) /\ served = <<>> =>
                             entry.type = "ga4"
                               /\ (event.type = "purchase" \/ DOMAIN config.endpoints = {})
        OBVIOUS
    <3>1. Selectable(entry)
        BY DEF Selectable
    <3>2. ~Routed(entry, consentDefault, event) => sent = <<>>
        BY <2>3 DEF PassesBy
    <3>3. Routed(entry, consentDefault, event) /\ sent = <<>> =>
            entry.type = "ga4" /\ (event.type = "purchase" \/ DOMAIN config.endpoints = {})
        BY <2>3 DEF Answers
    <3> HIDE DEF served, sent, allowed, config
    <3>4. sent = served
        BY <2>5, <3>1, <3>2
    <3> QED
        BY <3>3, <3>4
  <2>8. \A i \in DOMAIN served :
          checkEndpointCeiling(served[i], Endpoints(entry.type, config))
      BY <2>6 DEF Within, Allowed
  <2>9. entry.type \notin {"helix-rum", "alloy"} =>
          /\ Requests(entry, consent, consentDefault, page, event) = served
          /\ acceptsEvent(Events(entry.type, config), event.type) /\ served = <<>> =>
               entry.type = "ga4" /\ (event.type = "purchase" \/ DOMAIN config.endpoints = {})
      BY <2>7 DEF Sent, Routed
  <2> QED
      BY <1>2, <2>1, <2>8, <2>9 DEF ServedAsDeclared
<1> QED
    BY <1>1, <1>2

(* A connector whose entry the validation lets through boots, sends only   *)
(* where the host declared, and is routed exactly the events it has        *)
(* something to say about.                                                 *)
THEOREM AcceptedConfigServes == MappersSpec => []AcceptedIsServed
<1>1. MappersInit => AcceptedIsServed
    BY DEF MappersInit, AcceptedIsServed
<1>2. AcceptedIsServed /\ [MappersNext]_mappersVars => AcceptedIsServed'
    BY ValidIsServed DEF AcceptedIsServed
<1> QED
    BY <1>1, <1>2, PTL DEF MappersSpec
-----------------------------------------------------------------------------
(* Induction, as the least element of a set of numbers.                    *)
Smaller == {p \in Nat \X Nat : p[1] < p[2]}

LEMMA LeastOf ==
    ASSUME NEW T \in SUBSET Nat, T # {}
    PROVE  \E x \in T : \A y \in T : x <= y
<1>1. WF!OpToRel(<, Nat) = Smaller
    BY DEF WF!OpToRel, Smaller
<1>2. WF!IsWellFoundedOn(Smaller, Nat)
    BY WF!NatLessThanWellFounded, <1>1
<1>3. PICK x \in T : \A y \in T : ~(<<y, x>> \in Smaller)
    BY <1>2, WF!WFMin
<1>4. ASSUME NEW y \in T
      PROVE  x <= y
  <2>1. x \in Nat /\ y \in Nat
      OBVIOUS
  <2>2. ~(y < x)
      BY <1>3, <2>1 DEF Smaller
  <2> QED
      BY <2>1, <2>2
<1> QED
    BY <1>4

FirstLevel(value) == {[path |-> <<>>, value |-> value]}

NextLevel(heap, rs) == UNION {Further(heap, r) : r \in rs}

(* What is folded here, by name: one existence proof serves all.           *)
Keep(name, kept, field) == IF field.name = name THEN kept ELSE Append(kept, field)

Taken(fold, name, s, item) ==
    CASE fold = "fields" -> StripField(s, item)
      [] fold = "paths" -> stripDottedPath(s, item)
      [] fold = "descend" -> Descend(s, item)
      [] fold = "clone" -> CloneAncestor(s, item)
      [] fold = "keep" -> Keep(name, s, item)
      [] fold = "read" -> NextLevel(item, s)
      [] fold = "at" -> IF item.chosen THEN Append(s, item.of) ELSE s
      [] fold = "total" -> s + item
      [] fold = "add" -> AddItem(s, item)
      [] fold = "flatten" -> s \o item

LEMMA TakenIs ==
    ASSUME NEW name, NEW s, NEW item
    PROVE  /\ Taken("fields", name, s, item) = StripField(s, item)
           /\ Taken("paths", name, s, item) = stripDottedPath(s, item)
           /\ Taken("descend", name, s, item) = Descend(s, item)
           /\ Taken("clone", name, s, item) = CloneAncestor(s, item)
           /\ Taken("keep", name, s, item) = Keep(name, s, item)
           /\ Taken("read", name, s, item) = NextLevel(item, s)
           /\ Taken("at", name, s, item) = IF item.chosen THEN Append(s, item.of) ELSE s
           /\ Taken("total", name, s, item) = s + item
           /\ Taken("add", name, s, item) = AddItem(s, item)
           /\ Taken("flatten", name, s, item) = s \o item
BY DEF Taken

UpTo(f, fold, name, start, items, n) ==
    f = [k \in 0..n |-> IF k = 0 THEN start ELSE Taken(fold, name, f[k - 1], items[k])]

LEMMA UpToExists ==
    ASSUME NEW fold, NEW name, NEW start, NEW items, NEW m \in Nat
    PROVE  \E f : UpTo(f, fold, name, start, items, m)
<1> DEFINE T == {n \in Nat : ~\E f : UpTo(f, fold, name, start, items, n)}
<1> SUFFICES ASSUME T # {} PROVE FALSE
    OBVIOUS
<1>1. PICK n \in T : \A j \in T : n <= j
    BY LeastOf
<1>2. CASE n = 0
  <2> DEFINE g == [k \in 0..0 |-> start]
  <2>1. g = [k \in 0..0 |-> IF k = 0 THEN start ELSE Taken(fold, name, g[k - 1], items[k])]
      OBVIOUS
  <2>2. UpTo(g, fold, name, start, items, 0)
      BY <2>1 DEF UpTo
  <2> QED
      BY <1>1, <1>2, <2>2
<1>3. CASE n # 0
  <2>1. n \in Nat /\ n - 1 \in Nat /\ n - 1 \notin T
      BY <1>1, <1>3
  <2>2. PICK f : UpTo(f, fold, name, start, items, n - 1)
      BY <2>1
  <2> DEFINE g == [k \in 0..n |-> IF k = n THEN Taken(fold, name, f[n - 1], items[n]) ELSE f[k]]
  <2>3. ASSUME NEW k \in 0..n
        PROVE  g[k] = IF k = 0 THEN start ELSE Taken(fold, name, g[k - 1], items[k])
    <3>1. CASE k = n
        BY <1>3, <2>1, <3>1
    <3>2. CASE k # n
      <4>1. k \in 0..(n - 1) /\ k - 1 # n
          BY <2>1, <3>2
      <4>2. f[k] = IF k = 0 THEN start ELSE Taken(fold, name, f[k - 1], items[k])
          BY <2>2, <4>1 DEF UpTo
      <4>3. k # 0 => k - 1 \in 0..n /\ g[k - 1] = f[k - 1]
          BY <2>1, <4>1
      <4> QED
          BY <3>2, <4>2, <4>3
    <3> QED
        BY <3>1, <3>2
  <2>4. g = [k \in 0..n |-> g[k]]
      OBVIOUS
  <2> HIDE DEF g
  <2>5. UpTo(g, fold, name, start, items, n)
      BY <2>3, <2>4 DEF UpTo
  <2> QED
      BY <1>1, <2>1, <2>5
<1> QED
    BY <1>2, <1>3

LEMMA UpToSteps ==
    ASSUME NEW fold, NEW name, NEW start, NEW items, NEW n \in Nat, NEW f,
           UpTo(f, fold, name, start, items, n)
    PROVE  f[0] = start /\ \A k \in 1..n : f[k] = Taken(fold, name, f[k - 1], items[k])
BY DEF UpTo

LEMMA DescendSteps ==
    ASSUME NEW start, NEW s, Len(s) \in Nat
    PROVE  \E f : /\ f[0] = start /\ \A k \in 1..Len(s) : f[k] = Descend(f[k - 1], s[k])
                  /\ Folded(Descend, start, s) = f[Len(s)]
<1> DEFINE f == CHOOSE f : f = [k \in 0..Len(s) |-> IF k = 0 THEN start ELSE Descend(f[k - 1], s[k])]
<1>1. f = [k \in 0..Len(s) |-> IF k = 0 THEN start ELSE Descend(f[k - 1], s[k])]
  <2>1. PICK g : UpTo(g, "descend", "any", start, s, Len(s))
      BY UpToExists
  <2>2. \A k : Taken("descend", "any", g[k - 1], s[k]) = Descend(g[k - 1], s[k])
      BY TakenIs
  <2>3. g = [k \in 0..Len(s) |-> IF k = 0 THEN start ELSE Descend(g[k - 1], s[k])]
      BY <2>1, <2>2 DEF UpTo
  <2> QED
      BY <2>3
<1>2. Folded(Descend, start, s) = f[Len(s)]
    BY DEF Folded
<1> HIDE DEF f
<1> QED
    BY <1>1, <1>2

ClonedBy(f, start, s) ==
    /\ f[0] = start /\ \A k \in 1..Len(s) : f[k] = CloneAncestor(f[k - 1], s[k])
    /\ Folded(CloneAncestor, start, s) = f[Len(s)]

LEMMA CloneSteps ==
    ASSUME NEW start, NEW s, Len(s) \in Nat
    PROVE  \E f : ClonedBy(f, start, s)
<1> DEFINE f == CHOOSE f :
                  f = [k \in 0..Len(s) |-> IF k = 0 THEN start ELSE CloneAncestor(f[k - 1], s[k])]
<1>1. f = [k \in 0..Len(s) |-> IF k = 0 THEN start ELSE CloneAncestor(f[k - 1], s[k])]
  <2>1. PICK g : UpTo(g, "clone", "any", start, s, Len(s))
      BY UpToExists
  <2>2. \A k : Taken("clone", "any", g[k - 1], s[k]) = CloneAncestor(g[k - 1], s[k])
      BY TakenIs
  <2>3. g = [k \in 0..Len(s) |-> IF k = 0 THEN start ELSE CloneAncestor(g[k - 1], s[k])]
      BY <2>1, <2>2 DEF UpTo
  <2> QED
      BY <2>3
<1>2. Folded(CloneAncestor, start, s) = f[Len(s)]
    BY DEF Folded
<1> HIDE DEF f
<1> QED
    BY <1>1, <1>2 DEF ClonedBy

FieldedBy(f, start, s) ==
    /\ f[0] = start /\ \A k \in 1..Len(s) : f[k] = StripField(f[k - 1], s[k])
    /\ Folded(StripField, start, s) = f[Len(s)]

LEMMA FieldSteps ==
    ASSUME NEW start, NEW s, Len(s) \in Nat
    PROVE  \E f : FieldedBy(f, start, s)
<1> DEFINE f == CHOOSE f :
                  f = [k \in 0..Len(s) |-> IF k = 0 THEN start ELSE StripField(f[k - 1], s[k])]
<1>1. f = [k \in 0..Len(s) |-> IF k = 0 THEN start ELSE StripField(f[k - 1], s[k])]
  <2>1. PICK g : UpTo(g, "fields", "any", start, s, Len(s))
      BY UpToExists
  <2>2. \A k : Taken("fields", "any", g[k - 1], s[k]) = StripField(g[k - 1], s[k])
      BY TakenIs
  <2>3. g = [k \in 0..Len(s) |-> IF k = 0 THEN start ELSE StripField(g[k - 1], s[k])]
      BY <2>1, <2>2 DEF UpTo
  <2> QED
      BY <2>3
<1>2. Folded(StripField, start, s) = f[Len(s)]
    BY DEF Folded
<1> HIDE DEF f
<1> QED
    BY <1>1, <1>2 DEF FieldedBy

PathedBy(f, start, s) ==
    /\ f[0] = start /\ \A k \in 1..Len(s) : f[k] = stripDottedPath(f[k - 1], s[k])
    /\ Folded(stripDottedPath, start, s) = f[Len(s)]

LEMMA PathSteps ==
    ASSUME NEW start, NEW s, Len(s) \in Nat
    PROVE  \E f : PathedBy(f, start, s)
<1> DEFINE f == CHOOSE f :
                  f = [k \in 0..Len(s) |-> IF k = 0 THEN start ELSE stripDottedPath(f[k - 1], s[k])]
<1>1. f = [k \in 0..Len(s) |-> IF k = 0 THEN start ELSE stripDottedPath(f[k - 1], s[k])]
  <2>1. PICK g : UpTo(g, "paths", "any", start, s, Len(s))
      BY UpToExists
  <2>2. \A k : Taken("paths", "any", g[k - 1], s[k]) = stripDottedPath(g[k - 1], s[k])
      BY TakenIs
  <2>3. g = [k \in 0..Len(s) |-> IF k = 0 THEN start ELSE stripDottedPath(g[k - 1], s[k])]
      BY <2>1, <2>2 DEF UpTo
  <2> QED
      BY <2>3
<1>2. Folded(stripDottedPath, start, s) = f[Len(s)]
    BY DEF Folded
<1> HIDE DEF f
<1> QED
    BY <1>1, <1>2 DEF PathedBy

LEMMA KeepSteps ==
    ASSUME NEW name, NEW s, Len(s) \in Nat
    PROVE  \E f : /\ f[0] = <<>> /\ \A k \in 1..Len(s) : f[k] = Keep(name, f[k - 1], s[k])
                  /\ WithoutNamed(s, name) = f[Len(s)]
<1> DEFINE f == CHOOSE f :
                  f = [k \in 0..Len(s) |-> IF k = 0 THEN <<>> ELSE Keep(name, f[k - 1], s[k])]
<1>1. f = [k \in 0..Len(s) |-> IF k = 0 THEN <<>> ELSE Keep(name, f[k - 1], s[k])]
  <2>1. PICK g : UpTo(g, "keep", name, <<>>, s, Len(s))
      BY UpToExists
  <2>2. \A k : Taken("keep", name, g[k - 1], s[k]) = Keep(name, g[k - 1], s[k])
      BY TakenIs
  <2>3. g = [k \in 0..Len(s) |-> IF k = 0 THEN <<>> ELSE Keep(name, g[k - 1], s[k])]
      BY <2>1, <2>2 DEF UpTo
  <2> QED
      BY <2>3
<1>2. WithoutNamed(s, name) = f[Len(s)]
    BY DEF WithoutNamed, Folded, Keep
<1> HIDE DEF f
<1> QED
    BY <1>1, <1>2
-----------------------------------------------------------------------------
(* What is read of a value, level by level.                                *)
Levels(f, heap, value, n) == UpTo(f, "read", "any", FirstLevel(value),
                                  [k \in 1..n |-> heap], n)

LEMMA LevelSteps ==
    ASSUME NEW heap, NEW value, NEW n \in Nat, NEW f, Levels(f, heap, value, n)
    PROVE  /\ f[0] = FirstLevel(value)
           /\ \A k \in 1..n : f[k] = NextLevel(heap, f[k - 1])
<1> DEFINE start == FirstLevel(value)
           items == [k \in 1..n |-> heap]
<1>1. f[0] = start /\ \A k \in 1..n : f[k] = Taken("read", "any", f[k - 1], items[k])
  <2> HIDE DEF start, items
  <2>1. UpTo(f, "read", "any", start, items, n)
      BY DEF Levels, start, items
  <2> QED
      BY <2>1, UpToSteps
<1>2. \A k \in 1..n : items[k] = heap
    OBVIOUS
<1> HIDE DEF start, items
<1>3. \A k \in 1..n : f[k] = NextLevel(heap, f[k - 1])
    BY <1>1, <1>2, TakenIs
<1> QED
    BY <1>1, <1>3 DEF start

LEMMA ReachedIs ==
    ASSUME NEW heap, NEW value, NEW n \in Nat
    PROVE  \E f : Levels(f, heap, value, n) /\ Reached(heap, value, n) = f[n]
<1> DEFINE start == FirstLevel(value)
           items == [k \in 1..n |-> heap]
           Is(g) == g = [k \in 0..n |-> IF k = 0 THEN FirstLevel(value)
                                       ELSE NextLevel(heap, g[k - 1])]
           f == CHOOSE g : Is(g)
<1>1. \A g : Levels(g, heap, value, n) <=> Is(g)
  <2>1. \A k \in 0..n : k # 0 => items[k] = heap
      OBVIOUS
  <2>2. \A g : \A k \in 0..n : k # 0 =>
           Taken("read", "any", g[k - 1], items[k]) = NextLevel(heap, g[k - 1])
      BY <2>1, TakenIs
  <2> DEFINE next(g, k) == NextLevel(heap, g[k - 1])
             took(g, k) == Taken("read", "any", g[k - 1], items[k])
  <2> HIDE DEF next, took, start
  <2>3. \A g : \A k \in 0..n : k # 0 => took(g, k) = next(g, k)
      BY <2>2 DEF next, took
  <2>4. \A g : [k \in 0..n |-> IF k = 0 THEN start ELSE took(g, k)]
                = [k \in 0..n |-> IF k = 0 THEN start ELSE next(g, k)]
      BY <2>3
  <2> QED
      BY <2>4 DEF Levels, UpTo, next, took, start
<1>2. \E g : Is(g)
  <2> HIDE DEF start, items, Is
  <2>1. \E g : UpTo(g, "read", "any", start, items, n)
      BY UpToExists
  <2> QED
      BY <1>1, <2>1 DEF Levels, start, items
<1>3. Is(f)
    BY <1>2
<1>4. Reached(heap, value, n) = f[n]
    BY DEF Reached, FirstLevel, NextLevel
<1> HIDE DEF f, Is
<1> QED
    BY <1>1, <1>3, <1>4

(* Where a reading starts, and how it goes on.                             *)
LEMMA ReachedNow ==
    ASSUME NEW heap, NEW value
    PROVE  Reached(heap, value, 0) = FirstLevel(value)
<1>1. PICK f : Levels(f, heap, value, 0) /\ Reached(heap, value, 0) = f[0]
    BY ReachedIs
<1> QED
    BY <1>1, LevelSteps

LEMMA ReachedNext ==
    ASSUME NEW heap, NEW value, NEW n \in Nat
    PROVE  Reached(heap, value, n + 1) = NextLevel(heap, Reached(heap, value, n))
<1>1. n + 1 \in Nat /\ n + 1 \in 1..(n + 1) /\ n + 1 - 1 = n
    OBVIOUS
<1>2. PICK f : Levels(f, heap, value, n + 1) /\ Reached(heap, value, n + 1) = f[n + 1]
    BY <1>1, ReachedIs
<1>3. PICK g : Levels(g, heap, value, n) /\ Reached(heap, value, n) = g[n]
    BY ReachedIs
<1>4. /\ f[0] = FirstLevel(value)
      /\ \A k \in 1..(n + 1) : f[k] = NextLevel(heap, f[k - 1])
  <2> DEFINE m == n + 1
  <2>1. m \in Nat /\ Levels(f, heap, value, m)
      BY <1>2
  <2> HIDE DEF m
  <2>2. /\ f[0] = FirstLevel(value)
        /\ \A k \in 1..m : f[k] = NextLevel(heap, f[k - 1])
      BY <2>1, LevelSteps
  <2> QED
      BY <2>2 DEF m
<1>5. /\ g[0] = FirstLevel(value)
      /\ \A k \in 1..n : g[k] = NextLevel(heap, g[k - 1])
    BY <1>3, LevelSteps
<1> DEFINE T == {k \in 0..n : f[k] # g[k]}
<1>6. T = {}
  <2> SUFFICES ASSUME T # {} PROVE FALSE
      OBVIOUS
  <2>1. T \in SUBSET Nat
      OBVIOUS
  <2>2. PICK k \in T : \A j \in T : k <= j
      BY <2>1, LeastOf
  <2>3. k \in 0..n /\ k # 0 /\ f[k] # g[k]
      BY <1>4, <1>5, <2>2
  <2>4. k \in 1..n /\ k \in 1..(n + 1) /\ k - 1 \in 0..n /\ ~(k <= k - 1)
      BY <2>3
  <2>5. f[k - 1] = g[k - 1]
      BY <2>2, <2>4
  <2> QED
      BY <1>4, <1>5, <2>3, <2>4, <2>5
<1>7. f[n] = g[n]
    BY <1>6
<1> QED
    BY <1>1, <1>2, <1>3, <1>4, <1>7

-----------------------------------------------------------------------------
(* What lies at the end of a path.                                         *)
Keys == [name : STRING, spelling : STRING]

Fields(heap, value) == ToSet(Below(heap, value))

ReadAt(heap, g, n, path, value) == [path |-> path, value |-> value] \in Reached(heap, g, n)

Typed(heap) == heap \in Seq(Seq(ObjectField))

Then(path, key) == Append(path, key)

LEMMA ThenIs ==
    ASSUME NEW p \in Seq(Keys), NEW key \in Keys
    PROVE  /\ Then(p, key) \in Seq(Keys) /\ Len(Then(p, key)) = Len(p) + 1
           /\ \A i \in 1..Len(p) : Then(p, key)[i] = p[i]
           /\ Then(p, key)[Len(p) + 1] = key
BY DEF Then

(* One key further.                                                        *)
Leads(heap, p, x, q, y) ==
    \E f \in Fields(heap, x) : q = Then(p, Key(f)) /\ y = f.value

LEMMA FieldsOf ==
    ASSUME NEW heap, Typed(heap), NEW x
    PROVE  /\ Fields(heap, x) \subseteq ObjectField
           /\ x \notin DOMAIN heap => Fields(heap, x) = {}
           /\ x \in DOMAIN heap => Fields(heap, x) = {heap[x][i] : i \in DOMAIN heap[x]}
BY DEF Typed, Fields, Below, IsObject, ToSet

LEMMA FurtherIs ==
    ASSUME NEW heap, NEW p, NEW x, NEW q, NEW y
    PROVE  [path |-> q, value |-> y] \in Further(heap, [path |-> p, value |-> x])
             <=> Leads(heap, p, x, q, y)
<1> DEFINE r == [path |-> p, value |-> x]
           t == [path |-> q, value |-> y]
           after(f) == [path |-> Then(r.path, Key(f)), value |-> f.value]
<1>1. Further(heap, r) = {after(f) : f \in Fields(heap, r.value)}
    BY DEF Further, Fields, Then
<1>2. r.path = p /\ r.value = x
    OBVIOUS
<1>3. \A f : t = after(f) <=> q = Then(p, Key(f)) /\ y = f.value
    OBVIOUS
<1> HIDE DEF r, t, after
<1>4. t \in Further(heap, r) <=> \E f \in Fields(heap, x) : t = after(f)
    BY <1>1, <1>2
<1>5. t \in Further(heap, r) <=> Leads(heap, p, x, q, y)
    BY <1>3, <1>4 DEF Leads
<1> QED
    BY <1>5 DEF r, t

LEMMA FurtherIsRecorded ==
    ASSUME NEW heap, NEW r, NEW t \in Further(heap, r)
    PROVE  t = [path |-> t.path, value |-> t.value]
BY DEF Further

LEMMA NextLevelIs ==
    ASSUME NEW heap, NEW rs, NEW t
    PROVE  t \in NextLevel(heap, rs) <=> \E r \in rs : t \in Further(heap, r)
BY DEF NextLevel

(* A level is a set of records of a path and a value.                      *)
Recorded(r) == r = [path |-> r.path, value |-> r.value]

LEMMA LevelsAreRecorded ==
    ASSUME NEW heap, NEW g, NEW n \in Nat, NEW r \in Reached(heap, g, n)
    PROVE  Recorded(r)
<1>1. CASE n = 0
    BY <1>1, ReachedNow DEF FirstLevel, Recorded
<1>2. CASE n # 0
  <2>1. n - 1 \in Nat /\ n - 1 + 1 = n
      BY <1>2
  <2>2. Reached(heap, g, n) = NextLevel(heap, Reached(heap, g, n - 1))
    <3> DEFINE k == n - 1
    <3>1. k \in Nat /\ k + 1 = n
        BY <2>1
    <3> HIDE DEF k
    <3>2. Reached(heap, g, k + 1) = NextLevel(heap, Reached(heap, g, k))
        BY <3>1, ReachedNext
    <3> QED
        BY <3>1, <3>2 DEF k
  <2>3. PICK q \in Reached(heap, g, n - 1) : r \in Further(heap, q)
      BY <2>2, NextLevelIs
  <2> QED
      BY <2>3, FurtherIsRecorded DEF Recorded
<1> QED
    BY <1>1, <1>2

LEMMA AtStart ==
    ASSUME NEW heap, NEW g, NEW p, NEW x
    PROVE  ReadAt(heap, g, 0, p, x) <=> p = <<>> /\ x = g
<1>1. ReadAt(heap, g, 0, p, x) <=> [path |-> p, value |-> x] = [path |-> <<>>, value |-> g]
    BY ReachedNow DEF ReadAt, FirstLevel
<1> QED
    BY <1>1

LEMMA AtFurther ==
    ASSUME NEW heap, NEW g, NEW n \in Nat, NEW m, m = n + 1,
           NEW p, NEW x, ReadAt(heap, g, n, p, x), NEW q, NEW y, Leads(heap, p, x, q, y)
    PROVE  ReadAt(heap, g, m, q, y)
<1> DEFINE r == [path |-> p, value |-> x]
           t == [path |-> q, value |-> y]
<1>1. r \in Reached(heap, g, n) /\ t \in Further(heap, r)
    BY FurtherIs DEF ReadAt
<1> HIDE DEF r, t
<1>2. t \in Reached(heap, g, n + 1)
    BY <1>1, ReachedNext, NextLevelIs
<1> QED
    BY <1>2 DEF ReadAt, t

LEMMA AtBefore ==
    ASSUME NEW heap, NEW g, NEW n \in Nat, NEW m, m = n + 1,
           NEW q, NEW y, ReadAt(heap, g, m, q, y)
    PROVE  \E p, x : ReadAt(heap, g, n, p, x) /\ Leads(heap, p, x, q, y)
<1> DEFINE t == [path |-> q, value |-> y]
<1>1. t \in Reached(heap, g, n + 1)
    BY DEF ReadAt
<1> HIDE DEF t
<1>2. PICK r \in Reached(heap, g, n) : t \in Further(heap, r)
    BY <1>1, ReachedNext, NextLevelIs
<1>3. r = [path |-> r.path, value |-> r.value]
    BY <1>2, LevelsAreRecorded DEF Recorded
<1>4. Leads(heap, r.path, r.value, q, y)
    BY <1>2, <1>3, FurtherIs DEF t
<1>5. ReadAt(heap, g, n, r.path, r.value)
    BY <1>2, <1>3 DEF ReadAt
<1> QED
    BY <1>4, <1>5

LEMMA ReadableIs ==
    ASSUME NEW heap, NEW g, NEW p
    PROVE  p \in Readable(heap, g) <=> \E n \in 1..Depth : \E x : ReadAt(heap, g, n, p, x)
<1>1. Depth \in Nat
    BY GovernanceAssumption
<1>2. ASSUME p \in Readable(heap, g)
      PROVE  \E n \in 1..Depth : \E x : ReadAt(heap, g, n, p, x)
  <2>1. PICK n \in 1..Depth : \E r \in Reached(heap, g, n) : p = r.path
      BY <1>2 DEF Readable
  <2>2. PICK r \in Reached(heap, g, n) : p = r.path
      BY <2>1
  <2>3. ReadAt(heap, g, n, p, r.value)
      BY <1>1, <2>2, LevelsAreRecorded DEF ReadAt, Recorded
  <2> QED
      BY <2>3
<1>3. ASSUME NEW n \in 1..Depth, NEW x, ReadAt(heap, g, n, p, x)
      PROVE  p \in Readable(heap, g)
  <2>1. [path |-> p, value |-> x] \in Reached(heap, g, n) /\ p = [path |-> p, value |-> x].path
      BY <1>3 DEF ReadAt
  <2>2. p \in {r.path : r \in Reached(heap, g, n)}
      BY <2>1
  <2> QED
      BY <2>2 DEF Readable
<1> QED
    BY <1>2, <1>3

LEMMA KeyIsKey == \A f \in ObjectField : Key(f) \in Keys
BY DEF ObjectField, Key, Keys

(* A path of n keys has n keys.                                            *)
PathsOf(heap, g, n) ==
    \A p, x : ReadAt(heap, g, n, p, x) => p \in Seq(Keys) /\ Len(p) = n

LEMMA AtPathStep ==
    ASSUME NEW heap, Typed(heap), NEW g, NEW k \in Nat, PathsOf(heap, g, k), NEW n, n = k + 1
    PROVE  PathsOf(heap, g, n)
<1> SUFFICES ASSUME NEW q, NEW y, ReadAt(heap, g, n, q, y)
             PROVE  q \in Seq(Keys) /\ Len(q) = n
    BY DEF PathsOf
<1>1. PICK p, x : ReadAt(heap, g, k, p, x) /\ Leads(heap, p, x, q, y)
    BY AtBefore
<1>2. PICK f \in Fields(heap, x) : q = Then(p, Key(f))
    BY <1>1 DEF Leads
<1>3. p \in Seq(Keys) /\ Len(p) = k
    BY <1>1 DEF PathsOf
<1>4. Key(f) \in Keys
    BY <1>2, FieldsOf, KeyIsKey
<1> QED
    BY <1>2, <1>3, <1>4, ThenIs

LEMMA AtPath ==
    ASSUME NEW heap, Typed(heap), NEW g, NEW m \in Nat
    PROVE  PathsOf(heap, g, m)
<1> DEFINE T == {j \in Nat : ~PathsOf(heap, g, j)}
<1> SUFFICES ASSUME T # {} PROVE FALSE
    OBVIOUS
<1>1. PICK n \in T : \A j \in T : n <= j
    BY LeastOf
<1>2. n \in Nat /\ ~PathsOf(heap, g, n) /\ \A j \in Nat : j < n => PathsOf(heap, g, j)
    BY <1>1
<1> HIDE DEF T
<1>3. PathsOf(heap, g, 0)
  <2> SUFFICES ASSUME NEW q, NEW y, ReadAt(heap, g, 0, q, y)
               PROVE  q \in Seq(Keys) /\ Len(q) = 0
      BY DEF PathsOf
  <2>1. q = <<>>
      BY AtStart
  <2> QED
      BY <2>1
<1>4. n # 0
    BY <1>2, <1>3
<1>5. n - 1 \in Nat /\ n - 1 < n /\ n = (n - 1) + 1
    BY <1>2, <1>4
<1>6. PathsOf(heap, g, n - 1)
    BY <1>2, <1>5
<1> QED
    BY <1>2, <1>5, <1>6, AtPathStep


(* Induction over the numbers of a set.                                    *)
LEMMA NumbersAll ==
    ASSUME NEW S, 0 \in S, \A n \in Nat : n \in S => n + 1 \in S
    PROVE  Nat \subseteq S
<1> DEFINE T == {n \in Nat : n \notin S}
<1> SUFFICES ASSUME T # {} PROVE FALSE
    OBVIOUS
<1>1. PICK n \in T : \A j \in T : n <= j
    BY LeastOf
<1>2. n \in Nat /\ n \notin S /\ n # 0
    BY <1>1
<1>3. n - 1 \in Nat /\ ~(n <= n - 1) /\ (n - 1) + 1 = n
    BY <1>2
<1>4. n - 1 \in S
    BY <1>1, <1>3
<1> QED
    BY <1>2, <1>3, <1>4

LEMMA ThenInjective ==
    ASSUME NEW p \in Seq(Keys), NEW q \in Seq(Keys), NEW key \in Keys, NEW other \in Keys,
           Then(p, key) = Then(q, other)
    PROVE  p = q /\ key = other
<1> DEFINE r == Then(p, key)
           s == Then(q, other)
<1>0. /\ Len(r) = Len(p) + 1 /\ Len(s) = Len(q) + 1 /\ r = s
      /\ (\A i \in 1..Len(p) : r[i] = p[i]) /\ r[Len(p) + 1] = key
      /\ (\A i \in 1..Len(q) : s[i] = q[i]) /\ s[Len(q) + 1] = other
  <2>1. Len(r) = Len(p) + 1 /\ (\A i \in 1..Len(p) : r[i] = p[i]) /\ r[Len(p) + 1] = key
      BY ThenIs
  <2>2. Len(s) = Len(q) + 1 /\ (\A i \in 1..Len(q) : s[i] = q[i]) /\ s[Len(q) + 1] = other
      BY ThenIs
  <2> QED
      BY <2>1, <2>2
<1> HIDE DEF r, s
<1>1. Len(p) = Len(q)
    BY <1>0
<1>2. \A i \in 1..Len(p) : p[i] = q[i]
    BY <1>0, <1>1
<1>3. key = other
    BY <1>0, <1>1
<1> QED
    BY <1>1, <1>2, <1>3

(* A path leads to one value.                                              *)
Distinct(heap) == \A x : \A f, h \in Fields(heap, x) : Key(f) = Key(h) => f = h

OneValue(heap, g, n) == \A p, x, y : ReadAt(heap, g, n, p, x) /\ ReadAt(heap, g, n, p, y) => x = y

LEMMA AtIsOne ==
    ASSUME NEW heap, Typed(heap), Distinct(heap), NEW g, NEW m \in Nat
    PROVE  OneValue(heap, g, m)
<1> DEFINE S == {n \in Nat : OneValue(heap, g, n)}
<1>1. OneValue(heap, g, 0)
    BY AtStart DEF OneValue
<1>2. ASSUME NEW n \in Nat, OneValue(heap, g, n), NEW k, k = n + 1
      PROVE  OneValue(heap, g, k)
  <2> SUFFICES ASSUME NEW q, NEW y, NEW z, ReadAt(heap, g, k, q, y), ReadAt(heap, g, k, q, z)
               PROVE  y = z
      BY DEF OneValue
  <2>1. PICK p1, x1 : ReadAt(heap, g, n, p1, x1) /\ Leads(heap, p1, x1, q, y)
      BY <1>2, AtBefore
  <2>2. PICK p2, x2 : ReadAt(heap, g, n, p2, x2) /\ Leads(heap, p2, x2, q, z)
      BY <1>2, AtBefore
  <2>3. PICK f1 \in Fields(heap, x1) : q = Then(p1, Key(f1)) /\ y = f1.value
      BY <2>1 DEF Leads
  <2>4. PICK f2 \in Fields(heap, x2) : q = Then(p2, Key(f2)) /\ z = f2.value
      BY <2>2 DEF Leads
  <2>5. p1 \in Seq(Keys) /\ p2 \in Seq(Keys) /\ Key(f1) \in Keys /\ Key(f2) \in Keys
    <3>1. PathsOf(heap, g, n)
        BY AtPath
    <3>2. Key(f1) \in Keys /\ Key(f2) \in Keys
        BY FieldsOf, KeyIsKey
    <3> QED
        BY <2>1, <2>2, <3>1, <3>2 DEF PathsOf
  <2>6. p1 = p2 /\ Key(f1) = Key(f2)
    <3>1. Then(p1, Key(f1)) = Then(p2, Key(f2))
        BY <2>3, <2>4
    <3> DEFINE key == Key(f1)
               other == Key(f2)
    <3>2. key \in Keys /\ other \in Keys /\ Then(p1, key) = Then(p2, other)
        BY <2>5, <3>1
    <3> HIDE DEF key, other
    <3>3. p1 = p2 /\ key = other
        BY <2>5, <3>2, ThenInjective
    <3> QED
        BY <3>3 DEF key, other
  <2>7. x1 = x2
      BY <1>2, <2>1, <2>2, <2>6 DEF OneValue
  <2>8. f1 = f2
      BY <2>6, <2>7 DEF Distinct
  <2> QED
      BY <2>3, <2>4, <2>8
<1>3. 0 \in S /\ \A n \in Nat : n \in S => n + 1 \in S
    BY <1>1, <1>2
<1> HIDE DEF S
<1>4. m \in S
    BY <1>3, NumbersAll
<1> QED
    BY <1>4 DEF S

(* A path passes by each of its keys.                                      *)
Passes(heap, g, j, p) ==
    \E q, y : \E f \in Fields(heap, y) :
        ReadAt(heap, g, j, q, y) /\ Key(f) = p[j + 1] /\ \A i \in 1..j : q[i] = p[i]

PrefixesOf(heap, g, n) ==
    \A p, x : ReadAt(heap, g, n, p, x) => \A j \in 0..(n - 1) : Passes(heap, g, j, p)

LEMMA AtPrefix ==
    ASSUME NEW heap, Typed(heap), NEW g, NEW m \in Nat
    PROVE  PrefixesOf(heap, g, m)
<1> DEFINE S == {n \in Nat : PrefixesOf(heap, g, n)}
<1>1. PrefixesOf(heap, g, 0)
    BY DEF PrefixesOf
<1>2. ASSUME NEW n \in Nat, PrefixesOf(heap, g, n), NEW k, k = n + 1
      PROVE  PrefixesOf(heap, g, k)
  <2> SUFFICES ASSUME NEW q, NEW y, ReadAt(heap, g, k, q, y), NEW j \in 0..(k - 1)
               PROVE  Passes(heap, g, j, q)
      BY DEF PrefixesOf
  <2>1. PICK p, x : ReadAt(heap, g, n, p, x) /\ Leads(heap, p, x, q, y)
      BY <1>2, AtBefore
  <2>2. PICK f \in Fields(heap, x) : q = Then(p, Key(f)) /\ y = f.value
      BY <2>1 DEF Leads
  <2>3. PathsOf(heap, g, n) /\ Key(f) \in Keys
      BY AtPath, FieldsOf, KeyIsKey
  <2>4. p \in Seq(Keys) /\ Len(p) = n
      BY <2>1, <2>3 DEF PathsOf
  <2>5. (\A i \in 1..n : q[i] = p[i]) /\ q[n + 1] = Key(f)
      BY <2>2, <2>3, <2>4, ThenIs
  <2>6. CASE j = n
      BY <2>1, <2>5, <2>6 DEF Passes
  <2>7. CASE j # n
    <3>1. j \in 0..(n - 1) /\ j + 1 \in 1..n /\ \A i \in 1..j : i \in 1..n
        BY <1>2, <2>7
    <3>2. Passes(heap, g, j, p)
        BY <1>2, <2>1, <3>1 DEF PrefixesOf
    <3>3. PICK r, z : \E h \in Fields(heap, z) :
             ReadAt(heap, g, j, r, z) /\ Key(h) = p[j + 1] /\ \A i \in 1..j : r[i] = p[i]
        BY <3>2 DEF Passes
    <3>4. p[j + 1] = q[j + 1] /\ \A i \in 1..j : p[i] = q[i]
        BY <2>5, <3>1
    <3> QED
        BY <3>3, <3>4 DEF Passes
  <2> QED
      BY <2>6, <2>7
<1>3. 0 \in S /\ \A n \in Nat : n \in S => n + 1 \in S
    BY <1>1, <1>2
<1> HIDE DEF S
<1>4. m \in S
    BY <1>3, NumbersAll
<1> QED
    BY <1>4 DEF S
-----------------------------------------------------------------------------
(* Two values that have the same fields, of values that stay what they are,*)
(* read the same.                                                          *)
AlikeBelow(H, G, S) ==
    \A x \in S : Fields(H, x) = Fields(G, x) /\ \A f \in Fields(H, x) : f.value \in S

AlikeAt(H, g, G, h, S, n) ==
    \A p, x : ReadAt(H, g, n, p, x) => x \in S /\ ReadAt(G, h, n, p, x)

LEMMA AlikeSteps ==
    ASSUME NEW H, NEW G, NEW g, NEW h, NEW S, AlikeBelow(H, G, S),
           Fields(H, g) = Fields(G, h), \A f \in Fields(H, g) : f.value \in S,
           NEW m \in Nat
    PROVE  m = 0 \/ AlikeAt(H, g, G, h, S, m)
<1> DEFINE T == {n \in Nat : n = 0 \/ AlikeAt(H, g, G, h, S, n)}
<1>1. ASSUME NEW n \in Nat, n = 0 \/ AlikeAt(H, g, G, h, S, n), NEW k, k = n + 1
      PROVE  AlikeAt(H, g, G, h, S, k)
  <2> SUFFICES ASSUME NEW q, NEW y, ReadAt(H, g, k, q, y)
               PROVE  y \in S /\ ReadAt(G, h, k, q, y)
      BY DEF AlikeAt
  <2>1. PICK p, x : ReadAt(H, g, n, p, x) /\ Leads(H, p, x, q, y)
      BY <1>1, AtBefore
  <2>2. PICK f \in Fields(H, x) : q = Then(p, Key(f)) /\ y = f.value
      BY <2>1 DEF Leads
  <2>3. CASE n = 0
    <3>1. p = <<>> /\ x = g /\ ReadAt(G, h, n, p, h)
        BY <2>1, <2>3, AtStart
    <3>2. Leads(G, p, h, q, y)
        BY <2>2, <3>1 DEF Leads
    <3>3. ReadAt(G, h, k, q, y)
        BY <1>1, <3>1, <3>2, AtFurther
    <3> QED
        BY <2>2, <3>1, <3>3
  <2>4. CASE n # 0
    <3>1. x \in S /\ ReadAt(G, h, n, p, x)
        BY <1>1, <2>1, <2>4 DEF AlikeAt
    <3>2. Fields(H, x) = Fields(G, x) /\ y \in S
        BY <2>2, <3>1 DEF AlikeBelow
    <3>3. Leads(G, p, x, q, y)
        BY <2>2, <3>2 DEF Leads
    <3>4. ReadAt(G, h, k, q, y)
        BY <1>1, <3>1, <3>3, AtFurther
    <3> QED
        BY <3>2, <3>4
  <2> QED
      BY <2>3, <2>4
<1>2. 0 \in T /\ \A n \in Nat : n \in T => n + 1 \in T
    BY <1>1
<1> HIDE DEF T
<1>3. m \in T
    BY <1>2, NumbersAll
<1> QED
    BY <1>3 DEF T

LEMMA AlikeRead ==
    ASSUME NEW H, NEW G, NEW g, NEW h, NEW S, AlikeBelow(H, G, S),
           Fields(H, g) = Fields(G, h), \A f \in Fields(H, g) : f.value \in S
    PROVE  Readable(H, g) = Readable(G, h)
<1>1. \A n \in 1..Depth : n \in Nat /\ n # 0
    BY GovernanceAssumption
<1>2. \A n \in 1..Depth : AlikeAt(H, g, G, h, S, n)
    BY <1>1, AlikeSteps
<1>3. AlikeBelow(G, H, S) /\ \A f \in Fields(G, h) : f.value \in S
    BY DEF AlikeBelow
<1>4. \A n \in 1..Depth : AlikeAt(G, h, H, g, S, n)
    BY <1>1, <1>3, AlikeSteps
<1>5. ASSUME NEW p
      PROVE  p \in Readable(H, g) <=> p \in Readable(G, h)
    BY <1>2, <1>4, ReadableIs DEF AlikeAt
<1> QED
    BY <1>5

-----------------------------------------------------------------------------
(* A path cut: G is H but for the objects c[0], ..., c[m] that stand in it *)
(* for v[0], ..., v[m], each with its k[j] leading to the next, and the    *)
(* last without what is named leaf.                                        *)
OnPath(p, m, k) == Len(p) <= m /\ \A i \in 1..Len(p) : p[i] = k[i]

Gone(p, m, k, leaf) == Len(p) > m /\ (\A i \in 1..m : p[i] = k[i]) /\ p[m + 1].name = leaf

Linked(H, m, v, k) ==
    \A j \in 0..(m - 1) : \E f \in Fields(H, v[j]) : Key(f) = k[j + 1] /\ f.value = v[j + 1]

Relinked(H, G, m, v, c, k) ==
    \A j \in 0..(m - 1) :
      /\ \E f \in Fields(G, c[j]) : Key(f) = k[j + 1]
      /\ \A f \in Fields(G, c[j]) : IF Key(f) = k[j + 1] THEN f.value = c[j + 1]
                                    ELSE f \in Fields(H, v[j])
      /\ \A f \in Fields(H, v[j]) : Key(f) # k[j + 1] => f \in Fields(G, c[j])

Without(H, G, x, y, leaf) ==
    /\ \A f \in Fields(G, y) : f \in Fields(H, x) /\ f.name # leaf
    /\ \A f \in Fields(H, x) : f.name # leaf => f \in Fields(G, y)

Apart(x, m, c) == \A j \in 0..m : x # c[j]

CutAt(H, G, g, m, v, c, k, leaf) ==
    /\ v[0] = g /\ c[0] = g
    /\ Linked(H, m, v, k) /\ Relinked(H, G, m, v, c, k) /\ Without(H, G, v[m], c[m], leaf)
    /\ \A x : Apart(x, m, c) => Fields(G, x) = Fields(H, x)
    /\ \A x : \A f \in Fields(H, x) : Apart(f.value, m, c)

LEMMA ThenOnPath ==
    ASSUME NEW p \in Seq(Keys), NEW key \in Keys, NEW m \in Nat, NEW k, NEW leaf
    PROVE  /\ OnPath(Then(p, key), m, k) <=> OnPath(p, m, k) /\ Len(p) < m /\ key = k[Len(p) + 1]
           /\ Gone(Then(p, key), m, k, leaf)
                <=> Gone(p, m, k, leaf) \/ (OnPath(p, m, k) /\ Len(p) = m /\ key.name = leaf)
<1> DEFINE n == Len(p)
<1> DEFINE q == Then(p, key)
<1>1. /\ Len(q) = n + 1 /\ n \in Nat
      /\ (\A i \in 1..n : q[i] = p[i]) /\ q[n + 1] = key
  <2>1. /\ Then(p, key) \in Seq(Keys) /\ Len(Then(p, key)) = Len(p) + 1
        /\ \A i \in 1..Len(p) : Then(p, key)[i] = p[i]
        /\ Then(p, key)[Len(p) + 1] = key
      BY ThenIs
  <2>2. Len(p) \in Nat
      OBVIOUS
  <2> QED
      BY <2>1, <2>2
<1> HIDE DEF q
<1>2. OnPath(q, m, k) <=> OnPath(p, m, k) /\ n < m /\ key = k[n + 1]
  <2>1. OnPath(q, m, k) => OnPath(p, m, k) /\ n < m /\ key = k[n + 1]
    <3> SUFFICES ASSUME n + 1 <= m, \A i \in 1..(n + 1) : q[i] = k[i]
                 PROVE  OnPath(p, m, k) /\ n < m /\ key = k[n + 1]
        BY <1>1 DEF OnPath
    <3>1. \A i \in 1..n : i \in 1..(n + 1)
        BY <1>1
    <3>2. n + 1 \in 1..(n + 1) /\ n <= m
        BY <1>1
    <3> QED
        BY <1>1, <3>1, <3>2 DEF OnPath
  <2>2. OnPath(p, m, k) /\ n < m /\ key = k[n + 1] => OnPath(q, m, k)
    <3> SUFFICES ASSUME OnPath(p, m, k), n < m, key = k[n + 1]
                 PROVE  OnPath(q, m, k)
        OBVIOUS
    <3>1. \A i \in 1..(n + 1) : q[i] = k[i]
        BY <1>1 DEF OnPath
    <3> QED
        BY <1>1, <3>1 DEF OnPath
  <2> QED
      BY <2>1, <2>2
<1>3. Gone(q, m, k, leaf)
        <=> Gone(p, m, k, leaf) \/ (OnPath(p, m, k) /\ n = m /\ key.name = leaf)
  <2>1. CASE n > m
    <3>1. m + 1 \in 1..n /\ \A i \in 1..m : i \in 1..n
        BY <1>1, <2>1
    <3>2. q[m + 1] = p[m + 1] /\ \A i \in 1..m : q[i] = p[i]
        BY <1>1, <3>1
    <3>3. Len(q) > m /\ Len(p) > m
        BY <1>1, <2>1
    <3>4. Gone(q, m, k, leaf) <=> (\A i \in 1..m : q[i] = k[i]) /\ q[m + 1].name = leaf
        BY <3>3 DEF Gone
    <3>5. Gone(p, m, k, leaf) <=> (\A i \in 1..m : p[i] = k[i]) /\ p[m + 1].name = leaf
        BY <3>3 DEF Gone
    <3>6. (\A i \in 1..m : q[i] = k[i]) <=> (\A i \in 1..m : p[i] = k[i])
        BY <3>2
    <3> QED
        BY <1>1, <2>1, <3>2, <3>4, <3>5, <3>6
  <2>2. CASE n = m
    <3>1. q[m + 1] = key /\ \A i \in 1..m : q[i] = p[i]
        BY <1>1, <2>2
    <3>2. Gone(q, m, k, leaf) <=> (\A i \in 1..m : p[i] = k[i]) /\ key.name = leaf
        BY <1>1, <2>2, <3>1 DEF Gone
    <3>3. OnPath(p, m, k) <=> \A i \in 1..m : p[i] = k[i]
        BY <2>2 DEF OnPath
    <3>4. ~Gone(p, m, k, leaf)
        BY <2>2 DEF Gone
    <3> QED
        BY <2>2, <3>2, <3>3, <3>4
  <2>3. CASE n < m
      BY <1>1, <2>3 DEF Gone
  <2> QED
      BY <1>1, <2>1, <2>2, <2>3
<1> QED
    BY <1>2, <1>3 DEF q

LEMMA GrownPath ==
    ASSUME NEW heap, Typed(heap), NEW g, NEW n \in Nat, NEW p, NEW x, ReadAt(heap, g, n, p, x),
           NEW f \in Fields(heap, x), NEW q, q = Then(p, Key(f)), NEW m \in Nat, NEW k, NEW leaf
    PROVE  /\ OnPath(q, m, k) <=> OnPath(p, m, k) /\ n < m /\ Key(f) = k[n + 1]
           /\ Gone(q, m, k, leaf)
                <=> Gone(p, m, k, leaf) \/ (OnPath(p, m, k) /\ n = m /\ Key(f).name = leaf)
<1> DEFINE key == Key(f)
<1>1. p \in Seq(Keys) /\ n = Len(p) /\ key \in Keys /\ q = Then(p, key)
    BY AtPath, FieldsOf, KeyIsKey DEF PathsOf
<1> HIDE DEF key
<1>2. /\ OnPath(Then(p, key), m, k) <=> OnPath(p, m, k) /\ Len(p) < m /\ key = k[Len(p) + 1]
      /\ Gone(Then(p, key), m, k, leaf)
           <=> Gone(p, m, k, leaf) \/ (OnPath(p, m, k) /\ Len(p) = m /\ key.name = leaf)
    BY <1>1, ThenOnPath
<1> QED
    BY <1>1, <1>2 DEF key

(* What is read of H, and what of it in G; and the other way around.       *)
KeptAt(H, G, g, m, v, c, k, leaf, n) ==
    \A p, x : ReadAt(H, g, n, p, x) /\ ~Gone(p, m, k, leaf) =>
      IF OnPath(p, m, k) THEN x = v[n] /\ ReadAt(G, g, n, p, c[n])
      ELSE Apart(x, m, c) /\ ReadAt(G, g, n, p, x)

LeftAt(H, G, g, m, v, c, k, leaf, n) ==
    \A p, x : ReadAt(G, g, n, p, x) =>
      /\ ~Gone(p, m, k, leaf)
      /\ IF OnPath(p, m, k) THEN x = c[n] /\ ReadAt(H, g, n, p, v[n])
         ELSE Apart(x, m, c) /\ ReadAt(H, g, n, p, x)

LEMMA KeptStep ==
    ASSUME NEW H, Typed(H), Distinct(H), NEW G, NEW g, NEW m \in Nat, NEW v, NEW c, NEW k, NEW leaf,
           CutAt(H, G, g, m, v, c, k, leaf),
           NEW n \in Nat, KeptAt(H, G, g, m, v, c, k, leaf, n), NEW l, l = n + 1
    PROVE  KeptAt(H, G, g, m, v, c, k, leaf, l)
<1> SUFFICES ASSUME NEW q, NEW y, ReadAt(H, g, l, q, y), ~Gone(q, m, k, leaf)
             PROVE  IF OnPath(q, m, k) THEN y = v[l] /\ ReadAt(G, g, l, q, c[l])
                    ELSE Apart(y, m, c) /\ ReadAt(G, g, l, q, y)
    BY DEF KeptAt
<1>1. PICK p, x : ReadAt(H, g, n, p, x) /\ Leads(H, p, x, q, y)
    BY AtBefore
<1>2. PICK f \in Fields(H, x) : q = Then(p, Key(f)) /\ y = f.value
    BY <1>1 DEF Leads
<1>3. p \in Seq(Keys) /\ n = Len(p) /\ Key(f) \in Keys /\ Key(f).name = f.name
    BY <1>1, AtPath, FieldsOf, KeyIsKey DEF PathsOf, Key
<1>4. /\ OnPath(q, m, k) <=> OnPath(p, m, k) /\ n < m /\ Key(f) = k[n + 1]
      /\ Gone(q, m, k, leaf)
           <=> Gone(p, m, k, leaf) \/ (OnPath(p, m, k) /\ n = m /\ Key(f).name = leaf)
    BY <1>1, <1>2, GrownPath
<1>5. Apart(y, m, c) /\ ~Gone(p, m, k, leaf)
    BY <1>2, <1>4 DEF CutAt
<1>6. ASSUME NEW z, f \in Fields(G, z), ReadAt(G, g, n, p, z)
      PROVE  ReadAt(G, g, l, q, y)
  <2>1. Leads(G, p, z, q, y)
      BY <1>2, <1>6 DEF Leads
  <2> QED
      BY <1>6, <2>1, AtFurther
<1>7. CASE ~OnPath(p, m, k)
  <2>1. Apart(x, m, c) /\ ReadAt(G, g, n, p, x)
      BY <1>1, <1>5, <1>7 DEF KeptAt
  <2>2. f \in Fields(G, x)
      BY <1>2, <2>1 DEF CutAt
  <2> QED
      BY <1>4, <1>5, <1>6, <1>7, <2>1, <2>2
<1>8. CASE OnPath(p, m, k)
  <2>0. n <= m
      BY <1>3, <1>8 DEF OnPath
  <2>1. x = v[n] /\ ReadAt(G, g, n, p, c[n]) /\ n <= m
      BY <1>1, <1>5, <1>8, <2>0 DEF KeptAt
  <2>2. CASE n = m
    <3>1. f \in Fields(G, c[n])
        BY <1>2, <1>3, <1>4, <1>8, <2>1, <2>2 DEF CutAt, Without
    <3> QED
        BY <1>4, <1>5, <1>6, <2>1, <2>2, <3>1
  <2>3. CASE n # m /\ Key(f) # k[n + 1]
    <3>1. n \in 0..(m - 1)
        BY <2>1, <2>3
    <3>2. f \in Fields(G, c[n])
        BY <1>2, <2>1, <2>3, <3>1 DEF CutAt, Relinked
    <3> QED
        BY <1>4, <1>5, <1>6, <2>1, <2>3, <3>2
  <2>4. CASE n # m /\ Key(f) = k[n + 1]
    <3>1. n \in 0..(m - 1) /\ n < m
        BY <2>1, <2>4
    <3>2. PICK h \in Fields(H, v[n]) : Key(h) = k[n + 1] /\ h.value = v[n + 1]
        BY <3>1 DEF CutAt, Linked
    <3>3. y = v[l]
        BY <1>2, <2>1, <2>4, <3>2 DEF Distinct
    <3>4. PICK e \in Fields(G, c[n]) : Key(e) = k[n + 1]
        BY <3>1 DEF CutAt, Relinked
    <3>5. e.value = c[l]
        BY <3>1, <3>4 DEF CutAt, Relinked
    <3>6. Leads(G, p, c[n], q, c[l])
        BY <1>2, <2>4, <3>4, <3>5 DEF Leads
    <3>7. ReadAt(G, g, l, q, c[l])
        BY <2>1, <3>6, AtFurther
    <3> QED
        BY <1>4, <1>8, <2>4, <3>1, <3>3, <3>7
  <2> QED
      BY <2>2, <2>3, <2>4
<1> QED
    BY <1>7, <1>8

LEMMA LeftStep ==
    ASSUME NEW H, Typed(H), NEW G, Typed(G), NEW g, NEW m \in Nat, NEW v, NEW c, NEW k, NEW leaf,
           CutAt(H, G, g, m, v, c, k, leaf),
           NEW n \in Nat, LeftAt(H, G, g, m, v, c, k, leaf, n), NEW l, l = n + 1
    PROVE  LeftAt(H, G, g, m, v, c, k, leaf, l)
<1> SUFFICES ASSUME NEW q, NEW y, ReadAt(G, g, l, q, y)
             PROVE  /\ ~Gone(q, m, k, leaf)
                    /\ IF OnPath(q, m, k) THEN y = c[l] /\ ReadAt(H, g, l, q, v[l])
                       ELSE Apart(y, m, c) /\ ReadAt(H, g, l, q, y)
    BY DEF LeftAt
<1>1. PICK p, x : ReadAt(G, g, n, p, x) /\ Leads(G, p, x, q, y)
    BY AtBefore
<1>2. PICK f \in Fields(G, x) : q = Then(p, Key(f)) /\ y = f.value
    BY <1>1 DEF Leads
<1>3. p \in Seq(Keys) /\ n = Len(p) /\ Key(f) \in Keys /\ Key(f).name = f.name
    BY <1>1, AtPath, FieldsOf, KeyIsKey DEF PathsOf, Key
<1>4. /\ OnPath(q, m, k) <=> OnPath(p, m, k) /\ n < m /\ Key(f) = k[n + 1]
      /\ Gone(q, m, k, leaf)
           <=> Gone(p, m, k, leaf) \/ (OnPath(p, m, k) /\ n = m /\ Key(f).name = leaf)
    BY <1>1, <1>2, GrownPath
<1>5. ~Gone(p, m, k, leaf)
    BY <1>1 DEF LeftAt
<1>6. ASSUME NEW z, f \in Fields(H, z), ReadAt(H, g, n, p, z)
      PROVE  Apart(y, m, c) /\ ReadAt(H, g, l, q, y)
  <2>1. Leads(H, p, z, q, y)
      BY <1>2, <1>6 DEF Leads
  <2>2. Apart(y, m, c)
      BY <1>2, <1>6 DEF CutAt
  <2> QED
      BY <1>6, <2>1, <2>2, AtFurther
<1>7. CASE ~OnPath(p, m, k)
  <2>1. Apart(x, m, c) /\ ReadAt(H, g, n, p, x)
      BY <1>1, <1>7 DEF LeftAt
  <2>2. f \in Fields(H, x)
      BY <1>2, <2>1 DEF CutAt
  <2> QED
      BY <1>4, <1>5, <1>6, <1>7, <2>1, <2>2
<1>8. CASE OnPath(p, m, k)
  <2>1. x = c[n] /\ ReadAt(H, g, n, p, v[n]) /\ n <= m
      BY <1>1, <1>3, <1>8 DEF LeftAt, OnPath
  <2>2. CASE n = m
    <3>1. f \in Fields(H, v[n]) /\ f.name # leaf
        BY <1>2, <2>1, <2>2 DEF CutAt, Without
    <3> QED
        BY <1>3, <1>4, <1>5, <1>6, <2>1, <2>2, <3>1
  <2>3. CASE n # m /\ Key(f) # k[n + 1]
    <3>1. n \in 0..(m - 1)
        BY <2>1, <2>3
    <3>2. f \in Fields(H, v[n])
        BY <1>2, <2>1, <2>3, <3>1 DEF CutAt, Relinked
    <3> QED
        BY <1>4, <1>5, <1>6, <2>1, <2>3, <3>2
  <2>4. CASE n # m /\ Key(f) = k[n + 1]
    <3>1. n \in 0..(m - 1) /\ n < m
        BY <2>1, <2>4
    <3>2. y = c[l]
        BY <1>2, <2>1, <2>4, <3>1 DEF CutAt, Relinked
    <3>3. PICK h \in Fields(H, v[n]) : Key(h) = k[n + 1] /\ h.value = v[n + 1]
        BY <3>1 DEF CutAt, Linked
    <3>4. Leads(H, p, v[n], q, v[l])
        BY <1>2, <2>4, <3>3 DEF Leads
    <3>5. ReadAt(H, g, l, q, v[l])
        BY <2>1, <3>4, AtFurther
    <3> QED
        BY <1>4, <1>5, <1>8, <2>4, <3>1, <3>2, <3>5
  <2> QED
      BY <2>2, <2>3, <2>4
<1> QED
    BY <1>7, <1>8

LEMMA CutReads ==
    ASSUME NEW H, Typed(H), Distinct(H), NEW G, Typed(G), NEW g, NEW m \in Nat,
           NEW v, NEW c, NEW k, NEW leaf, CutAt(H, G, g, m, v, c, k, leaf)
    PROVE  Readable(G, g) = {p \in Readable(H, g) : ~Gone(p, m, k, leaf)}
<1> DEFINE S == {n \in Nat : /\ KeptAt(H, G, g, m, v, c, k, leaf, n)
                             /\ LeftAt(H, G, g, m, v, c, k, leaf, n)}
<1>1. KeptAt(H, G, g, m, v, c, k, leaf, 0) /\ LeftAt(H, G, g, m, v, c, k, leaf, 0)
  <2>1. ~Gone(<<>>, m, k, leaf) /\ OnPath(<<>>, m, k)
      BY DEF Gone, OnPath
  <2>2. v[0] = g /\ c[0] = g
      BY DEF CutAt
  <2>3. \A p, x : ReadAt(H, g, 0, p, x) => p = <<>> /\ x = g
      BY AtStart
  <2>4. \A p, x : ReadAt(G, g, 0, p, x) => p = <<>> /\ x = g
      BY AtStart
  <2>5. ReadAt(H, g, 0, <<>>, g) /\ ReadAt(G, g, 0, <<>>, g)
      BY AtStart
  <2>6. KeptAt(H, G, g, m, v, c, k, leaf, 0)
      BY <2>1, <2>2, <2>3, <2>5 DEF KeptAt
  <2> QED
      BY <2>1, <2>2, <2>4, <2>5, <2>6 DEF LeftAt
<1>2. ASSUME NEW n \in Nat, KeptAt(H, G, g, m, v, c, k, leaf, n),
             LeftAt(H, G, g, m, v, c, k, leaf, n), NEW l, l = n + 1
      PROVE  KeptAt(H, G, g, m, v, c, k, leaf, l) /\ LeftAt(H, G, g, m, v, c, k, leaf, l)
    BY <1>2, KeptStep, LeftStep
<1>3. 0 \in S /\ \A n \in Nat : n \in S => n + 1 \in S
    BY <1>1, <1>2
<1> HIDE DEF S
<1>4. \A n \in Nat : n \in S
    BY <1>3, NumbersAll
<1>5. \A n \in 1..Depth : /\ KeptAt(H, G, g, m, v, c, k, leaf, n)
                          /\ LeftAt(H, G, g, m, v, c, k, leaf, n)
    BY <1>4, GovernanceAssumption DEF S
<1>6. ASSUME NEW p \in Readable(G, g)
      PROVE  p \in Readable(H, g) /\ ~Gone(p, m, k, leaf)
  <2>1. PICK n \in 1..Depth : \E x : ReadAt(G, g, n, p, x)
      BY <1>6, ReadableIs
  <2>2. ~Gone(p, m, k, leaf) /\ \E x : ReadAt(H, g, n, p, x)
      BY <1>5, <2>1 DEF LeftAt
  <2> QED
      BY <2>2, ReadableIs
<1>7. ASSUME NEW p \in Readable(H, g), ~Gone(p, m, k, leaf)
      PROVE  p \in Readable(G, g)
  <2>1. PICK n \in 1..Depth : \E x : ReadAt(H, g, n, p, x)
      BY <1>7, ReadableIs
  <2>2. \E x : ReadAt(G, g, n, p, x)
      BY <1>5, <1>7, <2>1 DEF KeptAt
  <2> QED
      BY <2>2, ReadableIs
<1> QED
    BY <1>6, <1>7

-----------------------------------------------------------------------------
(* Objects: with a field pointed elsewhere, and without those of a name.   *)
Tidy(o, V) ==
    /\ o \in Seq(ObjectField) /\ \A i \in DOMAIN o : o[i].value \in V
    /\ \A i, j \in DOMAIN o : Key(o[i]) = Key(o[j]) => i = j

Pointed(o, key, value) == [o EXCEPT ![key].value = value]

LEMMA PointedIs ==
    ASSUME NEW V, NEW o, Tidy(o, V), NEW key \in DOMAIN o, NEW w \in Nat
    PROVE  /\ Pointed(o, key, w) \in Seq(ObjectField) /\ DOMAIN Pointed(o, key, w) = DOMAIN o
           /\ \A i \in DOMAIN o : /\ Key(Pointed(o, key, w)[i]) = Key(o[i])
                                  /\ i # key => Pointed(o, key, w)[i] = o[i]
           /\ Pointed(o, key, w)[key].value = w
<1> DEFINE r == Pointed(o, key, w)
<1>1. o \in Seq(ObjectField) /\ key \in 1..Len(o) /\ DOMAIN o = 1..Len(o)
    BY DEF Tidy
<1>2. /\ o[key] = [name |-> o[key].name, spelling |-> o[key].spelling, value |-> o[key].value]
      /\ o[key].name \in STRING /\ o[key].spelling \in STRING
  <2>1. o[key] \in ObjectField
      BY <1>1
  <2>2. \A f \in ObjectField :
          /\ f = [name |-> f.name, spelling |-> f.spelling, value |-> f.value]
          /\ f.name \in STRING /\ f.spelling \in STRING
      BY DEF ObjectField
  <2> QED
      BY <2>1, <2>2
<1>3. r = [i \in 1..Len(o) |-> IF i = key THEN [o[key] EXCEPT !.value = w] ELSE o[i]]
    BY <1>1 DEF Pointed
<1>4. [o[key] EXCEPT !.value = w] = [name |-> o[key].name, spelling |-> o[key].spelling, value |-> w]
    BY <1>2
<1>5. [name |-> o[key].name, spelling |-> o[key].spelling, value |-> w] \in ObjectField
    BY <1>2 DEF ObjectField
<1>6. \A i \in 1..Len(o) : o[i] \in ObjectField
    BY <1>1
<1>7. Len(o) \in Nat
    BY <1>1
<1> HIDE DEF r
<1>8. /\ DOMAIN r = 1..Len(o) /\ \A i \in 1..Len(o) : i # key => r[i] = o[i]
      /\ r[key] = [name |-> o[key].name, spelling |-> o[key].spelling, value |-> w]
    BY <1>1, <1>3, <1>4
<1>9. r \in Seq(ObjectField)
  <2>1. \A i \in 1..Len(o) : r[i] \in ObjectField
      BY <1>5, <1>6, <1>8
  <2>2. r = [i \in 1..Len(o) |-> r[i]]
      BY <1>3, <1>8
  <2> QED
      BY <1>7, <2>1, <2>2
<1>10. Key(r[key]) = Key(o[key]) /\ r[key].value = w
    BY <1>8 DEF Key
<1>11. \A i \in 1..Len(o) : Key(r[i]) = Key(o[i])
    BY <1>8, <1>10
<1> QED
    BY <1>1, <1>8, <1>9, <1>10, <1>11 DEF r

(* What is kept of the first n fields.                                     *)
KeptOf(o, name, r, n) ==
    /\ r \in Seq(ObjectField)
    /\ \A i \in DOMAIN r : r[i].name # name /\ \E j \in 1..n : r[i] = o[j]
    /\ \A j \in 1..n : o[j].name # name => \E i \in DOMAIN r : r[i] = o[j]
    /\ \A i, j \in DOMAIN r : Key(r[i]) = Key(r[j]) => i = j

LEMMA KeptOfNext ==
    ASSUME NEW V, NEW o, Tidy(o, V), NEW name, NEW n \in Nat, NEW m, m = n + 1, m <= Len(o),
           NEW r, KeptOf(o, name, r, n), o[m].name # name, NEW s, s = Append(r, o[m])
    PROVE  KeptOf(o, name, s, m)
<1>1. /\ r \in Seq(ObjectField) /\ Len(r) \in Nat /\ DOMAIN r = 1..Len(r)
      /\ \A i \in 1..Len(r) : r[i].name # name /\ \E j \in 1..n : r[i] = o[j]
      /\ \A j \in 1..n : o[j].name # name => \E i \in 1..Len(r) : r[i] = o[j]
      /\ \A i, j \in 1..Len(r) : Key(r[i]) = Key(r[j]) => i = j
  <2>1. r \in Seq(ObjectField)
      BY DEF KeptOf
  <2>2. Len(r) \in Nat /\ DOMAIN r = 1..Len(r)
      BY <2>1
  <2> QED
      BY <2>1, <2>2 DEF KeptOf
<1>2. o \in Seq(ObjectField) /\ DOMAIN o = 1..Len(o) /\ m \in 1..Len(o) /\ o[m] \in ObjectField
    BY DEF Tidy
<1>3. /\ s \in Seq(ObjectField) /\ DOMAIN s = 1..(Len(r) + 1)
      /\ (\A i \in 1..Len(r) : s[i] = r[i]) /\ s[Len(r) + 1] = o[m]
    BY <1>1, <1>2
<1>4. \A i \in 1..(Len(r) + 1) : i \in 1..Len(r) \/ i = Len(r) + 1
    BY <1>1
<1>5. \A i \in 1..Len(r) : i \in 1..(Len(r) + 1)
    BY <1>1
<1>6. \A j \in 1..m : j \in 1..n \/ j = m
    OBVIOUS
<1>7. \A j \in 1..n : j \in 1..m /\ j # m /\ j \in 1..Len(o)
    BY <1>2
<1>8. \A i \in DOMAIN s : s[i].name # name /\ \E j \in 1..m : s[i] = o[j]
    BY <1>1, <1>3, <1>4, <1>7
<1>9. \A j \in 1..m : o[j].name # name => \E i \in DOMAIN s : s[i] = o[j]
  <2> SUFFICES ASSUME NEW j \in 1..m, o[j].name # name
               PROVE  \E i \in DOMAIN s : s[i] = o[j]
      OBVIOUS
  <2>1. CASE j = m
    <3>1. Len(r) + 1 \in DOMAIN s
        BY <1>1, <1>3
    <3> QED
        BY <1>3, <2>1, <3>1
  <2>2. CASE j # m
    <3>1. PICK i \in 1..Len(r) : r[i] = o[j]
        BY <1>1, <1>6, <2>2
    <3>2. i \in DOMAIN s /\ s[i] = o[j]
        BY <1>3, <1>5, <3>1
    <3> QED
        BY <3>2
  <2> QED
      BY <2>1, <2>2
<1>10. \A i \in 1..Len(r) : Key(s[i]) # Key(s[Len(r) + 1])
  <2> SUFFICES ASSUME NEW i \in 1..Len(r), Key(s[i]) = Key(s[Len(r) + 1]) PROVE FALSE
      OBVIOUS
  <2>1. PICK j \in 1..n : r[i] = o[j]
      BY <1>1
  <2>2. Key(o[j]) = Key(o[m])
      BY <1>3, <2>1
  <2>3. j \in DOMAIN o /\ m \in DOMAIN o
      BY <1>2, <1>7
  <2>4. j = m
      BY <2>2, <2>3 DEF Tidy
  <2> QED
      BY <1>7, <2>4
<1>11. \A i, j \in DOMAIN s : Key(s[i]) = Key(s[j]) => i = j
  <2> SUFFICES ASSUME NEW i \in DOMAIN s, NEW j \in DOMAIN s, Key(s[i]) = Key(s[j])
               PROVE  i = j
      OBVIOUS
  <2>1. CASE i \in 1..Len(r) /\ j \in 1..Len(r)
      BY <1>1, <1>3, <2>1
  <2>2. CASE ~(i \in 1..Len(r) /\ j \in 1..Len(r))
      BY <1>3, <1>4, <1>10, <2>2
  <2> QED
      BY <2>1, <2>2
<1> QED
    BY <1>3, <1>8, <1>9, <1>11 DEF KeptOf

LEMMA KeptOfSame ==
    ASSUME NEW o, NEW name, NEW n \in Nat, NEW m, m = n + 1,
           NEW r, KeptOf(o, name, r, n), o[m].name = name
    PROVE  KeptOf(o, name, r, m)
<1>1. \A j \in 1..m : j \in 1..n \/ j = m
    OBVIOUS
<1>2. \A j \in 1..n : j \in 1..m
    OBVIOUS
<1> QED
    BY <1>1, <1>2 DEF KeptOf

LEMMA WithoutIs ==
    ASSUME NEW V, NEW o, Tidy(o, V), NEW name
    PROVE  KeptOf(o, name, WithoutNamed(o, name), Len(o))
<1>1. o \in Seq(ObjectField) /\ Len(o) \in Nat
    BY DEF Tidy
<1>2. PICK f : /\ f[0] = <<>> /\ \A k \in 1..Len(o) : f[k] = Keep(name, f[k - 1], o[k])
               /\ WithoutNamed(o, name) = f[Len(o)]
    BY <1>1, KeepSteps
<1> DEFINE S == {n \in Nat : n <= Len(o) => KeptOf(o, name, f[n], n)}
<1>3. KeptOf(o, name, f[0], 0)
  <2>1. f[0] \in Seq(ObjectField) /\ DOMAIN f[0] = {}
      BY <1>2
  <2> QED
      BY <2>1 DEF KeptOf
<1>4. ASSUME NEW n \in Nat, n <= Len(o) => KeptOf(o, name, f[n], n), NEW m, m = n + 1, m <= Len(o)
      PROVE  KeptOf(o, name, f[m], m)
  <2>1. KeptOf(o, name, f[n], n) /\ m \in 1..Len(o) /\ m - 1 = n
      BY <1>1, <1>4
  <2>2. f[m] = Keep(name, f[n], o[m])
      BY <1>2, <2>1
  <2>3. CASE o[m].name = name
    <3>1. f[m] = f[n]
        BY <2>2, <2>3 DEF Keep
    <3> QED
        BY <1>4, <2>1, <2>3, <3>1, KeptOfSame
  <2>4. CASE o[m].name # name
    <3>1. f[m] = Append(f[n], o[m])
        BY <2>2, <2>4 DEF Keep
    <3> HIDE DEF S
    <3> QED
        BY <1>4, <2>1, <2>4, <3>1, KeptOfNext
  <2> QED
      BY <2>3, <2>4
<1>5. 0 \in S /\ \A n \in Nat : n \in S => n + 1 \in S
    BY <1>3, <1>4
<1> HIDE DEF S
<1>6. Len(o) \in S
    BY <1>1, <1>5, NumbersAll
<1> QED
    BY <1>1, <1>2, <1>6 DEF S

LEMMA WithoutTidy ==
    ASSUME NEW V, NEW o, Tidy(o, V), NEW name
    PROVE  /\ Tidy(WithoutNamed(o, name), V)
           /\ \A i \in DOMAIN WithoutNamed(o, name) :
                /\ WithoutNamed(o, name)[i].name # name
                /\ \E j \in DOMAIN o : WithoutNamed(o, name)[i] = o[j]
           /\ \A j \in DOMAIN o : o[j].name # name =>
                \E i \in DOMAIN WithoutNamed(o, name) : WithoutNamed(o, name)[i] = o[j]
<1> DEFINE r == WithoutNamed(o, name)
<1>0. DOMAIN o = 1..Len(o)
    BY DEF Tidy
<1>1. KeptOf(o, name, r, Len(o)) /\ DOMAIN o = 1..Len(o)
    BY <1>0, WithoutIs
<1> HIDE DEF r
<1>2. \A i \in DOMAIN r : r[i].value \in V
    BY <1>1 DEF KeptOf, Tidy
<1>3. Tidy(r, V)
    BY <1>1, <1>2 DEF KeptOf, Tidy
<1> QED
    BY <1>1, <1>3 DEF KeptOf, r
-----------------------------------------------------------------------------
(* A heap while it is governed: nothing in it refers to the copy g.        *)
Values(H, g) == (DOMAIN H \ {g}) \cup {Scalar, Throws}

Sound(H, g) ==
    /\ Typed(H) /\ g \in DOMAIN H
    /\ \A x \in DOMAIN H : Tidy(H[x], Values(H, g))

(* Some getter throws.                                                     *)
Trapped(H) == \E x \in DOMAIN H : ~Copied(H[x])

LEMMA SoundIs ==
    ASSUME NEW H, NEW g, Sound(H, g)
    PROVE  /\ Typed(H) /\ Distinct(H) /\ DOMAIN H = 1..Len(H) /\ Len(H) \in Nat
           /\ \A x : \A f \in Fields(H, x) : f.value \in Values(H, g)
<1>1. Typed(H) /\ DOMAIN H = 1..Len(H) /\ Len(H) \in Nat
    BY DEF Sound, Typed
<1>2. ASSUME NEW x, NEW f \in Fields(H, x)
      PROVE  x \in DOMAIN H /\ \E i \in DOMAIN H[x] : f = H[x][i]
    BY <1>1, FieldsOf
<1>3. ASSUME NEW x, NEW f \in Fields(H, x), NEW h \in Fields(H, x), Key(f) = Key(h)
      PROVE  f = h
  <2>1. PICK i \in DOMAIN H[x] : f = H[x][i]
      BY <1>2
  <2>2. PICK j \in DOMAIN H[x] : h = H[x][j]
      BY <1>2
  <2>3. Tidy(H[x], Values(H, g))
      BY <1>2 DEF Sound
  <2> QED
      BY <1>3, <2>1, <2>2, <2>3 DEF Tidy
<1>4. ASSUME NEW x, NEW f \in Fields(H, x)
      PROVE  f.value \in Values(H, g)
  <2>1. PICK i \in DOMAIN H[x] : f = H[x][i]
      BY <1>2
  <2>2. Tidy(H[x], Values(H, g))
      BY <1>2 DEF Sound
  <2> QED
      BY <2>1, <2>2 DEF Tidy
<1> QED
    BY <1>1, <1>3, <1>4 DEF Distinct

-----------------------------------------------------------------------------
(* The ancestors of a path, looked up: v[j] after j of them, by the keys ks*)
Walked(H, g, names, v, ks, n) ==
    /\ v[0] = g /\ ks \in Seq(Nat) /\ Len(ks) = n
    /\ \A j \in 1..n : /\ v[j - 1] \in DOMAIN H /\ ks[j] \in DOMAIN H[v[j - 1]]
                       /\ H[v[j - 1]][ks[j]].name = names[j]
                       /\ v[j] = H[v[j - 1]][ks[j]].value

NoneNamed(H, x, name) == \A f \in Fields(H, x) : f.name # name

LEMMA MatchingIs ==
    ASSUME NEW H, Typed(H), NEW x, NEW name
    PROVE  (matchingKeysCaseInsensitive(H, x, name) = {}) <=> NoneNamed(H, x, name)
<1>1. CASE x \in DOMAIN H
  <2>1. Fields(H, x) = {H[x][i] : i \in DOMAIN H[x]}
      BY <1>1, FieldsOf
  <2>2. matchingKeysCaseInsensitive(H, x, name) = {i \in DOMAIN H[x] : H[x][i].name = name}
      BY <1>1 DEF matchingKeysCaseInsensitive, IsObject
  <2> QED
      BY <2>1, <2>2 DEF NoneNamed
<1>2. CASE x \notin DOMAIN H
  <2>1. Fields(H, x) = {}
      BY <1>2, FieldsOf
  <2>2. matchingKeysCaseInsensitive(H, x, name) = {}
      BY <1>2 DEF matchingKeysCaseInsensitive, IsObject
  <2> QED
      BY <2>1, <2>2 DEF NoneNamed
<1> QED
    BY <1>1, <1>2

LEMMA FoundIs ==
    ASSUME NEW H, Typed(H), NEW x, NEW name
    PROVE  /\ (findKeyCaseInsensitive(H, x, name) = {}) <=> NoneNamed(H, x, name)
           /\ \A key \in findKeyCaseInsensitive(H, x, name) :
                x \in DOMAIN H /\ key \in DOMAIN H[x] /\ key \in Nat /\ H[x][key].name = name
<1> DEFINE M == matchingKeysCaseInsensitive(H, x, name)
<1>1. \A key \in M : x \in DOMAIN H /\ key \in DOMAIN H[x] /\ H[x][key].name = name
    BY DEF matchingKeysCaseInsensitive, IsObject
<1>2. \A y \in DOMAIN H : DOMAIN H[y] \subseteq Nat
  <2>1. ASSUME NEW y \in DOMAIN H
        PROVE  DOMAIN H[y] = 1..Len(H[y]) /\ Len(H[y]) \in Nat
      BY DEF Typed
  <2> QED
      BY <2>1
<1>3. M \in SUBSET Nat
    BY <1>1, <1>2
<1>4. findKeyCaseInsensitive(H, x, name) = {i \in M : \A j \in M : i <= j}
    BY DEF findKeyCaseInsensitive
<1>5. M = {} <=> NoneNamed(H, x, name)
    BY MatchingIs
<1> HIDE DEF M
<1>6. M # {} => \E i \in M : \A j \in M : i <= j
    BY <1>3, LeastOf
<1> QED
    BY <1>1, <1>3, <1>4, <1>5, <1>6

(* One ancestor further, or lost.                                          *)
PathTo(H, a, ks, lost, throws) ==
    [heap |-> H, cur |-> a, keys |-> ks, lost |-> lost, throws |-> throws]

LEMMA PathLost ==
    ASSUME NEW H, NEW a, NEW ks, NEW lost, NEW throws, NEW t
    PROVE  [PathTo(H, a, ks, lost, throws) EXCEPT !.lost = t] = PathTo(H, a, ks, t, throws)
BY DEF PathTo

DescendsOn(H, a, ks, lost, throws, name) ==
    /\ lost \/ NoneNamed(H, a, name) =>
         Descend(PathTo(H, a, ks, lost, throws), name) = PathTo(H, a, ks, TRUE, throws)
    /\ ~lost /\ ~NoneNamed(H, a, name) =>
         \E key \in DOMAIN H[a] :
           /\ a \in DOMAIN H /\ key \in Nat /\ H[a][key].name = name
           /\ Descend(PathTo(H, a, ks, lost, throws), name)
                = PathTo(H, H[a][key].value, Append(ks, key), lost,
                         throws \/ H[a][key].value = Throws)

LEMMA DescendIs ==
    ASSUME NEW H, Typed(H), NEW a, NEW ks, NEW lost, NEW throws, NEW name
    PROVE  DescendsOn(H, a, ks, lost, throws, name)
<1> DEFINE path == PathTo(H, a, ks, lost, throws)
           found == findKeyCaseInsensitive(H, a, name)
<1>1. path.heap = H /\ path.cur = a /\ path.keys = ks /\ path.lost = lost /\ path.throws = throws
    BY DEF PathTo
<1>2. found = {} <=> NoneNamed(H, a, name)
    BY FoundIs
<1>3. CASE lost \/ NoneNamed(H, a, name)
  <2>1. Descend(path, name) = [path EXCEPT !.lost = TRUE]
      BY <1>1, <1>2, <1>3 DEF Descend
  <2>2. [path EXCEPT !.lost = TRUE] = PathTo(H, a, ks, TRUE, throws)
    <3> DEFINE t == TRUE
    <3> HIDE DEF t
    <3>1. [PathTo(H, a, ks, lost, throws) EXCEPT !.lost = t] = PathTo(H, a, ks, t, throws)
        BY PathLost
    <3> QED
        BY <3>1 DEF t
  <2> QED
      BY <1>3, <2>1, <2>2 DEF DescendsOn
<1>4. CASE ~lost /\ ~NoneNamed(H, a, name)
  <2> DEFINE key == CHOOSE key \in found : TRUE
             value == H[a][key].value
  <2>1. key \in found
      BY <1>2, <1>4
  <2>2. Descend(path, name)
          = [path EXCEPT !.keys = Append(@, key), !.cur = value, !.throws = @ \/ value = Throws]
      BY <1>1, <1>2, <1>4 DEF Descend
  <2> HIDE DEF key
  <2>3. [path EXCEPT !.keys = Append(@, key), !.cur = value, !.throws = @ \/ value = Throws]
          = PathTo(H, value, Append(ks, key), lost, throws \/ value = Throws)
    <3> DEFINE more == Append(ks, key)
               u == throws \/ value = Throws
               w == path.throws \/ value = Throws
    <3>1. w = u /\ path.keys = ks
        BY <1>1
    <3> HIDE DEF value, more, u
    <3>2. [PathTo(H, a, ks, lost, throws) EXCEPT !.keys = more, !.cur = value, !.throws = u]
            = PathTo(H, value, more, lost, u)
      <4>1. [PathTo(H, a, ks, lost, throws) EXCEPT !.keys = more]
              = PathTo(H, a, more, lost, throws)
          BY DEF PathTo
      <4>2. [PathTo(H, a, more, lost, throws) EXCEPT !.cur = value]
              = PathTo(H, value, more, lost, throws)
          BY DEF PathTo
      <4>3. [PathTo(H, value, more, lost, throws) EXCEPT !.throws = u]
              = PathTo(H, value, more, lost, u)
          BY DEF PathTo
      <4> QED
          BY <4>1, <4>2, <4>3
    <3>3. [path EXCEPT !.keys = Append(path.keys, key), !.cur = value, !.throws = w]
            = PathTo(H, value, more, lost, u)
        BY <3>1, <3>2 DEF more
    <3> QED
        BY <3>3 DEF more, u
  <2>4. a \in DOMAIN H /\ key \in DOMAIN H[a] /\ key \in Nat /\ H[a][key].name = name
      BY <2>1, FoundIs
  <2> QED
    <3> DEFINE next == Descend(path, name)
    <3>1. next = PathTo(H, value, Append(ks, key), lost, throws \/ value = Throws)
        BY <2>2, <2>3
    <3> HIDE DEF next
    <3>2. \E i \in DOMAIN H[a] :
             /\ a \in DOMAIN H /\ i \in Nat /\ H[a][i].name = name
             /\ next = PathTo(H, H[a][i].value, Append(ks, i), lost,
                             throws \/ H[a][i].value = Throws)
        BY <2>4, <3>1
    <3> QED
        BY <1>4, <3>2 DEF DescendsOn, next
<1> QED
    BY <1>3, <1>4

(* Where n ancestors lead: on, or to where one is missing.                 *)
Missing(H, g, names, v, m) ==
    \E n \in 0..m : /\ NoneNamed(H, v[n], names[n + 1])
                    /\ \E ks : Walked(H, g, names, v, ks, n)

DescendedTo(H, g, names, v, path, n) ==
    \E ks, lost, throws :
      /\ path = PathTo(H, v[n], ks, lost, throws)
      /\ throws => Trapped(H)
      /\ lost => n > 0 /\ Missing(H, g, names, v, n - 1)
      /\ ~lost => Walked(H, g, names, v, ks, n)

LEMMA WalkedOn ==
    ASSUME NEW H, NEW g, NEW names, NEW v, NEW ks, NEW n \in Nat, Walked(H, g, names, v, ks, n),
           NEW m, m = n + 1, NEW key \in Nat, v[n] \in DOMAIN H, key \in DOMAIN H[v[n]],
           H[v[n]][key].name = names[m], v[m] = H[v[n]][key].value,
           NEW more, more = Append(ks, key)
    PROVE  Walked(H, g, names, v, more, m)
<1>1. ks \in Seq(Nat) /\ Len(ks) = n
    BY DEF Walked
<1>2. /\ more \in Seq(Nat) /\ Len(more) = m /\ more[m] = key
      /\ \A j \in 1..n : more[j] = ks[j]
    BY <1>1
<1>3. ASSUME NEW j \in 1..m
      PROVE  /\ v[j - 1] \in DOMAIN H /\ more[j] \in DOMAIN H[v[j - 1]]
             /\ H[v[j - 1]][more[j]].name = names[j]
             /\ v[j] = H[v[j - 1]][more[j]].value
  <2>1. CASE j = m
    <3>1. j - 1 = n
        BY <2>1
    <3> QED
        BY <1>2, <2>1, <3>1
  <2>2. CASE j # m
    <3>1. j \in 1..n
        BY <2>2
    <3> QED
        BY <1>2, <3>1 DEF Walked
  <2> QED
      BY <2>1, <2>2
<1> QED
    BY <1>2, <1>3 DEF Walked

LEMMA DescendedStep ==
    ASSUME NEW H, Typed(H), NEW g, NEW names, NEW v, NEW n \in Nat, NEW m, m = n + 1,
           NEW path, DescendedTo(H, g, names, v, path, n),
           NEW next, next = Descend(path, names[m]), v[m] = next.cur
    PROVE  DescendedTo(H, g, names, v, next, m)
<1>1. PICK ks, lost, throws :
        /\ path = PathTo(H, v[n], ks, lost, throws)
        /\ throws => Trapped(H)
        /\ lost => n > 0 /\ Missing(H, g, names, v, n - 1)
        /\ ~lost => Walked(H, g, names, v, ks, n)
    BY DEF DescendedTo
<1>2. CASE lost \/ NoneNamed(H, v[n], names[m])
  <2>1. next = PathTo(H, v[n], ks, TRUE, throws)
    <3> DEFINE a == v[n]
               name == names[m]
    <3>1. (lost \/ NoneNamed(H, a, name)) /\ next = Descend(PathTo(H, a, ks, lost, throws), name)
        BY <1>1, <1>2
    <3> HIDE DEF a, name
    <3>2. DescendsOn(H, a, ks, lost, throws, name)
        BY DescendIs
    <3>3. next = PathTo(H, a, ks, TRUE, throws)
        BY <3>1, <3>2 DEF DescendsOn
    <3> QED
        BY <3>3 DEF a
  <2>2. v[m] = v[n]
      BY <2>1 DEF PathTo
  <2>3. Missing(H, g, names, v, n)
    <3>1. CASE lost
      <4>1. PICK j \in 0..(n - 1) : /\ NoneNamed(H, v[j], names[j + 1])
                                    /\ \E some : Walked(H, g, names, v, some, j)
          BY <1>1, <3>1 DEF Missing
      <4>2. j \in 0..n
          BY <4>1
      <4> QED
          BY <4>1, <4>2 DEF Missing
    <3>2. CASE ~lost
      <4>1. n \in 0..n /\ n + 1 = m
          OBVIOUS
      <4> QED
          BY <1>1, <1>2, <3>2, <4>1 DEF Missing
    <3> QED
        BY <3>1, <3>2
  <2>4. m > 0 /\ m - 1 = n
      OBVIOUS
  <2>5. next = PathTo(H, v[m], ks, TRUE, throws)
      BY <2>1, <2>2
  <2> QED
      BY <1>1, <2>3, <2>4, <2>5 DEF DescendedTo
<1>3. CASE ~lost /\ ~NoneNamed(H, v[n], names[m])
  <2>1. PICK key \in DOMAIN H[v[n]] :
           /\ v[n] \in DOMAIN H /\ key \in Nat /\ H[v[n]][key].name = names[m]
           /\ next = PathTo(H, H[v[n]][key].value, Append(ks, key), lost,
                            throws \/ H[v[n]][key].value = Throws)
    <3> DEFINE a == v[n]
               name == names[m]
    <3>1. /\ ~lost /\ ~NoneNamed(H, a, name)
          /\ next = Descend(PathTo(H, a, ks, lost, throws), name)
        BY <1>1, <1>3
    <3> HIDE DEF a, name
    <3>2. DescendsOn(H, a, ks, lost, throws, name)
        BY DescendIs
    <3>3. \E key \in DOMAIN H[a] :
             /\ a \in DOMAIN H /\ key \in Nat /\ H[a][key].name = name
             /\ next = PathTo(H, H[a][key].value, Append(ks, key), lost,
                              throws \/ H[a][key].value = Throws)
        BY <3>1, <3>2 DEF DescendsOn
    <3> QED
        BY <3>3 DEF a, name
  <2>2. v[m] = H[v[n]][key].value
      BY <2>1 DEF PathTo
  <2>3. Walked(H, g, names, v, Append(ks, key), m)
    <3> DEFINE more == Append(ks, key)
    <3>1. more = Append(ks, key) /\ Walked(H, g, names, v, ks, n)
        BY <1>1, <1>3
    <3> HIDE DEF more
    <3>2. Walked(H, g, names, v, more, m)
        BY <2>1, <2>2, <3>1, WalkedOn
    <3> QED
        BY <3>1, <3>2
  <2>4. throws \/ H[v[n]][key].value = Throws => Trapped(H)
    <3>1. H[v[n]][key].value = Throws => ~Copied(H[v[n]])
        BY <2>1 DEF Copied
    <3> QED
        BY <1>1, <2>1, <3>1 DEF Trapped
  <2>5. next = PathTo(H, v[m], Append(ks, key), lost, throws \/ H[v[n]][key].value = Throws)
      BY <2>1, <2>2
  <2> DEFINE more == Append(ks, key)
             u == throws \/ H[v[n]][key].value = Throws
  <2>6. next = PathTo(H, v[m], more, lost, u) /\ (u => Trapped(H)) /\ Walked(H, g, names, v, more, m)
      BY <2>3, <2>4, <2>5
  <2> HIDE DEF more, u
  <2> QED
      BY <1>3, <2>6 DEF DescendedTo
<1> QED
    BY <1>2, <1>3

LEMMA DescendsTo ==
    ASSUME NEW H, Typed(H), NEW g, NEW names, Len(names) \in Nat
    PROVE  \E v : DescendedTo(H, g, names, v,
                    Folded(Descend, PathTo(H, g, <<>>, FALSE, FALSE), names), Len(names))
<1> DEFINE m == Len(names)
           start == PathTo(H, g, <<>>, FALSE, FALSE)
<1>1. PICK f : /\ f[0] = start /\ \A k \in 1..m : f[k] = Descend(f[k - 1], names[k])
               /\ Folded(Descend, start, names) = f[m]
    BY DescendSteps
<1> DEFINE v == [n \in 0..m |-> f[n].cur]
           S == {n \in Nat : n <= m => DescendedTo(H, g, names, v, f[n], n)}
<1>2. DescendedTo(H, g, names, v, f[0], 0)
  <2>1. v[0] = g
      BY <1>1 DEF PathTo
  <2> HIDE DEF v
  <2>2. <<>> \in Seq(Nat) /\ Len(<<>>) = 0
      OBVIOUS
  <2>3. Walked(H, g, names, v, <<>>, 0)
      BY <2>1, <2>2 DEF Walked
  <2>4. f[0] = PathTo(H, v[0], <<>>, FALSE, FALSE)
      BY <1>1, <2>1
  <2> QED
      BY <2>3, <2>4 DEF DescendedTo
<1>3. ASSUME NEW n \in Nat, n <= m => DescendedTo(H, g, names, v, f[n], n),
             NEW l, l = n + 1, l <= m
      PROVE  DescendedTo(H, g, names, v, f[l], l)
  <2>1. l \in 1..m /\ l - 1 = n /\ n <= m /\ l \in 0..m
      BY <1>3
  <2>2. f[l] = Descend(f[n], names[l]) /\ v[l] = f[l].cur
      BY <1>1, <2>1
  <2> HIDE DEF v, S
  <2> QED
      BY <1>3, <2>1, <2>2, DescendedStep
<1>4. 0 \in S /\ \A n \in Nat : n \in S => n + 1 \in S
    BY <1>2, <1>3
<1> HIDE DEF S
<1>5. m \in S
    BY <1>4, NumbersAll
<1> HIDE DEF v
<1>6. DescendedTo(H, g, names, v, f[m], m)
    BY <1>5 DEF S
<1> QED
    BY <1>1, <1>6

-----------------------------------------------------------------------------
(* The ancestors cloned: the j-th of them lies at Clone(H, g, j).          *)
Clone(H, g, j) == IF j = 0 THEN g ELSE Len(H) + j

LEMMA CloneIs ==
    ASSUME NEW H, NEW g, Sound(H, g), NEW i \in Nat
    PROVE  /\ Clone(H, g, i) \in 1..(Len(H) + i)
           /\ i # 0 => Clone(H, g, i) = Len(H) + i /\ Clone(H, g, i) # g
           /\ Clone(H, g, 0) = g
           /\ \A j \in Nat : Clone(H, g, i) = Clone(H, g, j) => i = j
<1>1. DOMAIN H = 1..Len(H) /\ Len(H) \in Nat
    BY SoundIs
<1>2. g \in 1..Len(H)
    BY <1>1 DEF Sound
<1> DEFINE n == Len(H)
<1> HIDE DEF n
<1>3. n \in Nat /\ g \in 1..n
    BY <1>1, <1>2 DEF n
<1>4. \A j \in Nat : Clone(H, g, j) = IF j = 0 THEN g ELSE n + j
    BY DEF Clone, n
<1>5. Clone(H, g, i) \in 1..(n + i)
    BY <1>3, <1>4
<1>6. i # 0 => Clone(H, g, i) = n + i /\ Clone(H, g, i) # g
    BY <1>3, <1>4
<1>7. \A j \in Nat : Clone(H, g, i) = Clone(H, g, j) => i = j
    BY <1>3, <1>4
<1> QED
    BY <1>4, <1>5, <1>6, <1>7 DEF n

(* One object pointed elsewhere, and one more.                             *)
Grown(G, n, key, w, object) == Append([G EXCEPT ![n][key].value = w], object)

GrownTo(G, n, key, w, object, F) ==
    /\ Typed(F) /\ Len(F) = Len(G) + 1
    /\ \A x \in 1..Len(G) : x # n => F[x] = G[x]
    /\ F[n] = Pointed(G[n], key, w)
    /\ F[Len(G) + 1] = object

LEMMA GrownIs ==
    ASSUME NEW V, NEW G, Typed(G), NEW n \in DOMAIN G, Tidy(G[n], V), NEW key \in DOMAIN G[n],
           NEW w \in Nat, NEW object \in Seq(ObjectField)
    PROVE  GrownTo(G, n, key, w, object, Grown(G, n, key, w, object))
<1> DEFINE o == Pointed(G[n], key, w)
           F == [G EXCEPT ![n] = o]
<1>1. [G EXCEPT ![n][key].value = w] = F
    BY DEF Pointed
<1>2. o \in Seq(ObjectField)
    BY PointedIs
<1>3. G \in Seq(Seq(ObjectField)) /\ DOMAIN G = 1..Len(G) /\ Len(G) \in Nat
    BY DEF Typed
<1> HIDE DEF o
<1>4. /\ F \in Seq(Seq(ObjectField)) /\ Len(F) = Len(G) /\ F[n] = o
      /\ \A x \in 1..Len(G) : x # n => F[x] = G[x]
  <2> DEFINE T == Seq(ObjectField)
  <2>1. G \in Seq(T) /\ o \in T
      BY <1>2, <1>3
  <2> HIDE DEF T
  <2>2. F \in Seq(T) /\ Len(F) = Len(G)
      BY <2>1
  <2>3. F[n] = o /\ \A x \in 1..Len(G) : x # n => F[x] = G[x]
      BY <1>3
  <2> QED
      BY <2>2, <2>3 DEF T
<1> HIDE DEF F
<1>5. Grown(G, n, key, w, object) = Append(F, object)
    BY <1>1 DEF Grown
<1> DEFINE R == Append(F, object)
<1>6. /\ R \in Seq(Seq(ObjectField)) /\ Len(R) = Len(F) + 1 /\ R[Len(F) + 1] = object
      /\ \A x \in 1..Len(F) : R[x] = F[x]
  <2> DEFINE T == Seq(ObjectField)
  <2>1. F \in Seq(T) /\ object \in T
      BY <1>4
  <2> HIDE DEF T
  <2>2. /\ R \in Seq(T) /\ Len(R) = Len(F) + 1 /\ R[Len(F) + 1] = object
        /\ \A x \in 1..Len(F) : R[x] = F[x]
      BY <2>1
  <2> QED
      BY <2>2 DEF T
<1> HIDE DEF R
<1>7. R[Len(G) + 1] = object /\ Len(R) = Len(G) + 1 /\ R[n] = o
    BY <1>3, <1>4, <1>6
<1>8. \A x \in 1..Len(G) : x # n => R[x] = G[x]
    BY <1>3, <1>4, <1>6
<1> QED
    BY <1>5, <1>6, <1>7, <1>8 DEF Typed, GrownTo, R, o

Cloned(H, g, v, ks, G, j) ==
    /\ Typed(G) /\ Len(G) = Len(H) + j
    /\ \A x \in DOMAIN H : x # g => G[x] = H[x]
    /\ \A i \in 0..(j - 1) :
         G[Clone(H, g, i)] = Pointed(H[v[i]], ks[i + 1], Clone(H, g, i + 1))
    /\ G[Clone(H, g, j)] = H[v[j]]

(* The ancestors are objects, and none is the copy itself.                 *)
LEMMA WalkedObjects ==
    ASSUME NEW H, NEW g, Sound(H, g), NEW names, NEW v, NEW ks, NEW m \in Nat,
           Walked(H, g, names, v, ks, m), v[m] \in DOMAIN H
    PROVE  \A j \in 0..m : /\ v[j] \in DOMAIN H /\ Tidy(H[v[j]], Values(H, g))
                           /\ j # 0 => v[j] # g
<1> SUFFICES ASSUME NEW j \in 0..m
             PROVE  /\ v[j] \in DOMAIN H /\ Tidy(H[v[j]], Values(H, g))
                    /\ j # 0 => v[j] # g
    OBVIOUS
<1>1. v[j] \in DOMAIN H
  <2>1. CASE j = m
      BY <2>1
  <2>2. CASE j # m
    <3>1. j + 1 \in 1..m /\ (j + 1) - 1 = j
        BY <2>2
    <3> QED
        BY <3>1 DEF Walked
  <2> QED
      BY <2>1, <2>2
<1>2. Tidy(H[v[j]], Values(H, g))
    BY <1>1 DEF Sound
<1>3. ASSUME j # 0
      PROVE  v[j] # g
  <2>1. j \in 1..m
      BY <1>3
  <2>2. /\ v[j - 1] \in DOMAIN H /\ ks[j] \in DOMAIN H[v[j - 1]]
        /\ v[j] = H[v[j - 1]][ks[j]].value
      BY <2>1 DEF Walked
  <2>3. Tidy(H[v[j - 1]], Values(H, g))
      BY <2>2 DEF Sound
  <2>4. v[j] \in Values(H, g)
      BY <2>2, <2>3 DEF Tidy
  <2>5. Scalar \notin DOMAIN H /\ Throws \notin DOMAIN H
    <3>1. DOMAIN H = 1..Len(H)
        BY SoundIs
    <3> QED
        BY <3>1, GovernanceAssumption
  <2> QED
      BY <1>1, <2>4, <2>5 DEF Values
<1> QED
    BY <1>1, <1>2, <1>3

CloneTo(G, node, throws) == [heap |-> G, node |-> node, throws |-> throws]

ClonedTo(H, g, v, ks, s, j) ==
    \E G, throws : /\ s = CloneTo(G, Clone(H, g, j), throws)
                   /\ throws => Trapped(H)
                   /\ Cloned(H, g, v, ks, G, j)

LEMMA CloneAncestorIs ==
    ASSUME NEW G, NEW n, NEW throws, NEW key, NEW value, value = G[n][key].value,
           NEW w, w = Len(G) + 1
    PROVE  CloneAncestor(CloneTo(G, n, throws), key)
             = CloneTo(Grown(G, n, key, w, G[value]), w, throws \/ ~Copied(G[value]))
<1> DEFINE s == CloneTo(G, n, throws)
           object == G[value]
           F == Grown(G, n, key, w, object)
           u == throws \/ ~Copied(object)
<1>1. s.heap = G /\ s.node = n /\ s.throws = throws
    BY DEF CloneTo
<1>2. CloneAncestor(s, key) = [s EXCEPT !.heap = F, !.node = w, !.throws = u]
  <2> HIDE DEF s
  <2> QED
      BY <1>1 DEF CloneAncestor, Grown
<1> HIDE DEF F, u
<1>3. [s EXCEPT !.heap = F, !.node = w, !.throws = u] = CloneTo(F, w, u)
  <2>1. [CloneTo(G, n, throws) EXCEPT !.heap = F] = CloneTo(F, n, throws)
      BY DEF CloneTo
  <2>2. [CloneTo(F, n, throws) EXCEPT !.node = w] = CloneTo(F, w, throws)
      BY DEF CloneTo
  <2>3. [CloneTo(F, w, throws) EXCEPT !.throws = u] = CloneTo(F, w, u)
      BY DEF CloneTo
  <2> QED
      BY <2>1, <2>2, <2>3
<1> QED
    BY <1>2, <1>3 DEF F, u

LEMMA ClonedNext ==
    ASSUME NEW H, NEW g, Sound(H, g), NEW names, NEW v, NEW ks, NEW m \in Nat,
           Walked(H, g, names, v, ks, m), v[m] \in DOMAIN H,
           NEW j \in Nat, NEW l, l = j + 1, l <= m,
           NEW G, Cloned(H, g, v, ks, G, j), NEW w, w = Clone(H, g, l),
           NEW F, F = Grown(G, Clone(H, g, j), ks[l], w, H[v[l]])
    PROVE  Cloned(H, g, v, ks, F, l)
<1> DEFINE n == Clone(H, g, j)
           L == Len(H)
<1>1. /\ DOMAIN H = 1..L /\ L \in Nat
      /\ Typed(H)
    BY SoundIs
<1>2. j \in 0..m /\ l \in 0..m /\ l \in 1..m /\ l # 0 /\ l \in Nat /\ j = l - 1
    OBVIOUS
<1>3. /\ v[j] \in DOMAIN H /\ Tidy(H[v[j]], Values(H, g))
      /\ v[l] \in DOMAIN H /\ ks[l] \in DOMAIN H[v[j]]
  <2>1. \A i \in 0..m : v[i] \in DOMAIN H /\ Tidy(H[v[i]], Values(H, g))
      BY WalkedObjects
  <2>2. ks[l] \in DOMAIN H[v[l - 1]]
      BY <1>2 DEF Walked
  <2> QED
      BY <1>2, <2>1, <2>2
<1>4. H[v[l]] \in Seq(ObjectField)
    BY <1>1, <1>3 DEF Typed
<1>5. /\ n \in 1..(L + j) /\ w = L + l /\ w \in Nat
  <2>1. Clone(H, g, j) \in 1..(Len(H) + j)
      BY CloneIs
  <2>2. Clone(H, g, l) = Len(H) + l
      BY <1>2, CloneIs
  <2> QED
      BY <1>1, <2>1, <2>2
<1>6. /\ Typed(G) /\ Len(G) = L + j /\ G[n] = H[v[j]]
      /\ \A x \in DOMAIN H : x # g => G[x] = H[x]
      /\ \A i \in 0..(j - 1) :
           G[Clone(H, g, i)] = Pointed(H[v[i]], ks[i + 1], Clone(H, g, i + 1))
    BY DEF Cloned
<1>7. n \in DOMAIN G
  <2>1. DOMAIN G = 1..Len(G)
      BY <1>6 DEF Typed
  <2> QED
      BY <1>5, <1>6, <2>1
<1>8. \A i \in Nat : i # j => Clone(H, g, i) # n
    BY CloneIs
<1>9. \A i \in 0..j : Clone(H, g, i) \in 1..(L + j)
  <2> SUFFICES ASSUME NEW i \in 0..j
               PROVE  Clone(H, g, i) \in 1..(L + j)
      OBVIOUS
  <2>1. i \in Nat /\ i <= j
      OBVIOUS
  <2>2. Clone(H, g, i) \in 1..(Len(H) + i)
      BY <2>1, CloneIs
  <2> QED
      BY <1>1, <2>1, <2>2
<1> HIDE DEF n, L
<1>10. /\ Typed(F) /\ Len(F) = Len(G) + 1
       /\ \A x \in 1..Len(G) : x # n => F[x] = G[x]
       /\ F[n] = Pointed(G[n], ks[l], w)
       /\ F[Len(G) + 1] = H[v[l]]
  <2> DEFINE V == Values(H, g)
             key == ks[l]
             object == H[v[l]]
  <2>1. /\ Tidy(G[n], V) /\ key \in DOMAIN G[n] /\ object \in Seq(ObjectField)
        /\ F = Grown(G, n, key, w, object)
      BY <1>3, <1>4, <1>6 DEF n
  <2> HIDE DEF V, key, object
  <2>2. GrownTo(G, n, key, w, object, Grown(G, n, key, w, object))
    <3>1. Typed(G) /\ w \in Nat /\ n \in DOMAIN G
        BY <1>5, <1>6, <1>7
    <3> QED
        BY <2>1, <3>1, GrownIs
  <2> QED
      BY <2>1, <2>2 DEF GrownTo, key, object
<1>11. Len(F) = Len(H) + l
    BY <1>1, <1>2, <1>6, <1>10 DEF L
<1>12. \A x \in DOMAIN H : x # g => F[x] = H[x]
  <2> SUFFICES ASSUME NEW x \in DOMAIN H, x # g
               PROVE  F[x] = H[x]
      OBVIOUS
  <2>1. x \in 1..(L + j) /\ x <= L
      BY <1>1
  <2>2. x # n
    <3>1. CASE j = 0
      <4>1. n = g
          BY <3>1, CloneIs DEF n
      <4> QED
          BY <4>1
    <3>2. CASE j # 0
      <4>1. n = L + j
          BY <3>2, CloneIs DEF n, L
      <4> QED
          BY <1>1, <2>1, <3>2, <4>1
    <3> QED
        BY <3>1, <3>2
  <2> QED
      BY <1>6, <1>10, <2>1, <2>2
<1>13. \A i \in 0..(l - 1) :
         F[Clone(H, g, i)] = Pointed(H[v[i]], ks[i + 1], Clone(H, g, i + 1))
  <2> SUFFICES ASSUME NEW i \in 0..(l - 1)
               PROVE  F[Clone(H, g, i)] = Pointed(H[v[i]], ks[i + 1], Clone(H, g, i + 1))
      OBVIOUS
  <2>1. CASE i = j
    <3>1. i + 1 = l
        BY <2>1
    <3>2. F[n] = Pointed(H[v[j]], ks[l], w)
        BY <1>6, <1>10
    <3> QED
        BY <2>1, <3>1, <3>2 DEF n
  <2>2. CASE i # j
    <3>1. i \in 0..(j - 1) /\ i \in 0..j /\ i \in Nat
        BY <1>2, <2>2
    <3>2. Clone(H, g, i) # n /\ Clone(H, g, i) \in 1..Len(G)
        BY <1>6, <1>8, <1>9, <2>2, <3>1
    <3>3. F[Clone(H, g, i)] = G[Clone(H, g, i)]
        BY <1>10, <3>2
    <3> QED
        BY <1>6, <3>1, <3>3
  <2> QED
      BY <2>1, <2>2
<1>14. F[Clone(H, g, l)] = H[v[l]]
  <2>1. Clone(H, g, l) = Len(G) + 1
      BY <1>1, <1>2, <1>5, <1>6
  <2> QED
      BY <1>10, <2>1
<1> QED
    BY <1>10, <1>11, <1>12, <1>13, <1>14 DEF Cloned

LEMMA ClonedStep ==
    ASSUME NEW H, NEW g, Sound(H, g), NEW names, NEW v, NEW ks, NEW m \in Nat,
           Walked(H, g, names, v, ks, m), v[m] \in DOMAIN H,
           NEW j \in Nat, NEW l, l = j + 1, l <= m,
           NEW s, ClonedTo(H, g, v, ks, s, j), NEW t, t = CloneAncestor(s, ks[l])
    PROVE  ClonedTo(H, g, v, ks, t, l)
<1>1. PICK G, throws : /\ s = CloneTo(G, Clone(H, g, j), throws)
                       /\ throws => Trapped(H)
                       /\ Cloned(H, g, v, ks, G, j)
    BY DEF ClonedTo
<1> DEFINE n == Clone(H, g, j)
           w == Clone(H, g, l)
           key == ks[l]
           value == v[l]
           F == Grown(G, n, key, w, H[value])
           u == throws \/ ~Copied(H[value])
<1>2. j \in 0..m /\ l \in 0..m /\ l \in 1..m /\ l # 0 /\ l \in Nat /\ j = l - 1
    OBVIOUS
<1>3. value \in DOMAIN H /\ value # g
    BY <1>2, WalkedObjects
<1>4. value = H[v[j]][key].value
    BY <1>2 DEF Walked
<1>5. G[n] = H[v[j]] /\ G[value] = H[value] /\ Len(G) = Len(H) + j
    BY <1>1, <1>3 DEF Cloned
<1>6. w = Len(G) + 1
  <2>1. Len(H) \in Nat
      BY SoundIs
  <2>2. w = Len(H) + l
      BY <1>2, CloneIs
  <2> QED
      BY <1>5, <2>1, <2>2
<1>7. t = CloneTo(F, w, u)
  <2>1. value = G[n][key].value /\ t = CloneAncestor(CloneTo(G, n, throws), key)
      BY <1>1, <1>4, <1>5
  <2> HIDE DEF n, w, key, value
  <2>2. t = CloneTo(Grown(G, n, key, w, G[value]), w, throws \/ ~Copied(G[value]))
      BY <1>6, <2>1, CloneAncestorIs
  <2> QED
      BY <1>5, <2>2
<1>8. u => Trapped(H)
    BY <1>1, <1>3 DEF Trapped
<1>9. Cloned(H, g, v, ks, F, l)
  <2>1. F = Grown(G, Clone(H, g, j), ks[l], w, H[v[l]]) /\ w = Clone(H, g, l)
      OBVIOUS
  <2> HIDE DEF F, w
  <2> QED
      BY <1>1, <2>1, ClonedNext
<1> HIDE DEF F, u
<1> QED
    BY <1>7, <1>8, <1>9 DEF ClonedTo

LEMMA ClonesTo ==
    ASSUME NEW H, NEW g, Sound(H, g), NEW names, NEW v, NEW ks, NEW m \in Nat,
           Walked(H, g, names, v, ks, m), v[m] \in DOMAIN H
    PROVE  ClonedTo(H, g, v, ks, Folded(CloneAncestor, CloneTo(H, g, FALSE), ks), m)
<1> DEFINE start == CloneTo(H, g, FALSE)
<1>1. Len(ks) = m /\ Len(ks) \in Nat
    BY DEF Walked
<1> HIDE DEF start
<1>2. PICK f : /\ f[0] = start /\ \A k \in 1..m : f[k] = CloneAncestor(f[k - 1], ks[k])
               /\ Folded(CloneAncestor, start, ks) = f[m]
  <2>1. PICK f : ClonedBy(f, start, ks)
      BY <1>1, CloneSteps
  <2> QED
      BY <1>1, <2>1 DEF ClonedBy
<1> DEFINE S == {n \in Nat : n <= m => ClonedTo(H, g, v, ks, f[n], n)}
<1>3. ClonedTo(H, g, v, ks, f[0], 0)
  <2>1. v[0] = g /\ Clone(H, g, 0) = g
      BY DEF Walked, Clone
  <2>2. Typed(H) /\ Len(H) = Len(H) + 0
      BY SoundIs
  <2>3. Cloned(H, g, v, ks, H, 0)
      BY <2>1, <2>2 DEF Cloned
  <2>4. f[0] = CloneTo(H, Clone(H, g, 0), FALSE)
      BY <1>2, <2>1 DEF start
  <2> QED
      BY <2>3, <2>4 DEF ClonedTo
<1>4. ASSUME NEW n \in Nat, n <= m => ClonedTo(H, g, v, ks, f[n], n),
             NEW l, l = n + 1, l <= m
      PROVE  ClonedTo(H, g, v, ks, f[l], l)
  <2>1. l \in 1..m /\ l - 1 = n /\ n <= m
      BY <1>4
  <2>2. f[l] = CloneAncestor(f[n], ks[l])
      BY <1>2, <2>1
  <2> HIDE DEF S
  <2> QED
      BY <1>4, <2>1, <2>2, ClonedStep
<1>5. 0 \in S /\ \A n \in Nat : n \in S => n + 1 \in S
    BY <1>3, <1>4
<1> HIDE DEF S
<1>6. m \in S
    BY <1>5, NumbersAll
<1>7. ClonedTo(H, g, v, ks, f[m], m)
    BY <1>6 DEF S
<1> QED
    BY <1>2, <1>7 DEF start

-----------------------------------------------------------------------------
(* The heap after a path was cut.                                          *)
Cut(H, g, v, ks, R, m, leaf) ==
    /\ Typed(R) /\ Len(R) = Len(H) + m
    /\ \A x \in DOMAIN H : x # g => R[x] = H[x]
    /\ \A i \in 0..(m - 1) :
         R[Clone(H, g, i)] = Pointed(H[v[i]], ks[i + 1], Clone(H, g, i + 1))
    /\ R[Clone(H, g, m)] = WithoutNamed(H[v[m]], leaf)

LEMMA CutForm ==
    ASSUME NEW H, NEW g, Sound(H, g), NEW v, NEW ks, NEW m \in Nat,
           v[m] \in DOMAIN H, NEW G, Cloned(H, g, v, ks, G, m), NEW leaf,
           NEW R, R = [G EXCEPT ![Clone(H, g, m)] = WithoutNamed(@, leaf)]
    PROVE  Cut(H, g, v, ks, R, m, leaf)
<1> DEFINE n == Clone(H, g, m)
           o == WithoutNamed(H[v[m]], leaf)
           T == Seq(ObjectField)
<1>1. DOMAIN H = 1..Len(H) /\ Len(H) \in Nat
    BY SoundIs
<1>2. /\ G \in Seq(T) /\ Len(G) = Len(H) + m /\ G[n] = H[v[m]]
      /\ \A x \in DOMAIN H : x # g => G[x] = H[x]
      /\ \A i \in 0..(m - 1) :
           G[Clone(H, g, i)] = Pointed(H[v[i]], ks[i + 1], Clone(H, g, i + 1))
    BY DEF Cloned, Typed
<1>3. o \in T
  <2>1. Tidy(H[v[m]], Values(H, g))
      BY DEF Sound
  <2>2. Tidy(o, Values(H, g))
      BY <2>1, WithoutTidy
  <2> QED
      BY <2>2 DEF Tidy
<1>4. n \in 1..(Len(H) + m) /\ \A i \in Nat : n = Clone(H, g, i) => m = i
    BY CloneIs
<1>5. R = [G EXCEPT ![n] = o]
    BY <1>2
<1>6. \A x \in DOMAIN H : x # g => x # n
  <2>1. CASE m = 0
      BY <2>1, CloneIs
  <2>2. CASE m # 0
    <3>1. n = Len(H) + m
        BY <2>2, CloneIs
    <3> QED
        BY <1>1, <2>2, <3>1
  <2> QED
      BY <2>1, <2>2
<1>7. \A i \in 0..(m - 1) : Clone(H, g, i) # n /\ Clone(H, g, i) \in 1..Len(G)
  <2> SUFFICES ASSUME NEW i \in 0..(m - 1)
               PROVE  Clone(H, g, i) # n /\ Clone(H, g, i) \in 1..Len(G)
      OBVIOUS
  <2>1. i \in Nat /\ i # m /\ i <= m
      OBVIOUS
  <2>2. Clone(H, g, i) \in 1..(Len(H) + i)
      BY <2>1, CloneIs
  <2> QED
      BY <1>1, <1>2, <1>4, <2>1, <2>2
<1> HIDE DEF n, o, T
<1>8. R \in Seq(T) /\ Len(R) = Len(G) /\ DOMAIN G = 1..Len(G)
  <2>1. G \in Seq(T) /\ o \in T
      BY <1>2, <1>3
  <2>2. DOMAIN G = 1..Len(G) /\ Len(G) \in Nat
      BY <2>1
  <2>3. R = [i \in 1..Len(G) |-> R[i]] /\ \A i \in 1..Len(G) : R[i] \in T
    <3>1. \A i \in 1..Len(G) : G[i] \in T
        BY <2>1
    <3> QED
        BY <1>5, <2>1, <2>2, <3>1
  <2>4. R \in Seq(T)
    <3> DEFINE L == Len(G)
    <3>1. L \in Nat /\ R = [i \in 1..L |-> R[i]] /\ \A i \in 1..L : R[i] \in T
        BY <2>2, <2>3
    <3> HIDE DEF L
    <3>2. [i \in 1..L |-> R[i]] \in Seq(T)
        BY <3>1
    <3> QED
        BY <3>1, <3>2
  <2>5. Len(R) = Len(G)
      BY <2>2, <2>3
  <2> QED
      BY <2>2, <2>4, <2>5
<1>9. n \in DOMAIN G
    BY <1>2, <1>4, <1>8
<1>10. R[n] = o /\ \A x \in 1..Len(G) : x # n => R[x] = G[x]
    BY <1>5, <1>8, <1>9
<1>11. \A x \in DOMAIN H : x # g => R[x] = H[x]
  <2> SUFFICES ASSUME NEW x \in DOMAIN H, x # g PROVE R[x] = H[x]
      OBVIOUS
  <2>1. x \in 1..Len(G) /\ x # n
      BY <1>1, <1>2, <1>6
  <2> QED
      BY <1>2, <1>10, <2>1
<1>12. \A i \in 0..(m - 1) :
         R[Clone(H, g, i)] = Pointed(H[v[i]], ks[i + 1], Clone(H, g, i + 1))
    BY <1>2, <1>7, <1>10
<1> QED
    BY <1>2, <1>8, <1>10, <1>11, <1>12 DEF Cut, Typed, T, n, o

(* Each of its objects is an old one or a clone.                           *)
LEMMA OldOrClone ==
    ASSUME NEW H, NEW g, Sound(H, g), NEW m \in Nat, NEW R, Typed(R), Len(R) = Len(H) + m
    PROVE  /\ \A x \in DOMAIN R : \/ x \in DOMAIN H /\ x # g
                                  \/ \E i \in 0..m : x = Clone(H, g, i)
           /\ \A x \in DOMAIN H : x \in DOMAIN R
           /\ \A i \in 0..m : Clone(H, g, i) \in DOMAIN R
           /\ \A i \in 0..m : \A x \in DOMAIN H : x # g => x # Clone(H, g, i)
<1>1. DOMAIN H = 1..Len(H) /\ Len(H) \in Nat /\ g \in DOMAIN H
    BY SoundIs DEF Sound
<1>2. DOMAIN R = 1..(Len(H) + m)
  <2>1. DOMAIN R = 1..Len(R)
      BY DEF Typed
  <2> QED
      BY <2>1
<1>3. Clone(H, g, 0) = g /\ \A i \in 0..m : i # 0 => Clone(H, g, i) = Len(H) + i
    BY DEF Clone
<1> DEFINE L == Len(H)
<1>4. L \in Nat /\ DOMAIN H = 1..L /\ DOMAIN R = 1..(L + m) /\ g \in 1..L
    BY <1>1, <1>2
<1>5. \A i \in 0..m : i # 0 => Clone(H, g, i) = L + i
    BY <1>3
<1> HIDE DEF L
<1>6. ASSUME NEW x \in DOMAIN R, ~(x \in DOMAIN H /\ x # g)
      PROVE  \E i \in 0..m : x = Clone(H, g, i)
  <2>1. CASE x = g
      BY <1>3, <2>1
  <2>2. CASE x # g
    <3>1. x \in 1..(L + m) /\ ~(x \in 1..L)
        BY <1>4, <1>6, <2>2
    <3>2. x - L \in 0..m /\ x - L # 0 /\ x = L + (x - L)
        BY <1>4, <3>1
    <3> QED
        BY <1>5, <3>2
  <2> QED
      BY <2>1, <2>2
<1>7. \A x \in DOMAIN H : x \in DOMAIN R
    BY <1>4
<1>8. ASSUME NEW i \in 0..m
      PROVE  /\ Clone(H, g, i) \in DOMAIN R
             /\ \A x \in DOMAIN H : x # g => x # Clone(H, g, i)
  <2>1. CASE i = 0
      BY <1>3, <1>4, <1>7, <2>1
  <2>2. CASE i # 0
    <3>1. Clone(H, g, i) = L + i
        BY <1>5, <2>2
    <3> QED
        BY <1>4, <2>2, <3>1
  <2> QED
      BY <2>1, <2>2
<1> QED
    BY <1>6, <1>7, <1>8

LEMMA TidyMore ==
    ASSUME NEW o, NEW V, NEW W, Tidy(o, V), V \subseteq W
    PROVE  Tidy(o, W)
BY DEF Tidy

(* An object of the heap after: its fields are those of one before, but for*)
(* the one that leads to the next clone.                                   *)
LEMMA CutSound ==
    ASSUME NEW H, NEW g, Sound(H, g), NEW names, NEW v, NEW ks, NEW m \in Nat,
           Walked(H, g, names, v, ks, m), v[m] \in DOMAIN H, NEW leaf,
           NEW R, Cut(H, g, v, ks, R, m, leaf)
    PROVE  Sound(R, g) /\ (Trapped(R) => Trapped(H))
<1> DEFINE V == Values(H, g)
           W == Values(R, g)
<1>1. /\ \A x \in DOMAIN R : \/ x \in DOMAIN H /\ x # g
                             \/ \E i \in 0..m : x = Clone(H, g, i)
      /\ \A x \in DOMAIN H : x \in DOMAIN R
      /\ \A i \in 0..m : Clone(H, g, i) \in DOMAIN R
      /\ \A i \in 0..m : \A x \in DOMAIN H : x # g => x # Clone(H, g, i)
  <2>1. Typed(R) /\ Len(R) = Len(H) + m
      BY DEF Cut
  <2> QED
      BY <2>1, OldOrClone
<1>2. V \subseteq W
    BY <1>1 DEF Values
<1>3. \A j \in 0..m : v[j] \in DOMAIN H /\ Tidy(H[v[j]], V)
    BY WalkedObjects
<1>4. \A j \in 0..(m - 1) : ks[j + 1] \in DOMAIN H[v[j]]
  <2> SUFFICES ASSUME NEW j \in 0..(m - 1) PROVE ks[j + 1] \in DOMAIN H[v[j]]
      OBVIOUS
  <2>1. j + 1 \in 1..m /\ (j + 1) - 1 = j
      OBVIOUS
  <2> QED
      BY <2>1 DEF Walked
<1>5. ASSUME NEW x \in DOMAIN R
      PROVE  /\ Tidy(R[x], W)
             /\ ~Copied(R[x]) => Trapped(H)
  <2>1. CASE x \in DOMAIN H /\ x # g
    <3>1. R[x] = H[x]
        BY <2>1 DEF Cut
    <3>2. Tidy(H[x], V)
        BY <2>1 DEF Sound
    <3>3. Tidy(H[x], W)
        BY <1>2, <3>2, TidyMore
    <3> QED
        BY <2>1, <3>1, <3>3 DEF Trapped
  <2>2. ASSUME NEW i \in 0..(m - 1), x = Clone(H, g, i)
        PROVE  /\ Tidy(R[x], W)
               /\ ~Copied(R[x]) => Trapped(H)
    <3> DEFINE o == H[v[i]]
               key == ks[i + 1]
               w == Clone(H, g, i + 1)
               r == Pointed(o, key, w)
    <3>1. i \in 0..m /\ i + 1 \in 0..m /\ i + 1 \in Nat /\ i + 1 # 0
        OBVIOUS
    <3>2. R[x] = r
        BY <2>2 DEF Cut
    <3>3. Tidy(o, V) /\ key \in DOMAIN o /\ v[i] \in DOMAIN H
        BY <1>3, <1>4, <3>1
    <3>4. w \in DOMAIN R /\ w # g /\ w \in Nat
      <4>1. w \in DOMAIN R
          BY <1>1, <3>1
      <4>2. w # g
        <5> DEFINE l == i + 1
        <5>1. l \in Nat /\ l # 0 /\ w = Clone(H, g, l)
            BY <3>1
        <5> HIDE DEF l, w
        <5>2. Clone(H, g, l) # g
            BY <5>1, CloneIs
        <5> QED
            BY <5>1, <5>2
      <4>3. DOMAIN R = 1..Len(R)
          BY DEF Cut, Typed
      <4> QED
          BY <4>1, <4>2, <4>3
    <3> HIDE DEF key, w
    <3>5. /\ r \in Seq(ObjectField) /\ DOMAIN r = DOMAIN o
          /\ \A l \in DOMAIN o : Key(r[l]) = Key(o[l]) /\ (l # key => r[l] = o[l])
          /\ r[key].value = w
      <4> HIDE DEF o, V
      <4> QED
          BY <3>3, <3>4, PointedIs
    <3> HIDE DEF r
    <3>6. \A l \in DOMAIN r : r[l].value \in W
      <4>1. w \in W
          BY <3>4 DEF Values
      <4>2. \A l \in DOMAIN o : o[l].value \in W
          BY <1>2, <3>3 DEF Tidy
      <4> QED
          BY <3>5, <4>1, <4>2
    <3>7. \A a, b \in DOMAIN r : Key(r[a]) = Key(r[b]) => a = b
        BY <3>3, <3>5 DEF Tidy
    <3>8. ~Copied(r) => ~Copied(o)
      <4>1. w # Throws
          BY <3>4, GovernanceAssumption
      <4> QED
          BY <3>5, <4>1 DEF Copied
    <3> QED
        BY <3>2, <3>3, <3>5, <3>6, <3>7, <3>8 DEF Tidy, Trapped
  <2>3. CASE x = Clone(H, g, m)
    <3> DEFINE o == H[v[m]]
               r == WithoutNamed(o, leaf)
    <3>1. R[x] = r
        BY <2>3 DEF Cut
    <3>2. Tidy(o, V)
        BY <1>3
    <3>3. Tidy(r, V) /\ \A i \in DOMAIN r : \E j \in DOMAIN o : r[i] = o[j]
      <4> HIDE DEF o, V
      <4> QED
          BY <3>2, WithoutTidy
    <3> HIDE DEF r
    <3>4. Tidy(r, W)
        BY <1>2, <3>3, TidyMore
    <3>5. ~Copied(r) => ~Copied(o)
        BY <3>3 DEF Copied
    <3> QED
        BY <3>1, <3>4, <3>5 DEF Trapped
  <2>4. \A i \in 0..m : i \in 0..(m - 1) \/ i = m
      OBVIOUS
  <2> QED
      BY <1>1, <2>1, <2>2, <2>3, <2>4
<1>6. Typed(R) /\ g \in DOMAIN R
    BY <1>1 DEF Cut, Sound
<1> QED
    BY <1>5, <1>6 DEF Sound, Trapped

KeysOf(H, v, ks, m) == [j \in 1..m |-> Key(H[v[j - 1]][ks[j]])]

ClonesOf(H, g, m) == [j \in 0..m |-> Clone(H, g, j)]

(* The fields of an object pointed elsewhere.                              *)
LEMMA PointedFields ==
    ASSUME NEW V, NEW o, Tidy(o, V), NEW key \in DOMAIN o, NEW w \in Nat,
           NEW r, r = Pointed(o, key, w), NEW k, k = Key(o[key])
    PROVE  /\ \E i \in DOMAIN r : Key(r[i]) = k
           /\ \A i \in DOMAIN r : IF Key(r[i]) = k THEN r[i].value = w
                                  ELSE \E j \in DOMAIN o : r[i] = o[j]
           /\ \A j \in DOMAIN o : Key(o[j]) # k => \E i \in DOMAIN r : r[i] = o[j]
<1>1. /\ DOMAIN r = DOMAIN o
      /\ \A i \in DOMAIN o : Key(r[i]) = Key(o[i]) /\ (i # key => r[i] = o[i])
      /\ r[key].value = w
    BY PointedIs
<1>2. \A i \in DOMAIN o : Key(o[i]) = k => i = key
    BY DEF Tidy
<1> QED
    BY <1>1, <1>2

LEMMA CutLinks ==
    ASSUME NEW H, NEW g, Sound(H, g), NEW names, NEW v, NEW ks, NEW m \in Nat,
           Walked(H, g, names, v, ks, m), v[m] \in DOMAIN H, NEW leaf,
           NEW R, Cut(H, g, v, ks, R, m, leaf)
    PROVE  CutAt(H, R, g, m, v, ClonesOf(H, g, m), KeysOf(H, v, ks, m), leaf)
<1> DEFINE c == ClonesOf(H, g, m)
           k == KeysOf(H, v, ks, m)
           V == Values(H, g)
<1>1. /\ \A x \in DOMAIN R : \/ x \in DOMAIN H /\ x # g
                             \/ \E i \in 0..m : x = Clone(H, g, i)
      /\ \A x \in DOMAIN H : x \in DOMAIN R
      /\ \A i \in 0..m : Clone(H, g, i) \in DOMAIN R
      /\ \A i \in 0..m : \A x \in DOMAIN H : x # g => x # Clone(H, g, i)
  <2>1. Typed(R) /\ Len(R) = Len(H) + m
      BY DEF Cut
  <2> QED
      BY <2>1, OldOrClone
<1>2. \A j \in 0..m : v[j] \in DOMAIN H /\ Tidy(H[v[j]], V)
    BY WalkedObjects
<1>3. \A j \in 0..m : c[j] = Clone(H, g, j) /\ c[j] \in DOMAIN R
    BY <1>1 DEF ClonesOf
<1>4. \A j \in 0..(m - 1) :
        /\ ks[j + 1] \in DOMAIN H[v[j]] /\ k[j + 1] = Key(H[v[j]][ks[j + 1]])
        /\ v[j + 1] = H[v[j]][ks[j + 1]].value
        /\ j \in 0..m /\ j + 1 \in 0..m
  <2> SUFFICES ASSUME NEW j \in 0..(m - 1)
               PROVE  /\ ks[j + 1] \in DOMAIN H[v[j]] /\ k[j + 1] = Key(H[v[j]][ks[j + 1]])
                      /\ v[j + 1] = H[v[j]][ks[j + 1]].value
                      /\ j \in 0..m /\ j + 1 \in 0..m
      OBVIOUS
  <2>1. j + 1 \in 1..m /\ (j + 1) - 1 = j
      OBVIOUS
  <2>2. k[j + 1] = Key(H[v[j]][ks[j + 1]])
      BY <2>1 DEF KeysOf
  <2> QED
      BY <2>1, <2>2 DEF Walked
<1>5. Typed(H) /\ Typed(R) /\ DOMAIN H = 1..Len(H) /\ DOMAIN R = 1..Len(R)
  <2>1. Typed(H) /\ DOMAIN H = 1..Len(H)
      BY SoundIs
  <2>2. Typed(R)
      BY DEF Cut
  <2>3. DOMAIN R = 1..Len(R)
      BY <2>2 DEF Typed
  <2> QED
      BY <2>1, <2>2, <2>3
<1>6. \A x \in DOMAIN H : Fields(H, x) = {H[x][i] : i \in DOMAIN H[x]}
    BY <1>5, FieldsOf
<1>7. \A x \in DOMAIN R : Fields(R, x) = {R[x][i] : i \in DOMAIN R[x]}
    BY <1>5, FieldsOf
<1> HIDE DEF c, k, V
<1>8. v[0] = g /\ c[0] = g
  <2>1. Clone(H, g, 0) = g
      BY DEF Clone
  <2> QED
      BY <1>3, <2>1 DEF Walked
<1>9. Linked(H, m, v, k)
  <2> SUFFICES ASSUME NEW j \in 0..(m - 1)
               PROVE  \E f \in Fields(H, v[j]) : Key(f) = k[j + 1] /\ f.value = v[j + 1]
      BY DEF Linked
  <2>1. v[j] \in DOMAIN H
      BY <1>2, <1>4
  <2>2. H[v[j]][ks[j + 1]] \in Fields(H, v[j])
      BY <1>4, <1>6, <2>1
  <2> QED
      BY <1>4, <2>2
<1>10. Relinked(H, R, m, v, c, k)
  <2> SUFFICES ASSUME NEW j \in 0..(m - 1)
               PROVE  /\ \E f \in Fields(R, c[j]) : Key(f) = k[j + 1]
                      /\ \A f \in Fields(R, c[j]) :
                           IF Key(f) = k[j + 1] THEN f.value = c[j + 1]
                           ELSE f \in Fields(H, v[j])
                      /\ \A f \in Fields(H, v[j]) : Key(f) # k[j + 1] => f \in Fields(R, c[j])
      BY DEF Relinked
  <2> DEFINE o == H[v[j]]
             key == ks[j + 1]
             w == c[j + 1]
             r == R[c[j]]
             kk == k[j + 1]
  <2>1. w \in Nat /\ r = Pointed(o, key, w)
    <3>1. w \in DOMAIN R /\ w = Clone(H, g, j + 1) /\ c[j] = Clone(H, g, j)
        BY <1>3, <1>4
    <3> QED
        BY <1>5, <3>1 DEF Cut
  <2>2. Tidy(o, V) /\ key \in DOMAIN o /\ kk = Key(o[key])
      BY <1>2, <1>4
  <2>3. /\ Fields(R, c[j]) = {r[i] : i \in DOMAIN r}
        /\ Fields(H, v[j]) = {o[i] : i \in DOMAIN o}
      BY <1>2, <1>3, <1>4, <1>6, <1>7
  <2> HIDE DEF o, key, w, r, kk
  <2>4. /\ \E i \in DOMAIN r : Key(r[i]) = kk
        /\ \A i \in DOMAIN r : IF Key(r[i]) = kk THEN r[i].value = w
                               ELSE \E i2 \in DOMAIN o : r[i] = o[i2]
        /\ \A i2 \in DOMAIN o : Key(o[i2]) # kk => \E i \in DOMAIN r : r[i] = o[i2]
      BY <2>1, <2>2, PointedFields
  <2> QED
      BY <2>3, <2>4 DEF w, kk
<1>11. Without(H, R, v[m], c[m], leaf)
  <2> DEFINE o == H[v[m]]
             r == R[c[m]]
  <2>1. m \in 0..m
      OBVIOUS
  <2>2. r = WithoutNamed(o, leaf) /\ Tidy(o, V)
      BY <1>2, <1>3, <2>1 DEF Cut
  <2>3. /\ Fields(R, c[m]) = {r[i] : i \in DOMAIN r}
        /\ Fields(H, v[m]) = {o[i] : i \in DOMAIN o}
      BY <1>2, <1>3, <1>6, <1>7, <2>1
  <2> HIDE DEF o, r
  <2>4. /\ \A i \in DOMAIN r : r[i].name # leaf /\ \E j \in DOMAIN o : r[i] = o[j]
        /\ \A j \in DOMAIN o : o[j].name # leaf => \E i \in DOMAIN r : r[i] = o[j]
      BY <2>2, WithoutTidy
  <2> QED
      BY <2>3, <2>4 DEF Without
<1>12. \A x : Apart(x, m, c) => Fields(R, x) = Fields(H, x)
  <2> SUFFICES ASSUME NEW x, Apart(x, m, c) PROVE Fields(R, x) = Fields(H, x)
      OBVIOUS
  <2>1. 0 \in 0..m /\ x # g
      BY <1>8 DEF Apart
  <2>2. CASE x \in DOMAIN H
    <3>1. R[x] = H[x] /\ x \in DOMAIN R
        BY <1>1, <2>1, <2>2 DEF Cut
    <3> QED
        BY <1>6, <1>7, <2>2, <3>1
  <2>3. CASE x \notin DOMAIN H
    <3>1. x \notin DOMAIN R
        BY <1>1, <1>3, <2>3 DEF Apart
    <3> QED
        BY <1>5, <2>3, <3>1, FieldsOf
  <2> QED
      BY <2>2, <2>3
<1>13. \A x : \A f \in Fields(H, x) : Apart(f.value, m, c)
  <2> SUFFICES ASSUME NEW x, NEW f \in Fields(H, x), NEW j \in 0..m, f.value = c[j]
               PROVE  FALSE
      BY DEF Apart
  <2>1. f.value \in Values(H, g)
      BY SoundIs
  <2>2. c[j] \in Nat /\ \A y \in DOMAIN H : y # g => y # c[j]
      BY <1>1, <1>3, <1>5
  <2> QED
      BY <2>1, <2>2, GovernanceAssumption DEF Values
<1> QED
    BY <1>8, <1>9, <1>10, <1>11, <1>12, <1>13 DEF CutAt, c, k

-----------------------------------------------------------------------------
(* The path of the ancestors' keys leads where they do.                    *)
LEMMA ThenOf ==
    ASSUME NEW p \in Seq(Keys), NEW q \in Seq(Keys), NEW key \in Keys, Len(q) = Len(p) + 1,
           \A i \in 1..Len(p) : q[i] = p[i], q[Len(p) + 1] = key
    PROVE  q = Then(p, key)
<1> DEFINE r == Then(p, key)
<1>1. /\ r \in Seq(Keys) /\ Len(r) = Len(p) + 1
      /\ (\A i \in 1..Len(p) : r[i] = p[i]) /\ r[Len(p) + 1] = key
    BY ThenIs
<1> HIDE DEF r
<1>2. Len(p) \in Nat
    OBVIOUS
<1>3. \A i \in 1..Len(q) : q[i] = r[i]
  <2> SUFFICES ASSUME NEW i \in 1..Len(q) PROVE q[i] = r[i]
      OBVIOUS
  <2>1. i \in 1..Len(p) \/ i = Len(p) + 1
      BY <1>2
  <2> QED
      BY <1>1, <2>1
<1> QED
    BY <1>1, <1>3 DEF r

LEMMA AtTrail ==
    ASSUME NEW H, Typed(H), NEW g, NEW names, NEW v, NEW ks, NEW m \in Nat,
           Walked(H, g, names, v, ks, m), NEW n \in 0..m
    PROVE  ReadAt(H, g, n, KeysOf(H, v, ks, n), v[n])
<1> DEFINE trail(j) == KeysOf(H, v, ks, j)
           S == {j \in Nat : j <= m => ReadAt(H, g, j, trail(j), v[j])}
<1>1. ReadAt(H, g, 0, trail(0), v[0])
  <2>1. trail(0) = <<>>
      BY DEF KeysOf
  <2>2. v[0] = g
      BY DEF Walked
  <2> QED
      BY <2>1, <2>2, AtStart
<1>2. ASSUME NEW j \in Nat, j <= m => ReadAt(H, g, j, trail(j), v[j]), NEW l, l = j + 1, l <= m
      PROVE  ReadAt(H, g, l, trail(l), v[l])
  <2>1. l \in 1..m /\ l - 1 = j /\ l \in Nat /\ j <= m
      BY <1>2
  <2> DEFINE f == H[v[j]][ks[l]]
             p == trail(j)
             q == trail(l)
  <2>2. v[j] \in DOMAIN H /\ ks[l] \in DOMAIN H[v[j]] /\ v[l] = f.value
      BY <2>1 DEF Walked
  <2>3. f \in Fields(H, v[j])
      BY <2>2, FieldsOf
  <2>4. ReadAt(H, g, j, p, v[j])
      BY <1>2, <2>1
  <2>5. PathsOf(H, g, j)
      BY AtPath
  <2>6. p \in Seq(Keys) /\ Len(p) = j
    <3> HIDE DEF p
    <3> QED
        BY <2>4, <2>5 DEF PathsOf
  <2>7. Key(f) \in Keys
      BY <2>3, FieldsOf, KeyIsKey
  <2>8. Len(q) = l /\ q[l] = Key(f) /\ \A i \in 1..j : q[i] = p[i]
    <3>1. q = [i \in 1..l |-> Key(H[v[i - 1]][ks[i]])]
        BY DEF KeysOf
    <3>2. p = [i \in 1..j |-> Key(H[v[i - 1]][ks[i]])]
        BY DEF KeysOf
    <3>3. l \in 1..l /\ \A i \in 1..j : i \in 1..l
        BY <1>2, <2>1
    <3>4. q[l] = Key(f)
        BY <2>1, <3>1, <3>3
    <3>5. \A i \in 1..j : q[i] = p[i]
        BY <3>1, <3>2, <3>3
    <3> HIDE DEF p, q
    <3>6. Len(q) = l
        BY <2>1, <3>1
    <3> QED
        BY <3>4, <3>5, <3>6
  <2>9. q \in Seq(Keys)
    <3>1. q = [i \in 1..l |-> q[i]]
        BY DEF KeysOf
    <3> HIDE DEF p, q, f
    <3>2. \A i \in 1..l : i \in 1..j \/ i = l
        BY <1>2, <2>1
    <3>3. \A i \in 1..j : p[i] \in Keys
        BY <2>6
    <3>4. \A i \in 1..l : q[i] \in Keys
        BY <2>7, <2>8, <3>2, <3>3
    <3>5. [i \in 1..l |-> q[i]] \in Seq(Keys)
        BY <2>1, <3>4
    <3> QED
        BY <3>1, <3>5
  <2>10. q = Then(p, Key(f))
    <3> DEFINE key == Key(f)
    <3>1. key \in Keys /\ q[l] = key
        BY <2>7, <2>8
    <3> HIDE DEF key, p, q
    <3>2. Len(q) = Len(p) + 1 /\ (\A i \in 1..Len(p) : q[i] = p[i]) /\ q[Len(p) + 1] = key
        BY <1>2, <2>6, <2>8, <3>1
    <3>3. q = Then(p, key)
        BY <2>6, <2>9, <3>1, <3>2, ThenOf
    <3> QED
        BY <3>3 DEF key
  <2> HIDE DEF p, q, f
  <2>11. Leads(H, p, v[j], q, v[l])
      BY <2>2, <2>3, <2>10 DEF Leads
  <2>12. ReadAt(H, g, l, q, v[l])
      BY <1>2, <2>4, <2>11, AtFurther
  <2> QED
      BY <2>12 DEF q
<1>3. 0 \in S /\ \A j \in Nat : j \in S => j + 1 \in S
  <2> HIDE DEF trail
  <2> QED
      BY <1>1, <1>2
<1> HIDE DEF S
<1>4. n \in S
    BY <1>3, NumbersAll
<1> QED
    BY <1>4 DEF S

(* A path with the names of the ancestors has their keys, where no twin of *)
(* one of them is there.                                                   *)
LEMMA Followed ==
    ASSUME NEW H, NEW g, Sound(H, g), NEW names, NEW v, NEW ks, NEW m \in Nat,
           Walked(H, g, names, v, ks, m), m <= Depth,
           NEW p \in Readable(H, g), Len(p) > m, \A i \in 1..m : p[i].name = names[i],
           NEW n \in Nat, m < n, ~SpelledTwice(Readable(H, g), p, n)
    PROVE  \A i \in 1..m : p[i] = KeysOf(H, v, ks, m)[i]
<1> DEFINE k == KeysOf(H, v, ks, m)
<1> SUFFICES ASSUME NEW i \in 1..m, p[i] # k[i] PROVE FALSE
    OBVIOUS
<1>1. Typed(H)
    BY SoundIs
<1>2. ReadAt(H, g, m, k, v[m]) /\ PathsOf(H, g, m)
  <2>1. m \in 0..m
      OBVIOUS
  <2>2. PathsOf(H, g, m)
      BY <1>1, AtPath
  <2> QED
      BY <1>1, <2>1, <2>2, AtTrail
<1>3. \A j \in 1..m : k[j].name = names[j]
  <2> SUFFICES ASSUME NEW j \in 1..m PROVE k[j].name = names[j]
      OBVIOUS
  <2>1. k[j] = Key(H[v[j - 1]][ks[j]])
      BY DEF KeysOf
  <2>2. H[v[j - 1]][ks[j]].name = names[j]
      BY DEF Walked
  <2> QED
      BY <2>1, <2>2 DEF Key
<1> HIDE DEF k
<1>4. k \in Seq(Keys) /\ Len(k) = m
    BY <1>2 DEF PathsOf
<1>5. k \in Readable(H, g)
  <2>1. m \in 1..Depth
      BY GovernanceAssumption
  <2> QED
      BY <1>2, <2>1, ReadableIs
<1>6. p \in Seq(Keys)
  <2>1. PICK d \in 1..Depth : \E x : ReadAt(H, g, d, p, x)
      BY ReadableIs
  <2>2. PathsOf(H, g, d)
      BY <1>1, AtPath, GovernanceAssumption
  <2> QED
      BY <2>1, <2>2 DEF PathsOf
<1>7. SubSeq(p, 1, m)[i] = p[i]
    BY <1>6
<1>8. k # SubSeq(p, 1, Len(k))
    BY <1>4, <1>7
<1>9. \A j \in DOMAIN k : k[j].name = p[j].name
  <2>1. DOMAIN k = 1..m
      BY <1>4
  <2> QED
      BY <1>3, <2>1
<1> QED
    BY <1>4, <1>5, <1>8, <1>9 DEF SpelledTwice

(* Where the keys end, a path with the names goes on in a field.           *)
LEMMA GoesOn ==
    ASSUME NEW H, NEW g, Sound(H, g), NEW names, NEW v, NEW ks, NEW m \in Nat,
           Walked(H, g, names, v, ks, m), m <= Depth,
           NEW p \in Readable(H, g), Len(p) > m, \A i \in 1..m : p[i].name = names[i],
           NEW above \in Nat, m < above, ~SpelledTwice(Readable(H, g), p, above)
    PROVE  \E f \in Fields(H, v[m]) : Key(f) = p[m + 1]
<1> DEFINE k == KeysOf(H, v, ks, m)
<1>1. \A i \in 1..m : p[i] = k[i]
    BY Followed
<1>2. Typed(H) /\ Distinct(H)
    BY SoundIs
<1>3. ReadAt(H, g, m, k, v[m]) /\ PathsOf(H, g, m) /\ OneValue(H, g, m)
  <2>1. m \in 0..m
      OBVIOUS
  <2>2. PathsOf(H, g, m) /\ OneValue(H, g, m)
      BY <1>2, AtPath, AtIsOne
  <2> QED
      BY <1>2, <2>1, <2>2, AtTrail
<1> HIDE DEF k
<1>4. PICK n \in 1..Depth : \E x : ReadAt(H, g, n, p, x)
    BY ReadableIs
<1>5. n \in Nat
    BY <1>4, GovernanceAssumption
<1>6. PathsOf(H, g, n) /\ PrefixesOf(H, g, n)
    BY <1>2, <1>5, AtPath, AtPrefix
<1>7. m \in 0..(n - 1)
  <2>1. Len(p) = n
      BY <1>4, <1>6 DEF PathsOf
  <2> QED
      BY <1>5, <2>1
<1>8. Passes(H, g, m, p)
    BY <1>4, <1>6, <1>7 DEF PrefixesOf
<1>9. PICK q, y : \E f \in Fields(H, y) :
         ReadAt(H, g, m, q, y) /\ Key(f) = p[m + 1] /\ \A i \in 1..m : q[i] = p[i]
    BY <1>8 DEF Passes
<1>10. q \in Seq(Keys) /\ Len(q) = m /\ k \in Seq(Keys) /\ Len(k) = m
    BY <1>3, <1>9 DEF PathsOf
<1>11. \A i \in 1..m : q[i] = k[i]
    BY <1>1, <1>9
<1>12. q = k
    BY <1>10, <1>11
<1>13. y = v[m]
    BY <1>3, <1>9, <1>12 DEF OneValue
<1> QED
    BY <1>9, <1>13

(* What an entry is about, once its names are looked up: a hit, or a miss. *)
Named(segments, p) ==
    Len(segments) <= Len(p) /\ \A i \in 1..Len(segments) : p[i].name = segments[i]

(* The path it names can be read, if at all, below a twin.                 *)
Doubled(S, segments, p) == Named(segments, p) => SpelledTwice(S, p, Len(segments))

Miss(H, g, segments) == \A p \in Readable(H, g) : Doubled(Readable(H, g), segments, p)

(* S is left of T, less something, and only of what is named.              *)
Lessens(T, S, segments) ==
    /\ S \subseteq T /\ S # T
    /\ \A p \in T : p \notin S => Named(segments, p)
    /\ \A p \in S : Doubled(T, segments, p)

Hit(H, g, R, segments) ==
    /\ Sound(R, g) /\ (Trapped(R) => Trapped(H))
    /\ \A x \in DOMAIN H : x \in DOMAIN R /\ (x # g => R[x] = H[x])
    /\ Lessens(Readable(H, g), Readable(R, g), segments)

LEMMA NoneMisses ==
    ASSUME NEW H, NEW g, Sound(H, g), NEW segments, Len(segments) \in Nat, Len(segments) <= Depth,
           NEW v, NEW ks, NEW n \in Nat, n < Len(segments), Walked(H, g, segments, v, ks, n),
           NoneNamed(H, v[n], segments[n + 1])
    PROVE  Miss(H, g, segments)
<1> SUFFICES ASSUME NEW p \in Readable(H, g), Named(segments, p),
                    ~SpelledTwice(Readable(H, g), p, Len(segments))
             PROVE  FALSE
    BY DEF Miss, Doubled
<1>1. Len(p) \in Nat
  <2>1. PICK m \in 1..Depth : \E x : ReadAt(H, g, m, p, x)
      BY ReadableIs
  <2>2. Typed(H) /\ m \in Nat
      BY SoundIs, GovernanceAssumption
  <2>3. PathsOf(H, g, m)
      BY <2>2, AtPath
  <2> QED
      BY <2>1, <2>2, <2>3 DEF PathsOf
<1>2. /\ Len(p) > n /\ n <= Depth /\ n + 1 \in 1..Len(segments)
      /\ \A i \in 1..n : i \in 1..Len(segments)
  <2>1. Len(segments) <= Len(p)
      BY DEF Named
  <2> QED
      BY <1>1, <2>1, GovernanceAssumption
<1>3. p[n + 1].name = segments[n + 1] /\ \A i \in 1..n : p[i].name = segments[i]
    BY <1>2 DEF Named
<1>4. PICK f \in Fields(H, v[n]) : Key(f) = p[n + 1]
    BY <1>2, <1>3, GoesOn
<1>5. f.name = segments[n + 1]
    BY <1>3, <1>4 DEF Key
<1> QED
    BY <1>4, <1>5 DEF NoneNamed

LEMMA CutHits ==
    ASSUME NEW H, NEW g, Sound(H, g), NEW segments, NEW m \in Nat, Len(segments) = m + 1,
           Len(segments) <= Depth,
           NEW v, NEW ks, Walked(H, g, segments, v, ks, m), NEW leaf, leaf = segments[m + 1],
           ~NoneNamed(H, v[m], leaf), v[m] \in DOMAIN H,
           NEW G, Cloned(H, g, v, ks, G, m),
           NEW R, R = [G EXCEPT ![Clone(H, g, m)] = WithoutNamed(@, leaf)]
    PROVE  Hit(H, g, R, segments)
<1> DEFINE k == KeysOf(H, v, ks, m)
           c == ClonesOf(H, g, m)
<1>1. Cut(H, g, v, ks, R, m, leaf)
    BY CutForm
<1>2. Sound(R, g) /\ (Trapped(R) => Trapped(H))
    BY <1>1, CutSound
<1>3. CutAt(H, R, g, m, v, c, k, leaf)
    BY <1>1, CutLinks
<1>4. \A x \in DOMAIN H : x \in DOMAIN R /\ (x # g => R[x] = H[x])
  <2>1. Typed(R) /\ Len(R) = Len(H) + m /\ \A x \in DOMAIN H : x # g => R[x] = H[x]
      BY <1>1 DEF Cut
  <2>2. \A x \in DOMAIN H : x \in DOMAIN R
      BY <2>1, OldOrClone
  <2> QED
      BY <2>1, <2>2
<1>5. Typed(H) /\ Distinct(H) /\ Typed(R)
    BY <1>2, SoundIs
<1>6. \A j \in 1..m : k[j].name = segments[j]
  <2> SUFFICES ASSUME NEW j \in 1..m PROVE k[j].name = segments[j]
      OBVIOUS
  <2>1. k[j] = Key(H[v[j - 1]][ks[j]])
      BY DEF KeysOf
  <2>2. H[v[j - 1]][ks[j]].name = segments[j]
      BY DEF Walked
  <2> QED
      BY <2>1, <2>2 DEF Key
<1>7. ReadAt(H, g, m, k, v[m]) /\ PathsOf(H, g, m)
  <2>1. m \in 0..m
      OBVIOUS
  <2>2. PathsOf(H, g, m)
      BY <1>5, AtPath
  <2> QED
      BY <1>5, <2>1, <2>2, AtTrail
<1>8. ASSUME NEW p \in Readable(H, g)
      PROVE  /\ Gone(p, m, k, leaf) => Named(segments, p)
             /\ Gone(p, m, k, leaf) \/ Doubled(Readable(H, g), segments, p)
  <2>0. Len(p) \in Nat
    <3>1. PICK n \in 1..Depth : \E x : ReadAt(H, g, n, p, x)
        BY ReadableIs
    <3>2. n \in Nat
        BY GovernanceAssumption
    <3>3. PathsOf(H, g, n)
        BY <1>5, <3>2, AtPath
    <3> QED
        BY <3>1, <3>2, <3>3 DEF PathsOf
  <2>1. /\ \A i \in 1..m : i \in 1..Len(segments)
        /\ m + 1 \in 1..Len(segments)
        /\ \A i \in 1..Len(segments) : i \in 1..m \/ i = m + 1
      OBVIOUS
  <2>2. ASSUME Gone(p, m, k, leaf)
        PROVE  Named(segments, p)
    <3>1. Len(p) > m /\ (\A i \in 1..m : p[i] = k[i]) /\ p[m + 1].name = leaf
        BY <2>2 DEF Gone
    <3>2. \A i \in 1..Len(segments) : p[i].name = segments[i]
        BY <1>6, <2>1, <3>1
    <3>3. Len(segments) <= Len(p)
        BY <2>0, <3>1
    <3> QED
        BY <3>2, <3>3 DEF Named
  <2>3. ASSUME Named(segments, p), ~SpelledTwice(Readable(H, g), p, Len(segments))
        PROVE  Gone(p, m, k, leaf)
    <3>1. Len(p) > m /\ m <= Depth /\ m < Len(segments) /\ Len(segments) \in Nat
      <4>1. Len(segments) <= Len(p)
          BY <2>3 DEF Named
      <4> QED
          BY <2>0, <4>1, GovernanceAssumption
    <3>2. p[m + 1].name = leaf /\ \A i \in 1..m : p[i].name = segments[i]
        BY <2>1, <2>3 DEF Named
    <3>3. \A i \in 1..m : p[i] = k[i]
        BY <2>3, <3>1, <3>2, Followed
    <3> QED
        BY <3>1, <3>2, <3>3 DEF Gone
  <2> QED
      BY <2>2, <2>3 DEF Doubled
<1> HIDE DEF k, c
<1>9. Readable(R, g) = {p \in Readable(H, g) : ~Gone(p, m, k, leaf)}
    BY <1>3, <1>5, CutReads
<1>10. \E p \in Readable(H, g) : Gone(p, m, k, leaf)
  <2>1. PICK f \in Fields(H, v[m]) : f.name = leaf
      BY DEF NoneNamed
  <2> DEFINE q == Then(k, Key(f))
             l == m + 1
  <2>2. Leads(H, k, v[m], q, f.value)
      BY DEF Leads
  <2>3. l \in 1..Depth /\ l = m + 1
      BY GovernanceAssumption
  <2>4. Key(f) \in Keys /\ Key(f).name = leaf
      BY <1>5, <2>1, FieldsOf, KeyIsKey DEF Key
  <2>5. k \in Seq(Keys) /\ Len(k) = m
      BY <1>7 DEF PathsOf
  <2> HIDE DEF l
  <2>6. ReadAt(H, g, l, q, f.value)
    <3> HIDE DEF q
    <3> QED
        BY <1>7, <2>2, <2>3, AtFurther
  <2>7. q \in Readable(H, g)
      BY <2>3, <2>6, ReadableIs
  <2>8. OnPath(k, m, k)
      BY <2>5 DEF OnPath
  <2>9. Gone(q, m, k, leaf)
    <3> DEFINE key == Key(f)
    <3>1. key \in Keys /\ key.name = leaf /\ q = Then(k, key)
        BY <2>4
    <3> HIDE DEF key, q
    <3>2. Gone(Then(k, key), m, k, leaf)
            <=> Gone(k, m, k, leaf) \/ (OnPath(k, m, k) /\ Len(k) = m /\ key.name = leaf)
        BY <2>5, <3>1, ThenOnPath
    <3> QED
        BY <2>5, <2>8, <3>1, <3>2
  <2> QED
      BY <2>7, <2>9
<1>11. Lessens(Readable(H, g), Readable(R, g), segments)
  <2> DEFINE T == Readable(H, g)
             S == Readable(R, g)
  <2>1. S = {p \in T : ~Gone(p, m, k, leaf)} /\ \E p \in T : Gone(p, m, k, leaf)
      BY <1>9, <1>10
  <2>2. \A p \in T : /\ Gone(p, m, k, leaf) => Named(segments, p)
                     /\ Gone(p, m, k, leaf) \/ Doubled(T, segments, p)
      BY <1>8
  <2> HIDE DEF S, T
  <2>3. Lessens(T, S, segments)
      BY <2>1, <2>2 DEF Lessens
  <2> QED
      BY <2>3 DEF S, T
<1> QED
    BY <1>2, <1>4, <1>11 DEF Hit

-----------------------------------------------------------------------------
(* One entry of a denylist: a hit, a miss, or a getter that throws.        *)
GovState(H, g, st, er) == [heap |-> H, governed |-> g, stripped |-> st, error |-> er]

EntryOK(e) == e.segments \in Seq(STRING) /\ Len(e.segments) <= Depth

LEMMA GovFields ==
    ASSUME NEW H, NEW g, NEW st, NEW er
    PROVE  /\ GovState(H, g, st, er).heap = H /\ GovState(H, g, st, er).governed = g
           /\ GovState(H, g, st, er).stripped = st /\ GovState(H, g, st, er).error = er
BY DEF GovState

Stripping(s, R, more) == [s EXCEPT !.heap = R, !.stripped = more]

Thrown(s) == [s EXCEPT !.error = TRUE]

LEMMA GovChanged ==
    ASSUME NEW H, NEW g, NEW st, NEW er, NEW R, NEW more
    PROVE  Stripping(GovState(H, g, st, er), R, more) = GovState(R, g, more, er)
<1>1. [GovState(H, g, st, er) EXCEPT !.heap = R] = GovState(R, g, st, er)
    BY DEF GovState
<1>2. [GovState(R, g, st, er) EXCEPT !.stripped = more] = GovState(R, g, more, er)
    BY DEF GovState
<1> QED
    BY <1>1, <1>2 DEF Stripping

LEMMA GovThrown ==
    ASSUME NEW H, NEW g, NEW st, NEW er
    PROVE  Thrown(GovState(H, g, st, er)) = GovState(H, g, st, TRUE)
<1> DEFINE t == TRUE
<1> HIDE DEF t
<1>1. [GovState(H, g, st, er) EXCEPT !.error = t] = GovState(H, g, st, t)
    BY DEF GovState
<1> QED
    BY <1>1 DEF Thrown, t

LEMMA FieldTaken ==
    ASSUME NEW H, NEW g, Sound(H, g), NEW st, NEW er, NEW e, EntryOK(e), ~e.dotted,
           Len(e.segments) = 1,
           NEW t, t = StripField(GovState(H, g, st, er), e)
    PROVE  \/ t = GovState(H, g, st, er) /\ Miss(H, g, e.segments)
           \/ \E R : t = GovState(R, g, Append(st, e), er) /\ Hit(H, g, R, e.segments)
<1> DEFINE s == GovState(H, g, st, er)
           name == e.segments[1]
           v == [j \in 0..0 |-> g]
           R == [H EXCEPT ![g] = WithoutNamed(@, name)]
<1>1. s.heap = H /\ s.governed = g /\ s.stripped = st /\ s.error = er
    BY GovFields
<1>2. v[0] = g
    OBVIOUS
<1> HIDE DEF s, v
<1>3. Walked(H, g, e.segments, v, <<>>, 0)
  <2>1. <<>> \in Seq(Nat) /\ Len(<<>>) = 0
      OBVIOUS
  <2> QED
      BY <1>2, <2>1 DEF Walked
<1>4. Typed(H) /\ g \in DOMAIN H
    BY SoundIs DEF Sound
<1>5. CASE NoneNamed(H, g, name)
  <2>1. matchingKeysCaseInsensitive(H, g, name) = {}
      BY <1>4, <1>5, MatchingIs
  <2>2. t = s
      BY <1>1, <2>1 DEF StripField, s
  <2>3. Miss(H, g, e.segments)
    <3> DEFINE n == 0
               segments == e.segments
               ks == <<>>
    <3>1. /\ n \in Nat /\ Len(segments) \in Nat /\ Len(segments) <= Depth /\ n < Len(segments)
          /\ Walked(H, g, segments, v, ks, n) /\ NoneNamed(H, v[n], segments[n + 1])
        BY <1>2, <1>3, <1>5 DEF EntryOK
    <3> HIDE DEF n, segments, ks
    <3>2. Miss(H, g, segments)
        BY <3>1, NoneMisses
    <3> QED
        BY <3>2 DEF segments
  <2> QED
      BY <2>2, <2>3 DEF s
<1>6. CASE ~NoneNamed(H, g, name)
  <2>1. matchingKeysCaseInsensitive(H, g, name) # {}
      BY <1>4, <1>6, MatchingIs
  <2>2. t = GovState(R, g, Append(st, e), er)
    <3>1. t = [s EXCEPT !.heap[s.governed] = WithoutNamed(@, name),
                        !.stripped = Append(@, e)]
        BY <1>1, <2>1 DEF StripField, s
    <3>2. t = [s EXCEPT !.heap = [s.heap EXCEPT ![s.governed] = WithoutNamed(@, name)],
                        !.stripped = Append(s.stripped, e)]
        BY <3>1
    <3> DEFINE more == Append(st, e)
    <3>3. t = Stripping(s, R, more)
        BY <1>1, <3>2 DEF Stripping
    <3> HIDE DEF R, more
    <3>4. t = GovState(R, g, more, er)
        BY <3>3, GovChanged DEF s
    <3> QED
        BY <3>4 DEF more
  <2>3. Hit(H, g, R, e.segments)
    <3> DEFINE m == 0
               segments == e.segments
               ks == <<>>
               n == Clone(H, g, m)
    <3>1. n = g
        BY DEF Clone
    <3>2. R = [H EXCEPT ![n] = WithoutNamed(@, name)]
        BY <3>1
    <3>3. Cloned(H, g, v, ks, H, m)
      <4>1. Len(H) \in Nat
          BY SoundIs
      <4>2. Len(H) = Len(H) + 0
          BY <4>1
      <4> QED
          BY <1>2, <1>4, <3>1, <4>2 DEF Cloned
    <3>4. /\ m \in Nat /\ Len(segments) = m + 1 /\ Len(segments) <= Depth
          /\ Walked(H, g, segments, v, ks, m) /\ name = segments[m + 1]
          /\ ~NoneNamed(H, v[m], name) /\ v[m] \in DOMAIN H
        BY <1>2, <1>3, <1>4, <1>6 DEF EntryOK
    <3>5. R = [H EXCEPT ![Clone(H, g, m)] = WithoutNamed(@, name)]
        BY <3>2
    <3> HIDE DEF m, segments, ks, n, R, name
    <3>6. Hit(H, g, R, segments)
        BY <3>3, <3>4, <3>5, CutHits
    <3> QED
        BY <3>6 DEF segments
  <2> QED
      BY <2>2, <2>3
<1> QED
    BY <1>5, <1>6

LookedUp(s, segments) ==
    Folded(Descend, [heap |-> s.heap, cur |-> s.governed, keys |-> <<>>,
                     lost |-> FALSE, throws |-> FALSE], Ancestors(segments))

ClonedAlong(s, keys) ==
    Folded(CloneAncestor, [heap |-> s.heap, node |-> s.governed, throws |-> FALSE], keys)

StrippedAt(s, entry, leaf, path, clone) ==
    IF s.error \/ ~entry.dotted \/ Len(entry.segments) < 2 THEN s
    ELSE IF path.throws THEN Thrown(s)
    ELSE IF ~(~path.lost /\ matchingKeysCaseInsensitive(s.heap, path.cur, leaf) # {}) THEN s
    ELSE IF clone.throws THEN Thrown(s)
    ELSE Stripping(s, [clone.heap EXCEPT ![clone.node] = WithoutNamed(@, leaf)],
                   Append(s.stripped, entry))

LEMMA StripIs ==
    ASSUME NEW s, NEW e
    PROVE  stripDottedPath(s, e)
             = StrippedAt(s, e, e.segments[Len(e.segments)], LookedUp(s, e.segments),
                          ClonedAlong(s, LookedUp(s, e.segments).keys))
BY DEF stripDottedPath, StrippedAt, LookedUp, ClonedAlong, Thrown, Stripping

StrippedSo(s, e, leaf, path, clone, t) ==
    /\ path.throws => t = Thrown(s)
    /\ ~path.throws /\ path.lost => t = s
    /\ ~path.throws /\ matchingKeysCaseInsensitive(s.heap, path.cur, leaf) = {} => t = s
    /\ ~path.throws /\ ~path.lost /\ matchingKeysCaseInsensitive(s.heap, path.cur, leaf) # {} =>
         /\ clone.throws => t = Thrown(s)
         /\ ~clone.throws =>
              t = Stripping(s, [clone.heap EXCEPT ![clone.node] = WithoutNamed(@, leaf)],
                            Append(s.stripped, e))

LEMMA StrippedIs ==
    ASSUME NEW s, NEW e, NEW leaf, NEW path, NEW clone, ~s.error, e.dotted, ~(Len(e.segments) < 2)
    PROVE  StrippedSo(s, e, leaf, path, clone, StrippedAt(s, e, leaf, path, clone))
<1> DEFINE R == [clone.heap EXCEPT ![clone.node] = WithoutNamed(@, leaf)]
           a == Stripping(s, R, Append(s.stripped, e))
           b == Thrown(s)
           short == Len(e.segments) < 2
           match == matchingKeysCaseInsensitive(s.heap, path.cur, leaf)
<1>1. StrippedAt(s, e, leaf, path, clone)
        = IF s.error \/ ~e.dotted \/ short THEN s
          ELSE IF path.throws THEN b
          ELSE IF ~(~path.lost /\ match # {}) THEN s
          ELSE IF clone.throws THEN b ELSE a
    BY DEF StrippedAt
<1>2. ~short
    OBVIOUS
<1> HIDE DEF R, a, b, short, match
<1>3. StrippedAt(s, e, leaf, path, clone)
        = IF path.throws THEN b
          ELSE IF ~(~path.lost /\ match # {}) THEN s
          ELSE IF clone.throws THEN b ELSE a
    BY <1>1, <1>2
<1> QED
    BY <1>3 DEF StrippedSo, R, a, b, match

LEMMA WalkedAs ==
    ASSUME NEW H, NEW g, NEW names, NEW others, NEW v, NEW ks, NEW n \in Nat,
           Walked(H, g, names, v, ks, n), \A j \in 1..n : names[j] = others[j]
    PROVE  Walked(H, g, others, v, ks, n)
BY DEF Walked

PathTaken(H, g, st, e, t) ==
    \/ t = GovState(H, g, st, FALSE) /\ Miss(H, g, e.segments)
    \/ t = GovState(H, g, st, TRUE) /\ Trapped(H)
    \/ \E R : t = GovState(R, g, Append(st, e), FALSE) /\ Hit(H, g, R, e.segments)

LEMMA PathIsTaken ==
    ASSUME NEW H, NEW g, Sound(H, g), NEW st, NEW e, EntryOK(e), e.dotted, Len(e.segments) >= 2,
           NEW t, t = stripDottedPath(GovState(H, g, st, FALSE), e)
    PROVE  PathTaken(H, g, st, e, t)
<1> DEFINE s == GovState(H, g, st, FALSE)
           segments == e.segments
           names == Ancestors(segments)
           m == Len(segments) - 1
           leaf == segments[Len(segments)]
           path == LookedUp(s, segments)
           clone == ClonedAlong(s, path.keys)
<1>1. s.heap = H /\ s.governed = g /\ s.stripped = st /\ s.error = FALSE
  <2> DEFINE er == FALSE
  <2> HIDE DEF er
  <2>1. /\ GovState(H, g, st, er).heap = H /\ GovState(H, g, st, er).governed = g
        /\ GovState(H, g, st, er).stripped = st /\ GovState(H, g, st, er).error = er
      BY GovFields
  <2> QED
      BY <2>1 DEF er
<1>2. /\ segments \in Seq(STRING) /\ Len(segments) \in Nat /\ m \in Nat /\ Len(segments) = m + 1
      /\ Len(segments) <= Depth
    BY DEF EntryOK
<1>3. Len(names) = m /\ \A j \in 1..m : names[j] = segments[j]
    BY <1>2 DEF Ancestors
<1>4. Typed(H)
    BY SoundIs
<1> HIDE DEF s, names, path, clone
<1>5. t = StrippedAt(s, e, leaf, path, clone)
    BY StripIs DEF path, clone, s
<1> HIDE DEF leaf, m
<1>6. leaf = segments[m + 1]
    BY <1>2 DEF leaf
<1>7. path = Folded(Descend, PathTo(H, g, <<>>, FALSE, FALSE), names)
  <2>1. [heap |-> s.heap, cur |-> s.governed, keys |-> <<>>, lost |-> FALSE, throws |-> FALSE]
          = PathTo(H, g, <<>>, FALSE, FALSE)
      BY <1>1 DEF PathTo
  <2> QED
      BY <2>1 DEF path, LookedUp, names
<1>8. PICK v : DescendedTo(H, g, names, v, path, m)
  <2>1. Len(names) \in Nat
      BY <1>2, <1>3
  <2>2. \E v : DescendedTo(H, g, names, v,
                 Folded(Descend, PathTo(H, g, <<>>, FALSE, FALSE), names), Len(names))
      BY <1>4, <2>1, DescendsTo
  <2> QED
      BY <1>3, <1>7, <2>2
<1>9. PICK ks, lost, throws :
        /\ path = PathTo(H, v[m], ks, lost, throws)
        /\ throws => Trapped(H)
        /\ lost => m > 0 /\ Missing(H, g, names, v, m - 1)
        /\ ~lost => Walked(H, g, names, v, ks, m)
    BY <1>8 DEF DescendedTo
<1>10. path.cur = v[m] /\ path.keys = ks /\ path.lost = lost /\ path.throws = throws
    BY <1>9 DEF PathTo
<1>11. ~s.error /\ e.dotted /\ ~(Len(e.segments) < 2)
    BY <1>1, <1>2
<1>12. StrippedSo(s, e, leaf, path, clone, t)
  <2>1. StrippedSo(s, e, leaf, path, clone, StrippedAt(s, e, leaf, path, clone))
      BY <1>11, StrippedIs
  <2> QED
      BY <1>5, <2>1
<1>13. Thrown(s) = GovState(H, g, st, TRUE)
    BY GovThrown DEF s
<1>14. CASE throws
  <2>1. t = Thrown(s)
      BY <1>10, <1>14, <1>12 DEF StrippedSo
  <2> QED
      BY <1>9, <1>13, <1>14, <2>1 DEF PathTaken
<1>15. CASE ~throws /\ lost
  <2>1. t = s
      BY <1>10, <1>15, <1>12 DEF StrippedSo
  <2>2. PICK n \in 0..(m - 1) : /\ NoneNamed(H, v[n], names[n + 1])
                                /\ \E some : Walked(H, g, names, v, some, n)
      BY <1>9, <1>15 DEF Missing
  <2>3. PICK some : Walked(H, g, names, v, some, n)
      BY <2>2
  <2>4. n \in Nat /\ n + 1 \in 1..m /\ n < Len(segments) /\ \A j \in 1..n : j \in 1..m
      BY <1>2, <2>2
  <2>5. names[n + 1] = segments[n + 1] /\ \A j \in 1..n : names[j] = segments[j]
      BY <1>3, <2>4
  <2>6. Walked(H, g, segments, v, some, n)
      BY <2>3, <2>4, <2>5, WalkedAs
  <2>7. NoneNamed(H, v[n], segments[n + 1])
      BY <2>2, <2>5
  <2>8. Miss(H, g, segments)
    <3> HIDE DEF segments
    <3> QED
        BY <1>2, <2>4, <2>6, <2>7, NoneMisses
  <2> QED
      BY <2>1, <2>8 DEF PathTaken, s
<1>16. CASE ~throws /\ ~lost
  <2>1. Walked(H, g, segments, v, ks, m)
      BY <1>2, <1>3, <1>9, <1>16, WalkedAs
  <2>2. CASE NoneNamed(H, v[m], leaf)
    <3>1. matchingKeysCaseInsensitive(H, v[m], leaf) = {}
        BY <1>4, <2>2, MatchingIs
    <3>2. t = s
        BY <1>1, <1>10, <1>16, <1>12, <3>1 DEF StrippedSo
    <3>3. Miss(H, g, segments)
      <4>1. m < Len(segments) /\ NoneNamed(H, v[m], segments[m + 1])
          BY <1>2, <1>6, <2>2
      <4> HIDE DEF segments
      <4> QED
          BY <1>2, <2>1, <4>1, NoneMisses
    <3> QED
        BY <3>2, <3>3 DEF PathTaken, s
  <2>3. CASE ~NoneNamed(H, v[m], leaf)
    <3>1. matchingKeysCaseInsensitive(H, v[m], leaf) # {}
        BY <1>4, <2>3, MatchingIs
    <3>2. v[m] \in DOMAIN H
        BY <3>1 DEF matchingKeysCaseInsensitive, IsObject
    <3>3. clone = Folded(CloneAncestor, CloneTo(H, g, FALSE), ks)
      <4>1. [heap |-> s.heap, node |-> s.governed, throws |-> FALSE] = CloneTo(H, g, FALSE)
          BY <1>1 DEF CloneTo
      <4> QED
          BY <1>10, <4>1 DEF clone, ClonedAlong
    <3>4. ClonedTo(H, g, v, ks, clone, m)
      <4>1. ClonedTo(H, g, v, ks, Folded(CloneAncestor, CloneTo(H, g, FALSE), ks), m)
        <5> HIDE DEF segments
        <5> QED
            BY <1>2, <2>1, <3>2, ClonesTo
      <4> QED
          BY <3>3, <4>1
    <3>5. PICK G, thrown : /\ clone = CloneTo(G, Clone(H, g, m), thrown)
                           /\ thrown => Trapped(H)
                           /\ Cloned(H, g, v, ks, G, m)
        BY <3>4 DEF ClonedTo
    <3>6. clone.heap = G /\ clone.node = Clone(H, g, m) /\ clone.throws = thrown
        BY <3>5 DEF CloneTo
    <3>7. CASE thrown
      <4>1. t = Thrown(s)
          BY <1>1, <1>10, <1>16, <1>12, <3>1, <3>6, <3>7 DEF StrippedSo
      <4> QED
          BY <1>13, <3>5, <3>7, <4>1 DEF PathTaken
    <3>8. CASE ~thrown
      <4> DEFINE R == [G EXCEPT ![Clone(H, g, m)] = WithoutNamed(@, leaf)]
                 more == Append(st, e)
      <4>1. t = Stripping(s, R, more)
        <5>1. t = Stripping(s, [clone.heap EXCEPT ![clone.node] = WithoutNamed(@, leaf)],
                            Append(s.stripped, e))
            BY <1>1, <1>10, <1>16, <1>12, <3>1, <3>6, <3>8 DEF StrippedSo
        <5> QED
            BY <1>1, <3>6, <5>1
      <4>2. R = [G EXCEPT ![Clone(H, g, m)] = WithoutNamed(@, leaf)]
          OBVIOUS
      <4> HIDE DEF R, more
      <4>3. t = GovState(R, g, more, FALSE)
        <5> DEFINE er == FALSE
        <5> HIDE DEF er
        <5>1. Stripping(GovState(H, g, st, er), R, more) = GovState(R, g, more, er)
            BY GovChanged
        <5> QED
            BY <4>1, <5>1 DEF s, er
      <4>4. Hit(H, g, R, segments)
        <5> HIDE DEF segments
        <5> QED
            BY <1>2, <1>6, <2>1, <2>3, <3>2, <3>5, <4>2, CutHits
      <4> QED
          BY <4>3, <4>4 DEF PathTaken, more
    <3> QED
        BY <3>7, <3>8
  <2> QED
      BY <2>2, <2>3
<1> QED
    BY <1>14, <1>15, <1>16

-----------------------------------------------------------------------------
(* The whole of a denylist, entry by entry.                                *)
Entry == [dotted : BOOLEAN, segments : Seq(STRING)]

(* The names of the entries done that deny anything.                       *)
Effective(e) == e.dotted => Len(e.segments) >= 2

Done(denylist, done) == {denylist[i].segments : i \in {i \in done : Effective(denylist[i])}}

LEMMA TwiceBelow ==
    ASSUME NEW S, NEW T, S \subseteq T, NEW p, NEW n, SpelledTwice(S, p, n)
    PROVE  SpelledTwice(T, p, n)
BY DEF SpelledTwice

LEMMA DeniesIs ==
    ASSUME NEW e, e.segments \in Seq(STRING), NEW p
    PROVE  Denies(e, p) <=> Effective(e) /\ Named(e.segments, p)
<1>1. DOMAIN e.segments = 1..Len(e.segments)
    OBVIOUS
<1> QED
    BY <1>1 DEF Denies, Named, Effective

(* While a payload is governed: the host's heap is what it was, and of the *)
(* copy g what the names done so far say can no longer be read.            *)
Kept(heap, g, H, st) ==
    /\ Sound(H, g) /\ (Trapped(H) => Trapped(heap))
    /\ \A x \in DOMAIN heap : x \in DOMAIN H /\ H[x] = heap[x]
    /\ st \in Seq(Entry)

LeftOf(B, D, S) ==
    /\ S \subseteq B
    /\ \A p \in B : p \notin S => \E names \in D : Named(names, p)
    /\ \A p \in S, names \in D : Doubled(B, names, p)

Exact(B, D, H, g, st) ==
    LeftOf(B, D, Readable(H, g)) /\ (st = <<>> <=> Readable(H, g) = B)

Governed(heap, g, B, D, s) ==
    \E H, st : s = GovState(H, g, st, FALSE) /\ Kept(heap, g, H, st) /\ Exact(B, D, H, g, st)

Failed(heap, g, s) ==
    \E H, st : s = GovState(H, g, st, TRUE) /\ Kept(heap, g, H, st) /\ Trapped(heap)

LEMMA DoubledBelow ==
    ASSUME NEW S, NEW T, S \subseteq T, NEW names, NEW p, Doubled(S, names, p)
    PROVE  Doubled(T, names, p)
BY TwiceBelow DEF Doubled

LEMMA LeftLess ==
    ASSUME NEW B, NEW D, NEW T, LeftOf(B, D, T), NEW S, NEW names, Lessens(T, S, names)
    PROVE  LeftOf(B, D \cup {names}, S) /\ S # B
<1>1. S \subseteq T /\ T \subseteq B /\ S # T
    BY DEF LeftOf, Lessens
<1>2. ASSUME NEW p \in B, p \notin S
      PROVE  \E other \in D \cup {names} : Named(other, p)
  <2>1. CASE p \in T
      BY <1>2, <2>1 DEF Lessens
  <2>2. CASE p \notin T
      BY <1>2, <2>2 DEF LeftOf
  <2> QED
      BY <2>1, <2>2
<1>3. ASSUME NEW p \in S, NEW other \in D \cup {names}
      PROVE  Doubled(B, other, p)
  <2>1. CASE other \in D
      BY <1>1, <2>1 DEF LeftOf
  <2>2. CASE other = names
    <3>1. Doubled(T, names, p)
        BY DEF Lessens
    <3> QED
        BY <1>1, <2>2, <3>1, DoubledBelow
  <2> QED
      BY <2>1, <2>2
<1> QED
    BY <1>1, <1>2, <1>3 DEF LeftOf

(* What an entry does to it.                                               *)
LEMMA HitGoverns ==
    ASSUME NEW heap, NEW g, g \notin DOMAIN heap, NEW B, NEW D, NEW H, NEW st,
           Kept(heap, g, H, st), Exact(B, D, H, g, st),
           NEW e \in Entry, NEW R, Hit(H, g, R, e.segments),
           NEW C, C = D \cup {e.segments}
    PROVE  Kept(heap, g, R, Append(st, e)) /\ Exact(B, C, R, g, Append(st, e))
<1> DEFINE more == Append(st, e)
<1>1. more \in Seq(Entry) /\ more # <<>>
    BY DEF Kept
<1>2. Sound(R, g) /\ (Trapped(R) => Trapped(heap))
    BY DEF Hit, Kept
<1>3. \A x \in DOMAIN heap : x \in DOMAIN R /\ R[x] = heap[x]
    BY DEF Hit, Kept
<1> HIDE DEF more
<1>4. LeftOf(B, C, Readable(R, g)) /\ Readable(R, g) # B
  <2>1. LeftOf(B, D, Readable(H, g))
      BY DEF Exact
  <2>2. Lessens(Readable(H, g), Readable(R, g), e.segments)
      BY DEF Hit
  <2> QED
      BY <2>1, <2>2, LeftLess
<1>5. Kept(heap, g, R, more)
    BY <1>1, <1>2, <1>3 DEF Kept
<1>6. Exact(B, C, R, g, more)
    BY <1>1, <1>4 DEF Exact
<1> QED
    BY <1>5, <1>6 DEF more

LEMMA MissGoverns ==
    ASSUME NEW B, NEW D, NEW H, NEW g, NEW st, Exact(B, D, H, g, st),
           NEW segments, Miss(H, g, segments),
           NEW C, C = D \cup {segments}
    PROVE  Exact(B, C, H, g, st)
<1> DEFINE S == Readable(H, g)
<1>1. LeftOf(B, D, S) /\ (st = <<>> <=> S = B)
    BY DEF Exact
<1>2. \A p \in S : Doubled(S, segments, p)
    BY DEF Miss
<1> HIDE DEF S
<1>3. \A p \in S : Doubled(B, segments, p)
    BY <1>1, <1>2, DoubledBelow DEF LeftOf
<1>4. LeftOf(B, C, S)
    BY <1>1, <1>3 DEF LeftOf
<1> QED
    BY <1>1, <1>4 DEF Exact, S

LEMMA DoneMore ==
    ASSUME NEW denylist, NEW done, NEW i, NEW e, e = denylist[i], Effective(e)
    PROVE  Done(denylist, done \cup {i}) = Done(denylist, done) \cup {e.segments}
BY DEF Done

LEMMA DoneSame ==
    ASSUME NEW denylist, NEW done, NEW i, ~Effective(denylist[i])
    PROVE  Done(denylist, done \cup {i}) = Done(denylist, done)
BY DEF Done

LEMMA EntryIs ==
    ASSUME NEW denylist, DenylistOK(denylist), NEW i \in DOMAIN denylist, NEW e, e = denylist[i]
    PROVE  /\ e \in Entry /\ e.segments \in Seq(STRING) /\ Len(e.segments) <= Depth
           /\ EntryOK(e) /\ (~e.dotted => Len(e.segments) = 1)
<1>1. denylist \in Seq(Entry)
    BY DEF DenylistOK, Entry
<1>2. e \in Entry
    BY <1>1
<1>3. e.segments \in Seq(STRING)
    BY <1>2 DEF Entry
<1>4. Len(e.segments) <= Depth /\ (~e.dotted => Len(e.segments) = 1)
    BY DEF DenylistOK
<1> QED
    BY <1>2, <1>3, <1>4 DEF EntryOK

(* One field, then one path.                                               *)
LEMMA FieldGoverned ==
    ASSUME NEW heap, NEW g, g \notin DOMAIN heap, NEW B, NEW denylist, DenylistOK(denylist),
           NEW done, NEW i \in DOMAIN denylist, ~denylist[i].dotted,
           NEW s, Governed(heap, g, B, Done(denylist, done), s),
           NEW t, t = StripField(s, denylist[i])
    PROVE  Governed(heap, g, B, Done(denylist, done \cup {i}), t)
<1> DEFINE e == denylist[i]
           D == Done(denylist, done)
           C == Done(denylist, done \cup {i})
<1>1. PICK H, st : s = GovState(H, g, st, FALSE) /\ Kept(heap, g, H, st) /\ Exact(B, D, H, g, st)
    BY DEF Governed
<1>2. /\ e \in Entry /\ e.segments \in Seq(STRING) /\ EntryOK(e) /\ Len(e.segments) = 1
      /\ ~e.dotted
    BY EntryIs
<1>3. C = D \cup {e.segments}
    BY <1>2, DoneMore DEF Effective
<1> HIDE DEF e, D, C
<1>4. \/ t = GovState(H, g, st, FALSE) /\ Miss(H, g, e.segments)
      \/ \E R : t = GovState(R, g, Append(st, e), FALSE) /\ Hit(H, g, R, e.segments)
  <2> DEFINE er == FALSE
  <2>1. t = StripField(GovState(H, g, st, er), e) /\ Sound(H, g)
      BY <1>1 DEF e, Kept
  <2> HIDE DEF er
  <2>2. \/ t = GovState(H, g, st, er) /\ Miss(H, g, e.segments)
        \/ \E R : t = GovState(R, g, Append(st, e), er) /\ Hit(H, g, R, e.segments)
      BY <1>2, <2>1, FieldTaken
  <2> QED
      BY <2>2 DEF er
<1>5. CASE t = GovState(H, g, st, FALSE) /\ Miss(H, g, e.segments)
  <2>1. Exact(B, C, H, g, st)
    <3> DEFINE segments == e.segments
    <3>1. Miss(H, g, segments) /\ C = D \cup {segments}
        BY <1>3, <1>5
    <3> HIDE DEF segments
    <3> QED
        BY <1>1, <3>1, MissGoverns
  <2> QED
      BY <1>1, <1>5, <2>1 DEF Governed, C
<1>6. ASSUME NEW R, t = GovState(R, g, Append(st, e), FALSE), Hit(H, g, R, e.segments)
      PROVE  Governed(heap, g, B, C, t)
  <2>1. Kept(heap, g, R, Append(st, e)) /\ Exact(B, C, R, g, Append(st, e))
      BY <1>1, <1>2, <1>3, <1>6, HitGoverns
  <2> QED
      BY <1>6, <2>1 DEF Governed
<1> QED
    BY <1>4, <1>5, <1>6 DEF C

LEMMA FieldSkipped ==
    ASSUME NEW s, NEW e, e.dotted
    PROVE  StripField(s, e) = s
BY DEF StripField

LEMMA PathGoverned ==
    ASSUME NEW heap, NEW g, g \notin DOMAIN heap, NEW B, NEW denylist, DenylistOK(denylist),
           NEW done, NEW i \in DOMAIN denylist, denylist[i].dotted, Len(denylist[i].segments) >= 2,
           NEW s, Governed(heap, g, B, Done(denylist, done), s),
           NEW t, t = stripDottedPath(s, denylist[i])
    PROVE  Governed(heap, g, B, Done(denylist, done \cup {i}), t) \/ Failed(heap, g, t)
<1> DEFINE e == denylist[i]
           D == Done(denylist, done)
           C == Done(denylist, done \cup {i})
<1>1. PICK H, st : s = GovState(H, g, st, FALSE) /\ Kept(heap, g, H, st) /\ Exact(B, D, H, g, st)
    BY DEF Governed
<1>2. /\ e \in Entry /\ e.segments \in Seq(STRING) /\ EntryOK(e) /\ Len(e.segments) >= 2
      /\ e.dotted
    BY EntryIs
<1>3. C = D \cup {e.segments}
    BY <1>2, DoneMore DEF Effective
<1> HIDE DEF e, D, C
<1>4. PathTaken(H, g, st, e, t)
  <2>1. t = stripDottedPath(GovState(H, g, st, FALSE), e) /\ Sound(H, g)
      BY <1>1 DEF e, Kept
  <2> QED
      BY <1>2, <2>1, PathIsTaken
<1>5. CASE t = GovState(H, g, st, FALSE) /\ Miss(H, g, e.segments)
  <2>1. Exact(B, C, H, g, st)
    <3> DEFINE segments == e.segments
    <3>1. Miss(H, g, segments) /\ C = D \cup {segments}
        BY <1>3, <1>5
    <3> HIDE DEF segments
    <3> QED
        BY <1>1, <3>1, MissGoverns
  <2> QED
      BY <1>1, <1>5, <2>1 DEF Governed, C
<1>6. CASE t = GovState(H, g, st, TRUE) /\ Trapped(H)
  <2>1. Trapped(heap)
      BY <1>1, <1>6 DEF Kept
  <2> QED
      BY <1>1, <1>6, <2>1 DEF Failed
<1>7. ASSUME NEW R, t = GovState(R, g, Append(st, e), FALSE), Hit(H, g, R, e.segments)
      PROVE  Governed(heap, g, B, C, t)
  <2>1. Kept(heap, g, R, Append(st, e)) /\ Exact(B, C, R, g, Append(st, e))
      BY <1>1, <1>2, <1>3, <1>7, HitGoverns
  <2> QED
      BY <1>7, <2>1 DEF Governed
<1> QED
    BY <1>4, <1>5, <1>6, <1>7 DEF PathTaken, C

LEMMA PathSkipped ==
    ASSUME NEW s, NEW e, s.error \/ ~e.dotted \/ Len(e.segments) < 2
    PROVE  stripDottedPath(s, e) = s
<1> DEFINE leaf == e.segments[Len(e.segments)]
           path == LookedUp(s, e.segments)
           clone == ClonedAlong(s, path.keys)
<1>1. stripDottedPath(s, e) = StrippedAt(s, e, leaf, path, clone)
    BY StripIs
<1> HIDE DEF leaf, path, clone
<1> QED
    BY <1>1 DEF StrippedAt

LEMMA FailedStays ==
    ASSUME NEW heap, NEW g, NEW s, Failed(heap, g, s), NEW e
    PROVE  Failed(heap, g, stripDottedPath(s, e))
<1>1. PICK H, st : s = GovState(H, g, st, TRUE)
    BY DEF Failed
<1>2. s.error
  <2> DEFINE er == TRUE
  <2> HIDE DEF er
  <2>1. GovState(H, g, st, er).error = er
      BY GovFields
  <2> QED
      BY <1>1, <2>1 DEF er
<1> QED
    BY <1>2, PathSkipped

-----------------------------------------------------------------------------
(* Both passes over a denylist.                                            *)
Fielded(denylist, n) == {i \in 1..n : ~denylist[i].dotted}

Passed(denylist, n) == {i \in DOMAIN denylist : ~denylist[i].dotted \/ i <= n}

LEMMA FieldsGoverned ==
    ASSUME NEW heap, NEW g, g \notin DOMAIN heap, NEW B, NEW denylist, DenylistOK(denylist),
           NEW s, Governed(heap, g, B, {}, s)
    PROVE  Governed(heap, g, B, Done(denylist, Fielded(denylist, Len(denylist))),
                    Folded(StripField, s, denylist))
<1>1. Len(denylist) \in Nat /\ DOMAIN denylist = 1..Len(denylist)
    BY DEF DenylistOK
<1>2. PICK f : FieldedBy(f, s, denylist)
    BY <1>1, FieldSteps
<1> DEFINE m == Len(denylist)
           D(n) == Done(denylist, Fielded(denylist, n))
           S == {n \in Nat : n <= m => Governed(heap, g, B, D(n), f[n])}
<1>3. /\ f[0] = s /\ \A k \in 1..m : f[k] = StripField(f[k - 1], denylist[k])
      /\ Folded(StripField, s, denylist) = f[m]
    BY <1>2 DEF FieldedBy
<1>4. Governed(heap, g, B, D(0), f[0])
  <2>1. D(0) = {}
      BY DEF Done, Fielded
  <2> QED
      BY <1>3, <2>1
<1>5. ASSUME NEW n \in Nat, n <= m => Governed(heap, g, B, D(n), f[n]), NEW l, l = n + 1, l <= m
      PROVE  Governed(heap, g, B, D(l), f[l])
  <2>1. l \in 1..m /\ l - 1 = n /\ n <= m /\ l \in DOMAIN denylist
      BY <1>1, <1>5
  <2>2. f[l] = StripField(f[n], denylist[l]) /\ Governed(heap, g, B, D(n), f[n])
      BY <1>3, <1>5, <2>1
  <2>3. CASE denylist[l].dotted
    <3>1. f[l] = f[n]
        BY <2>2, <2>3, FieldSkipped
    <3>2. Fielded(denylist, l) = Fielded(denylist, n)
      <4>1. \A i \in 1..l : i \in 1..n \/ i = l
          BY <1>5
      <4>2. \A i \in 1..n : i \in 1..l
          BY <1>5
      <4> QED
          BY <2>3, <4>1, <4>2 DEF Fielded
    <3> QED
        BY <2>2, <3>1, <3>2
  <2>4. CASE ~denylist[l].dotted
    <3> DEFINE done == Fielded(denylist, n)
    <3>1. Fielded(denylist, l) = done \cup {l}
      <4>1. \A i \in 1..l : i \in 1..n \/ i = l
          BY <1>5
      <4>2. l \in 1..l /\ \A i \in 1..n : i \in 1..l
          BY <1>5
      <4> QED
          BY <2>4, <4>1, <4>2 DEF Fielded
    <3>2. Governed(heap, g, B, Done(denylist, done), f[n])
        BY <2>2
    <3> HIDE DEF done
    <3>3. Governed(heap, g, B, Done(denylist, done \cup {l}), f[l])
        BY <2>1, <2>2, <2>4, <3>2, FieldGoverned
    <3> QED
        BY <3>1, <3>3
  <2> QED
      BY <2>3, <2>4
<1>6. 0 \in S /\ \A n \in Nat : n \in S => n + 1 \in S
  <2> HIDE DEF D
  <2> QED
      BY <1>4, <1>5
<1> HIDE DEF S
<1>7. m \in S
    BY <1>1, <1>6, NumbersAll
<1>8. Governed(heap, g, B, D(m), f[m])
  <2> HIDE DEF D
  <2> QED
      BY <1>7 DEF S
<1> QED
    BY <1>3, <1>8

LEMMA PathsGoverned ==
    ASSUME NEW heap, NEW g, g \notin DOMAIN heap, NEW B, NEW denylist, DenylistOK(denylist),
           NEW s, Governed(heap, g, B, Done(denylist, Passed(denylist, 0)), s),
           NEW t, t = Folded(stripDottedPath, s, denylist)
    PROVE  \/ Governed(heap, g, B, Done(denylist, DOMAIN denylist), t)
           \/ Failed(heap, g, t)
<1>1. Len(denylist) \in Nat /\ DOMAIN denylist = 1..Len(denylist)
    BY DEF DenylistOK
<1>2. PICK f : PathedBy(f, s, denylist)
    BY <1>1, PathSteps
<1> DEFINE m == Len(denylist)
           D(n) == Done(denylist, Passed(denylist, n))
           S == {n \in Nat : n <= m => Governed(heap, g, B, D(n), f[n]) \/ Failed(heap, g, f[n])}
<1>3. /\ f[0] = s /\ \A k \in 1..m : f[k] = stripDottedPath(f[k - 1], denylist[k])
      /\ Folded(stripDottedPath, s, denylist) = f[m]
    BY <1>2 DEF PathedBy
<1>4. Governed(heap, g, B, D(0), f[0])
    BY <1>3
<1>5. ASSUME NEW n \in Nat,
             n <= m => Governed(heap, g, B, D(n), f[n]) \/ Failed(heap, g, f[n]),
             NEW l, l = n + 1, l <= m
      PROVE  Governed(heap, g, B, D(l), f[l]) \/ Failed(heap, g, f[l])
  <2>1. l \in 1..m /\ l - 1 = n /\ n <= m /\ l \in DOMAIN denylist
      BY <1>1, <1>5
  <2>2. f[l] = stripDottedPath(f[n], denylist[l])
      BY <1>3, <2>1
  <2> DEFINE done == Passed(denylist, n)
             e == denylist[l]
  <2>3. CASE Failed(heap, g, f[n])
      BY <2>2, <2>3, FailedStays
  <2>4. ASSUME Governed(heap, g, B, D(n), f[n]), ~e.dotted \/ Len(e.segments) < 2
        PROVE  Governed(heap, g, B, D(l), f[l])
    <3>1. f[l] = f[n]
        BY <2>2, <2>4, PathSkipped
    <3>2. \A i \in DOMAIN denylist : i <= l <=> i <= n \/ i = l
        BY <1>1, <1>5
    <3>3. CASE ~e.dotted
      <4>1. Passed(denylist, l) = done
          BY <2>1, <3>2, <3>3 DEF Passed
      <4> QED
          BY <2>4, <3>1, <4>1
    <3>4. CASE e.dotted
      <4>1. e.segments \in Seq(STRING) /\ Len(e.segments) < 2
          BY <2>1, <2>4, <3>4, EntryIs
      <4>2. ~Effective(e)
          BY <3>4, <4>1 DEF Effective
      <4>3. Passed(denylist, l) = done \cup {l}
          BY <2>1, <3>2 DEF Passed
      <4>4. D(l) = D(n)
          BY <4>2, <4>3, DoneSame
      <4> QED
          BY <2>4, <3>1, <4>4
    <3> QED
        BY <3>3, <3>4
  <2>5. ASSUME Governed(heap, g, B, D(n), f[n]), e.dotted, ~(Len(e.segments) < 2)
        PROVE  Governed(heap, g, B, D(l), f[l]) \/ Failed(heap, g, f[l])
    <3>1. Passed(denylist, l) = done \cup {l}
      <4>1. \A i \in DOMAIN denylist : i <= l <=> i <= n \/ i = l
          BY <1>1, <1>5
      <4> QED
          BY <2>1, <4>1 DEF Passed
    <3>2. Governed(heap, g, B, Done(denylist, done), f[n])
        BY <2>5
    <3>3. Len(denylist[l].segments) >= 2 /\ denylist[l].dotted
      <4>1. e.segments \in Seq(STRING)
          BY <2>1, EntryIs
      <4> QED
          BY <2>5, <4>1
    <3> HIDE DEF done
    <3>4. \/ Governed(heap, g, B, Done(denylist, done \cup {l}), f[l])
          \/ Failed(heap, g, f[l])
        BY <2>1, <2>2, <3>2, <3>3, PathGoverned
    <3> QED
        BY <3>1, <3>4
  <2>6. Governed(heap, g, B, D(n), f[n]) \/ Failed(heap, g, f[n])
    <3> HIDE DEF D
    <3> QED
        BY <1>5, <2>1
  <2> HIDE DEF D, e
  <2> QED
      BY <2>3, <2>4, <2>5, <2>6
<1>6. 0 \in S /\ \A n \in Nat : n \in S => n + 1 \in S
  <2> HIDE DEF D
  <2> QED
      BY <1>4, <1>5
<1> HIDE DEF S
<1>7. m \in S
    BY <1>1, <1>6, NumbersAll
<1>8. Governed(heap, g, B, D(m), f[m]) \/ Failed(heap, g, f[m])
  <2> HIDE DEF D
  <2> QED
      BY <1>7 DEF S
<1>9. Passed(denylist, m) = DOMAIN denylist
    BY <1>1 DEF Passed
<1> QED
    BY <1>3, <1>8, <1>9

LEMMA AllGoverned ==
    ASSUME NEW heap, NEW g, g \notin DOMAIN heap, NEW B, NEW denylist, DenylistOK(denylist),
           NEW s, Governed(heap, g, B, {}, s),
           NEW t, t = Folded(stripDottedPath, Folded(StripField, s, denylist), denylist)
    PROVE  \/ Governed(heap, g, B, Done(denylist, DOMAIN denylist), t)
           \/ Failed(heap, g, t)
<1> DEFINE u == Folded(StripField, s, denylist)
<1>1. Governed(heap, g, B, Done(denylist, Fielded(denylist, Len(denylist))), u)
    BY FieldsGoverned
<1>2. Fielded(denylist, Len(denylist)) = Passed(denylist, 0)
  <2>1. DOMAIN denylist = 1..Len(denylist)
      BY DEF DenylistOK
  <2>2. \A i \in 1..Len(denylist) : ~(i <= 0)
      OBVIOUS
  <2> QED
      BY <2>1, <2>2 DEF Fielded, Passed
<1>3. t = Folded(stripDottedPath, u, denylist)
    OBVIOUS
<1> HIDE DEF u
<1>4. Governed(heap, g, B, Done(denylist, Passed(denylist, 0)), u)
    BY <1>1, <1>2
<1> QED
    BY <1>3, <1>4, PathsGoverned

-----------------------------------------------------------------------------
(* A copy reads like what it is a copy of, where the host's heap is kept.  *)
PayloadHeap(heap) ==
    /\ Typed(heap)
    /\ \A x \in DOMAIN heap : Tidy(heap[x], DOMAIN heap \cup {Scalar, Throws})

LEMMA PayloadIs ==
    ASSUME NEW heap, PayloadOK(heap)
    PROVE  PayloadHeap(heap)
<1>1. Typed(heap)
    BY DEF PayloadOK, Typed
<1>2. ASSUME NEW x \in DOMAIN heap
      PROVE  Tidy(heap[x], DOMAIN heap \cup {Scalar, Throws})
  <2> DEFINE o == heap[x]
  <2>1. o \in Seq(ObjectField)
      BY <1>1, <1>2 DEF Typed
  <2>2. o \in ToSet(heap)
      BY <1>2 DEF ToSet
  <2> HIDE DEF o
  <2>3. \A i, j \in DOMAIN o : /\ o[i].value \in DOMAIN heap \cup {Scalar, Throws}
                               /\ Key(o[i]) = Key(o[j]) => i = j
      BY <2>2 DEF PayloadOK
  <2>4. Tidy(o, DOMAIN heap \cup {Scalar, Throws})
      BY <2>1, <2>3 DEF Tidy
  <2> QED
      BY <2>4 DEF o
<1> QED
    BY <1>1, <1>2 DEF PayloadHeap

LEMMA CopyReads ==
    ASSUME NEW heap, PayloadHeap(heap), NEW params \in DOMAIN heap, NEW H, Typed(H),
           \A x \in DOMAIN heap : x \in DOMAIN H /\ H[x] = heap[x],
           NEW h \in DOMAIN H, H[h] = heap[params]
    PROVE  Readable(H, h) = Readable(heap, params)
<1> DEFINE S == DOMAIN heap \cup {Scalar, Throws}
<1>1. Typed(heap) /\ DOMAIN heap = 1..Len(heap) /\ DOMAIN H = 1..Len(H)
    BY DEF PayloadHeap, Typed
<1>2. Scalar \notin DOMAIN heap /\ Throws \notin DOMAIN heap
      /\ Scalar \notin DOMAIN H /\ Throws \notin DOMAIN H
    BY <1>1, GovernanceAssumption
<1>3. \A x \in DOMAIN heap : Fields(heap, x) = Fields(H, x)
  <2> SUFFICES ASSUME NEW x \in DOMAIN heap PROVE Fields(heap, x) = Fields(H, x)
      OBVIOUS
  <2>1. x \in DOMAIN H /\ H[x] = heap[x]
      OBVIOUS
  <2>2. Fields(heap, x) = {heap[x][i] : i \in DOMAIN heap[x]}
      BY <1>1, FieldsOf
  <2>3. Fields(H, x) = {H[x][i] : i \in DOMAIN H[x]}
      BY <2>1, FieldsOf
  <2> QED
      BY <2>1, <2>2, <2>3
<1>4. \A x \in {Scalar, Throws} : Fields(heap, x) = Fields(H, x)
  <2>1. \A x \in {Scalar, Throws} : Fields(heap, x) = {}
      BY <1>1, <1>2, FieldsOf
  <2>2. \A x \in {Scalar, Throws} : Fields(H, x) = {}
      BY <1>2, FieldsOf
  <2> QED
      BY <2>1, <2>2
<1>5. ASSUME NEW x, NEW f \in Fields(heap, x)
      PROVE  f.value \in S
  <2>1. x \in DOMAIN heap
      BY <1>1, <1>5, FieldsOf
  <2>2. Fields(heap, x) = {heap[x][i] : i \in DOMAIN heap[x]}
      BY <1>1, <2>1, FieldsOf
  <2>3. PICK i \in DOMAIN heap[x] : f = heap[x][i]
      BY <1>5, <2>2
  <2>4. Tidy(heap[x], S)
      BY <2>1 DEF PayloadHeap
  <2> QED
      BY <2>3, <2>4 DEF Tidy
<1>6. AlikeBelow(heap, H, S)
    BY <1>3, <1>4, <1>5 DEF AlikeBelow
<1>7. Fields(heap, params) = Fields(H, h)
  <2>1. Fields(heap, params) = {heap[params][i] : i \in DOMAIN heap[params]}
      BY <1>1, FieldsOf
  <2>2. Fields(H, h) = {H[h][i] : i \in DOMAIN H[h]}
      BY FieldsOf
  <2> QED
      BY <2>1, <2>2
<1>8. \A f \in Fields(heap, params) : f.value \in S
    BY <1>5
<1> HIDE DEF S
<1> QED
    BY <1>6, <1>7, <1>8, AlikeRead

(* One object more.                                                        *)
Longer(heap, object, n, H) ==
    /\ Typed(H) /\ Len(H) = n /\ n \in DOMAIN H /\ H[n] = object /\ n \notin DOMAIN heap
    /\ \A x \in DOMAIN heap : x \in DOMAIN H /\ H[x] = heap[x]
    /\ \A x \in DOMAIN H : x \in DOMAIN heap \/ x = n

LEMMA OneMore ==
    ASSUME NEW heap, Typed(heap), NEW object \in Seq(ObjectField), NEW n, n = Len(heap) + 1,
           NEW H, H = Append(heap, object)
    PROVE  Longer(heap, object, n, H)
<1> DEFINE T == Seq(ObjectField)
<1>1. heap \in Seq(T) /\ object \in T
    BY DEF Typed
<1> HIDE DEF T
<1>2. DOMAIN heap = 1..Len(heap) /\ Len(heap) \in Nat
    BY <1>1
<1>3. /\ H \in Seq(T) /\ Len(H) = n /\ H[n] = object
      /\ \A x \in 1..Len(heap) : H[x] = heap[x]
    BY <1>1
<1>4. DOMAIN H = 1..n
    BY <1>3
<1> QED
    BY <1>2, <1>3, <1>4 DEF Typed, T, Longer

LEMMA CopyGoverned ==
    ASSUME NEW heap, PayloadHeap(heap), NEW params \in DOMAIN heap, NEW g, g = Len(heap) + 1,
           NEW H, H = Append(heap, heap[params]), NEW B, B = Readable(heap, params)
    PROVE  Governed(heap, g, B, {}, GovState(H, g, <<>>, FALSE))
<1> DEFINE object == heap[params]
           V == DOMAIN heap \cup {Scalar, Throws}
           W == Values(H, g)
<1>1. Typed(heap) /\ object \in Seq(ObjectField) /\ Tidy(object, V)
  <2>1. Typed(heap) /\ Tidy(object, V)
      BY DEF PayloadHeap
  <2> QED
      BY <2>1 DEF Tidy
<1> HIDE DEF object
<1>2. /\ Typed(H) /\ Len(H) = g /\ g \in DOMAIN H /\ H[g] = object /\ g \notin DOMAIN heap
      /\ \A x \in DOMAIN heap : x \in DOMAIN H /\ H[x] = heap[x]
      /\ \A x \in DOMAIN H : x \in DOMAIN heap \/ x = g
  <2>1. H = Append(heap, object)
      BY DEF object
  <2>2. Longer(heap, object, g, H)
      BY <1>1, <2>1, OneMore
  <2> QED
      BY <2>2 DEF Longer
<1>3. V \subseteq W
    BY <1>2 DEF Values
<1>4. Sound(H, g)
  <2>1. ASSUME NEW x \in DOMAIN H
        PROVE  Tidy(H[x], W)
    <3>1. Tidy(H[x], V)
      <4>1. CASE x = g
          BY <1>1, <1>2, <4>1
      <4>2. CASE x # g
        <5>1. x \in DOMAIN heap /\ H[x] = heap[x]
            BY <1>2, <2>1, <4>2
        <5> QED
            BY <5>1 DEF PayloadHeap
      <4> QED
          BY <4>1, <4>2
    <3> HIDE DEF V, W
    <3> QED
        BY <1>3, <3>1, TidyMore
  <2> QED
      BY <1>2, <2>1 DEF Sound
<1>5. Trapped(H) => Trapped(heap)
  <2> SUFFICES ASSUME NEW x \in DOMAIN H, ~Copied(H[x]) PROVE Trapped(heap)
      BY DEF Trapped
  <2>1. CASE x \in DOMAIN heap
      BY <1>2, <2>1 DEF Trapped
  <2>2. CASE x = g
      BY <1>2, <2>2 DEF Trapped, object
  <2> QED
      BY <1>2, <2>1, <2>2
<1>6. Readable(H, g) = B
  <2>1. /\ Typed(H) /\ g \in DOMAIN H /\ H[g] = heap[params]
        /\ \A x \in DOMAIN heap : x \in DOMAIN H /\ H[x] = heap[x]
      BY <1>2 DEF object
  <2>2. Readable(H, g) = Readable(heap, params)
      BY <2>1, CopyReads
  <2> QED
      BY <2>2
<1> DEFINE st == <<>>
<1>7. st \in Seq(Entry)
    OBVIOUS
<1>8. LeftOf(B, {}, B) /\ st = <<>>
    BY DEF LeftOf
<1> HIDE DEF st
<1>9. Kept(heap, g, H, st)
    BY <1>2, <1>4, <1>5, <1>7 DEF Kept
<1>10. Exact(B, {}, H, g, st)
    BY <1>6, <1>8 DEF Exact
<1>11. Governed(heap, g, B, {}, GovState(H, g, st, FALSE))
    BY <1>9, <1>10 DEF Governed
<1> QED
    BY <1>11 DEF st

(* The host's heap lies before the copies.                                 *)
LEMMA PrefixIs ==
    ASSUME NEW heap, Typed(heap), NEW H, Typed(H),
           \A x \in DOMAIN heap : x \in DOMAIN H /\ H[x] = heap[x]
    PROVE  SubSeq(H, 1, Len(heap)) = heap
<1> DEFINE T == Seq(ObjectField)
           n == Len(heap)
<1>1. heap \in Seq(T) /\ H \in Seq(T)
    BY DEF Typed
<1> HIDE DEF T
<1>2. n \in Nat /\ DOMAIN heap = 1..n /\ Len(H) \in Nat /\ DOMAIN H = 1..Len(H)
    BY <1>1
<1>3. n <= Len(H)
  <2>1. CASE n = 0
      BY <1>2, <2>1
  <2>2. CASE n # 0
    <3>1. n \in DOMAIN heap
        BY <1>2, <2>2
    <3> QED
        BY <1>2, <3>1
  <2> QED
      BY <2>1, <2>2
<1> DEFINE p == SubSeq(H, 1, n)
<1>4. p \in Seq(T) /\ Len(p) = n /\ \A i \in 1..n : p[i] = H[i]
    BY <1>1, <1>2, <1>3
<1>5. \A i \in 1..n : p[i] = heap[i]
    BY <1>2, <1>4
<1> HIDE DEF p
<1>6. p = heap
    BY <1>1, <1>2, <1>4, <1>5
<1> QED
    BY <1>6 DEF p

(* What is to be shown of a result.                                        *)
ExactResult(heap, params, denylist, H, g, st, thrown) ==
    LET before == Readable(heap, params)
        after  == Readable(H, g) IN
      /\ SubSeq(H, 1, Len(heap)) = heap
      /\ ~thrown => /\ LeftOf(before, Done(denylist, DOMAIN denylist), after)
                    /\ (g = params <=> after = before) /\ (st = <<>> <=> after = before)
      /\ thrown => Readable(H, g) = before /\ Trapped(heap)

LEMMA LeftIs ==
    ASSUME NEW denylist, DenylistOK(denylist), NEW before, NEW after,
           LeftOf(before, Done(denylist, DOMAIN denylist), after)
    PROVE  /\ after \subseteq before
           /\ \A p \in before : p \notin after => \E i \in DOMAIN denylist : Denies(denylist[i], p)
           /\ \A p \in after, i \in DOMAIN denylist :
                Denies(denylist[i], p) => SpelledTwice(before, p, Len(denylist[i].segments))
<1> DEFINE D == Done(denylist, DOMAIN denylist)
<1>1. \A p : \A i \in DOMAIN denylist :
         Denies(denylist[i], p) <=> Effective(denylist[i]) /\ Named(denylist[i].segments, p)
    BY EntryIs, DeniesIs
<1>2. ASSUME NEW p \in before, p \notin after
      PROVE  \E i \in DOMAIN denylist : Denies(denylist[i], p)
  <2>1. PICK names \in D : Named(names, p)
      BY <1>2 DEF LeftOf
  <2>2. PICK i \in DOMAIN denylist : Effective(denylist[i]) /\ names = denylist[i].segments
      BY DEF Done
  <2> QED
      BY <1>1, <2>1, <2>2
<1>3. ASSUME NEW p \in after, NEW i \in DOMAIN denylist, Denies(denylist[i], p)
      PROVE  SpelledTwice(before, p, Len(denylist[i].segments))
  <2>1. Effective(denylist[i]) /\ Named(denylist[i].segments, p)
      BY <1>1, <1>3
  <2>2. denylist[i].segments \in D
      BY <2>1 DEF Done
  <2>3. Doubled(before, denylist[i].segments, p)
      BY <2>2 DEF LeftOf
  <2> QED
      BY <2>1, <2>3 DEF Doubled
<1> QED
    BY <1>2, <1>3 DEF LeftOf

LEMMA ResultIs ==
    ASSUME NEW heap, NEW params, NEW denylist, DenylistOK(denylist), NEW H, NEW g, NEW st,
           NEW er \in BOOLEAN, ExactResult(heap, params, denylist, H, g, st, er),
           NEW r, r.heap = H, r.governed = g, r.stripped = st, r.error = er
    PROVE  StripIsExact(heap, params, denylist, r)
<1> DEFINE before == Readable(heap, params)
           after  == Readable(H, g)
           denied == {p \in before : \E i \in DOMAIN denylist : Denies(denylist[i], p)}
           clear  == {p \in before : \E i \in DOMAIN denylist :
                        /\ Denies(denylist[i], p)
                        /\ ~SpelledTwice(before, p, Len(denylist[i].segments))}
<1>1. Trapped(heap) => \E object \in ToSet(heap) : ~Copied(object)
  <2>1. \A x \in DOMAIN heap : heap[x] \in ToSet(heap)
      BY DEF ToSet
  <2> QED
      BY <2>1 DEF Trapped
<1>2. SubSeq(H, 1, Len(heap)) = heap /\ (er => after = before /\ Trapped(heap))
    BY DEF ExactResult
<1>3. ASSUME ~er
      PROVE  /\ before \ denied \subseteq after /\ after \subseteq before \ clear
             /\ (g = params) = (after = before) /\ (st = <<>>) = (after = before)
  <2>1. /\ LeftOf(before, Done(denylist, DOMAIN denylist), after)
        /\ (g = params <=> after = before) /\ (st = <<>> <=> after = before)
      BY <1>3 DEF ExactResult
  <2> HIDE DEF before, after
  <2>2. /\ after \subseteq before
        /\ \A p \in before : p \notin after => \E i \in DOMAIN denylist : Denies(denylist[i], p)
        /\ \A p \in after, i \in DOMAIN denylist :
             Denies(denylist[i], p) => SpelledTwice(before, p, Len(denylist[i].segments))
      BY <2>1, LeftIs
  <2>3. before \ denied \subseteq after
      BY <2>2
  <2>4. after \subseteq before \ clear
      BY <2>2
  <2> QED
      BY <2>1, <2>3, <2>4
<1>4. StripIsExact(heap, params, denylist, r)
        <=> /\ SubSeq(r.heap, 1, Len(heap)) = heap
            /\ ~r.error =>
                 /\ before \ denied \subseteq Readable(r.heap, r.governed)
                 /\ Readable(r.heap, r.governed) \subseteq before \ clear
                 /\ (r.governed = params) = (Readable(r.heap, r.governed) = before)
                 /\ (r.stripped = <<>>) = (Readable(r.heap, r.governed) = before)
            /\ r.error =>
                 /\ Readable(r.heap, r.governed) = before
                 /\ \E object \in ToSet(heap) : ~Copied(object)
    BY DEF StripIsExact
<1>5. Readable(r.heap, r.governed) = after
    OBVIOUS
<1> HIDE DEF before, after, denied, clear
<1> QED
    BY <1>1, <1>2, <1>3, <1>4, <1>5

-----------------------------------------------------------------------------
(* The whole of governPayload.                                             *)
GovernedBy(copy, denylist) ==
    Folded(stripDottedPath, Folded(StripField, copy, denylist), denylist)

Restored(s, n, H) == [s EXCEPT !.governed = n, !.heap = H, !.stripped = <<>>]

Settled(s, n) == [s EXCEPT !.governed = n]

GovernTo(heap, params, denylist, s) ==
    CASE denylist = <<>> -> GovState(heap, params, <<>>, FALSE)
      [] denylist # <<>> /\ ~Copied(heap[params]) -> GovState(heap, params, <<>>, TRUE)
      [] denylist # <<>> /\ Copied(heap[params]) /\ s.error ->
           Restored(s, Len(s.heap) + 1, Append(s.heap, heap[params]))
      [] OTHER -> Settled(s, IF s.stripped = <<>> THEN params ELSE s.governed)

LEMMA GovernIs ==
    ASSUME NEW heap, NEW params, NEW denylist
    PROVE  governPayload(heap, params, denylist)
             = GovernTo(heap, params, denylist,
                        GovernedBy(GovState(Append(heap, heap[params]), Len(heap) + 1, <<>>, FALSE),
                                   denylist))
BY DEF governPayload, GovernTo, GovernedBy, GovState, Restored, Settled

GovernSo(heap, params, denylist, s, r) ==
    /\ denylist = <<>> => r = GovState(heap, params, <<>>, FALSE)
    /\ denylist # <<>> /\ ~Copied(heap[params]) => r = GovState(heap, params, <<>>, TRUE)
    /\ denylist # <<>> /\ Copied(heap[params]) /\ s.error =>
         r = Restored(s, Len(s.heap) + 1, Append(s.heap, heap[params]))
    /\ denylist # <<>> /\ Copied(heap[params]) /\ ~s.error =>
         r = Settled(s, IF s.stripped = <<>> THEN params ELSE s.governed)

LEMMA GovernCases ==
    ASSUME NEW heap, NEW params, NEW denylist, NEW s, NEW r, r = GovernTo(heap, params, denylist, s)
    PROVE  GovernSo(heap, params, denylist, s, r)
<1> DEFINE a == GovState(heap, params, <<>>, FALSE)
           b == GovState(heap, params, <<>>, TRUE)
           c == Restored(s, Len(s.heap) + 1, Append(s.heap, heap[params]))
           d == Settled(s, IF s.stripped = <<>> THEN params ELSE s.governed)
           none == denylist = <<>>
           copied == Copied(heap[params])
<1>1. r = CASE none -> a
            [] ~none /\ ~copied -> b
            [] ~none /\ copied /\ s.error -> c
            [] OTHER -> d
    BY DEF GovernTo
<1> HIDE DEF a, b, c, d, none, copied
<1>2. /\ none => r = a
      /\ ~none /\ ~copied => r = b
      /\ ~none /\ copied /\ s.error => r = c
      /\ ~none /\ copied /\ ~s.error => r = d
    BY <1>1
<1> QED
    BY <1>2 DEF a, b, c, d, none, copied, GovernSo

LEMMA RestoredIs ==
    ASSUME NEW H, NEW g, NEW st, NEW er, NEW n, NEW R
    PROVE  Restored(GovState(H, g, st, er), n, R) = GovState(R, n, <<>>, er)
<1> DEFINE z == <<>>
<1> HIDE DEF z
<1>1. [GovState(H, g, st, er) EXCEPT !.governed = n] = GovState(H, n, st, er)
    BY DEF GovState
<1>2. [GovState(H, n, st, er) EXCEPT !.heap = R] = GovState(R, n, st, er)
    BY DEF GovState
<1>3. [GovState(R, n, st, er) EXCEPT !.stripped = z] = GovState(R, n, z, er)
    BY DEF GovState
<1> QED
    BY <1>1, <1>2, <1>3 DEF Restored, z

LEMMA SettledIs ==
    ASSUME NEW H, NEW g, NEW st, NEW er, NEW n
    PROVE  Settled(GovState(H, g, st, er), n) = GovState(H, n, st, er)
BY DEF Settled, GovState

(* A result that is the payload itself, or a copy of it.                   *)
LEMMA AsItWas ==
    ASSUME NEW heap, PayloadHeap(heap), NEW params \in DOMAIN heap,
           NEW denylist, DenylistOK(denylist),
           NEW H, Typed(H), \A x \in DOMAIN heap : x \in DOMAIN H /\ H[x] = heap[x],
           NEW h \in DOMAIN H, H[h] = heap[params], Trapped(heap), NEW st
    PROVE  StripIsExact(heap, params, denylist, GovState(H, h, st, TRUE))
<1> DEFINE er == TRUE
<1>1. er \in BOOLEAN /\ er
    OBVIOUS
<1> HIDE DEF er
<1>2. Typed(heap)
    BY DEF PayloadHeap
<1>3. SubSeq(H, 1, Len(heap)) = heap
    BY <1>2, PrefixIs
<1>4. Readable(H, h) = Readable(heap, params)
    BY CopyReads
<1>5. ExactResult(heap, params, denylist, H, h, st, er)
    BY <1>1, <1>3, <1>4 DEF ExactResult
<1>6. StripIsExact(heap, params, denylist, GovState(H, h, st, er))
  <2> DEFINE r == GovState(H, h, st, er)
  <2>1. r.heap = H /\ r.governed = h /\ r.stripped = st /\ r.error = er
      BY GovFields
  <2> HIDE DEF r
  <2>2. StripIsExact(heap, params, denylist, r)
      BY <1>1, <1>5, <2>1, ResultIs
  <2> QED
      BY <2>2 DEF r
<1> QED
    BY <1>6 DEF er

LEMMA NothingThrown ==
    ASSUME NEW heap, PayloadHeap(heap), NEW params \in DOMAIN heap,
           NEW denylist, DenylistOK(denylist),
           NEW H, Typed(H), \A x \in DOMAIN heap : x \in DOMAIN H /\ H[x] = heap[x],
           NEW h, NEW st, NEW before, before = Readable(heap, params),
           LeftOf(before, Done(denylist, DOMAIN denylist), Readable(H, h)),
           h = params <=> Readable(H, h) = before, st = <<>> <=> Readable(H, h) = before
    PROVE  StripIsExact(heap, params, denylist, GovState(H, h, st, FALSE))
<1> DEFINE er == FALSE
<1>1. er \in BOOLEAN /\ ~er
    OBVIOUS
<1> HIDE DEF er
<1>2. Typed(heap)
    BY DEF PayloadHeap
<1>3. SubSeq(H, 1, Len(heap)) = heap
    BY <1>2, PrefixIs
<1>5. ExactResult(heap, params, denylist, H, h, st, er)
    BY <1>1, <1>3 DEF ExactResult
<1>6. StripIsExact(heap, params, denylist, GovState(H, h, st, er))
  <2> DEFINE r == GovState(H, h, st, er)
  <2>1. r.heap = H /\ r.governed = h /\ r.stripped = st /\ r.error = er
      BY GovFields
  <2> HIDE DEF r
  <2>2. StripIsExact(heap, params, denylist, r)
      BY <1>1, <1>5, <2>1, ResultIs
  <2> QED
      BY <2>2 DEF r
<1> QED
    BY <1>6 DEF er

LEMMA GovernIsExact ==
    ASSUME NEW heap, PayloadOK(heap), NEW params \in DOMAIN heap,
           NEW denylist, DenylistOK(denylist)
    PROVE  StripIsExact(heap, params, denylist, governPayload(heap, params, denylist))
<1> DEFINE g == Len(heap) + 1
           H0 == Append(heap, heap[params])
           s == GovernedBy(GovState(H0, g, <<>>, FALSE), denylist)
           r == governPayload(heap, params, denylist)
           before == Readable(heap, params)
           D == Done(denylist, DOMAIN denylist)
<1>1. PayloadHeap(heap) /\ Typed(heap) /\ DOMAIN heap = 1..Len(heap)
  <2>1. PayloadHeap(heap)
      BY PayloadIs
  <2>2. Typed(heap)
      BY <2>1 DEF PayloadHeap
  <2> QED
      BY <2>1, <2>2 DEF Typed
<1>2. g \notin DOMAIN heap /\ g # params
    BY <1>1
<1>3. r = GovernTo(heap, params, denylist, s)
    BY GovernIs
<1>4. Governed(heap, g, before, D, s) \/ Failed(heap, g, s)
  <2> DEFINE copy == GovState(H0, g, <<>>, FALSE)
  <2>1. Governed(heap, g, before, {}, copy)
    <3>1. g = Len(heap) + 1 /\ H0 = Append(heap, heap[params]) /\ before = Readable(heap, params)
        OBVIOUS
    <3> HIDE DEF g, H0, before
    <3> QED
        BY <1>1, <3>1, CopyGoverned
  <2>2. s = Folded(stripDottedPath, Folded(StripField, copy, denylist), denylist)
      BY DEF GovernedBy
  <2> HIDE DEF copy, s, g, before
  <2> QED
      BY <1>2, <2>1, <2>2, AllGoverned
<1> HIDE DEF s, r, H0
<1>11. GovernSo(heap, params, denylist, s, r)
    BY <1>3, GovernCases
<1>5. \A x \in DOMAIN heap : x \in DOMAIN heap /\ heap[x] = heap[x]
    OBVIOUS
<1>6. CASE denylist = <<>>
  <2> DEFINE st == <<>>
             h == params
  <2>1. r = GovState(heap, h, st, FALSE)
      BY <1>6, <1>11 DEF GovernSo
  <2>2. D = {}
      BY <1>6 DEF Done
  <2>3. st = <<>> /\ h = params
      OBVIOUS
  <2>4. before = Readable(heap, params) /\ D = Done(denylist, DOMAIN denylist)
      OBVIOUS
  <2> HIDE DEF st, h, before, D
  <2>5. /\ LeftOf(before, D, Readable(heap, h)) /\ (h = params <=> Readable(heap, h) = before)
        /\ (st = <<>> <=> Readable(heap, h) = before)
      BY <2>2, <2>3, <2>4 DEF LeftOf
  <2>6. StripIsExact(heap, params, denylist, GovState(heap, h, st, FALSE))
      BY <1>1, <1>5, <2>4, <2>5, NothingThrown
  <2> QED
      BY <2>1, <2>6 DEF r
<1>7. CASE denylist # <<>> /\ ~Copied(heap[params])
  <2> DEFINE st == <<>>
  <2>1. r = GovState(heap, params, st, TRUE)
      BY <1>7, <1>11 DEF GovernSo
  <2>2. Trapped(heap)
      BY <1>7 DEF Trapped
  <2> HIDE DEF st
  <2>3. StripIsExact(heap, params, denylist, GovState(heap, params, st, TRUE))
      BY <1>1, <1>5, <2>2, AsItWas
  <2> QED
      BY <2>1, <2>3 DEF r
<1>8. ASSUME denylist # <<>>, Copied(heap[params]), Failed(heap, g, s)
      PROVE  StripIsExact(heap, params, denylist, r)
  <2>1. PICK H, st : s = GovState(H, g, st, TRUE) /\ Kept(heap, g, H, st) /\ Trapped(heap)
      BY <1>8 DEF Failed
  <2> DEFINE er == TRUE
             n == Len(H) + 1
             object == heap[params]
             R == Append(H, object)
             none == <<>>
  <2>2. s = GovState(H, g, st, er) /\ er
      BY <2>1
  <2> HIDE DEF er
  <2>3. s.heap = H /\ s.error = er
    <3> DEFINE made == GovState(H, g, st, er)
    <3>1. made.heap = H /\ made.governed = g /\ made.stripped = st /\ made.error = er
        BY GovFields
    <3> HIDE DEF made
    <3>2. s = made
        BY <2>2 DEF made
    <3> QED
        BY <3>1, <3>2
  <2>4. r = Restored(s, Len(s.heap) + 1, Append(s.heap, heap[params]))
      BY <1>8, <1>11, <2>2, <2>3 DEF GovernSo
  <2>5. r = Restored(s, n, R)
      BY <2>3, <2>4
  <2>6. Typed(H) /\ object \in Seq(ObjectField)
    <3>1. Typed(H)
        BY <2>1 DEF Kept, Sound
    <3> QED
        BY <1>1, <3>1 DEF PayloadHeap, Tidy
  <2>7. n = Len(H) + 1 /\ R = Append(H, object)
      OBVIOUS
  <2>8. object = heap[params]
      OBVIOUS
  <2> HIDE DEF n, R, object
  <2>9. Longer(H, object, n, R)
      BY <2>6, <2>7, OneMore
  <2>10. r = GovState(R, n, none, er)
    <3>1. Restored(GovState(H, g, st, er), n, R) = GovState(R, n, <<>>, er)
        BY RestoredIs
    <3> QED
        BY <2>2, <2>5, <3>1
  <2>11. \A x \in DOMAIN heap : x \in DOMAIN R /\ R[x] = heap[x]
      BY <2>1, <2>9 DEF Kept, Longer
  <2>12. Typed(R) /\ n \in DOMAIN R /\ R[n] = heap[params]
      BY <2>8, <2>9 DEF Longer
  <2> HIDE DEF none
  <2>13. StripIsExact(heap, params, denylist, GovState(R, n, none, TRUE))
      BY <1>1, <2>1, <2>11, <2>12, AsItWas
  <2> QED
      BY <2>10, <2>13 DEF er
<1>9. ASSUME denylist # <<>>, Copied(heap[params]), Governed(heap, g, before, D, s)
      PROVE  StripIsExact(heap, params, denylist, r)
  <2>1. PICK H, st : /\ s = GovState(H, g, st, FALSE) /\ Kept(heap, g, H, st)
                     /\ Exact(before, D, H, g, st)
      BY <1>9 DEF Governed
  <2> DEFINE er == FALSE
             h == IF st = <<>> THEN params ELSE g
  <2>2. s = GovState(H, g, st, er) /\ ~er
      BY <2>1
  <2> HIDE DEF er
  <2>3. s.governed = g /\ s.error = er /\ s.stripped = st
      BY <2>2, GovFields
  <2>4. r = Settled(s, IF s.stripped = <<>> THEN params ELSE s.governed)
      BY <1>9, <1>11, <2>2, <2>3 DEF GovernSo
  <2>5. r = Settled(s, h)
      BY <2>3, <2>4
  <2>6. Typed(H) /\ \A x \in DOMAIN heap : x \in DOMAIN H /\ H[x] = heap[x]
      BY <2>1 DEF Kept, Sound
  <2>7. Readable(H, params) = before
    <3>1. params \in DOMAIN H /\ H[params] = heap[params]
        BY <2>6
    <3> QED
        BY <1>1, <2>6, <3>1, CopyReads
  <2>8. /\ LeftOf(before, D, Readable(H, h)) /\ (h = params <=> Readable(H, h) = before)
        /\ (st = <<>> <=> Readable(H, h) = before)
    <3>1. LeftOf(before, D, Readable(H, g)) /\ (st = <<>> <=> Readable(H, g) = before)
        BY <2>1 DEF Exact
    <3> HIDE DEF before, D, g
    <3>2. CASE st = <<>>
        BY <2>7, <3>1, <3>2
    <3>3. CASE st # <<>>
        BY <1>2, <3>1, <3>3
    <3> QED
        BY <3>2, <3>3
  <2>9. before = Readable(heap, params) /\ D = Done(denylist, DOMAIN denylist)
      OBVIOUS
  <2> HIDE DEF h, before, D
  <2>10. r = GovState(H, h, st, er)
      BY <2>2, <2>5, SettledIs
  <2>11. StripIsExact(heap, params, denylist, GovState(H, h, st, FALSE))
      BY <1>1, <2>6, <2>8, <2>9, NothingThrown
  <2> QED
      BY <2>10, <2>11 DEF er
<1>10. CASE denylist # <<>> /\ Copied(heap[params])
  <2> HIDE DEF before, D, g
  <2> QED
      BY <1>4, <1>8, <1>9, <1>10 DEF r
<1> QED
    BY <1>6, <1>7, <1>10 DEF r

-----------------------------------------------------------------------------
(* For every payload and denylist, nothing is lost on the way to a chamber *)
(* but what the denylist denies, and all of that is lost, in any spelling  *)
(* of its last name, except below an ancestor that is there in two         *)
(* spellings; nothing the page still holds is changed: governPayload       *)
(* (core/payload-governance.js), its shallow copy, its cut of a dotted     *)
(* path below clones of the ancestors, and its way out when a getter       *)
(* throws.                                                                 *)
THEOREM SinglySpelledNeverCrosses == MappersSpec => []StripsSinglySpelled
<1>1. MappersInit => StripsSinglySpelled
    BY DEF MappersInit, StripsSinglySpelled
<1>2. StripsSinglySpelled /\ [MappersNext]_mappersVars => StripsSinglySpelled'
  <2> SUFFICES ASSUME StripsSinglySpelled, [MappersNext]_mappersVars
               PROVE  StripsSinglySpelled'
      OBVIOUS
  <2>1. ASSUME NEW requests \in Batches, Coalesce(requests)
        PROVE  StripsSinglySpelled'
      BY <2>1 DEF Coalesce, StripsSinglySpelled
  <2>2. ASSUME NEW heap \in Heaps, NEW denylist \in Denylists, Govern(heap, denylist)
        PROVE  StripsSinglySpelled'
    <3>1. PayloadOK(heap) /\ DenylistOK(denylist)
        BY MappersAssumption
    <3>2. 1 \in DOMAIN heap
        BY <3>1 DEF PayloadOK
    <3> DEFINE first == 1
    <3>3. first \in DOMAIN heap
        BY <3>2
    <3> HIDE DEF first
    <3>4. StripIsExact(heap, first, denylist, governPayload(heap, first, denylist))
        BY <3>1, <3>3, GovernIsExact
    <3>5. call'.heap = heap /\ call'.denylist = denylist /\ out' = governPayload(heap, first, denylist)
        BY <2>2 DEF Govern, first
    <3>6. StripIsExact(call'.heap, 1, call'.denylist, out')
        BY <3>4, <3>5 DEF first
    <3> QED
        BY <3>6 DEF StripsSinglySpelled
  <2>3. ASSUME NEW entry, NEW event, NEW request, NEW k, NEW consentDefault, NEW now, NEW cookie,
               Release(entry, event, request, k, consentDefault, now, cookie)
        PROVE  StripsSinglySpelled'
      BY <2>3 DEF Release, StripsSinglySpelled
  <2>4. ASSUME NEW entry, NEW consent, NEW consentDefault, NEW page, NEW event,
               Serve(entry, consent, consentDefault, page, event)
        PROVE  StripsSinglySpelled'
      BY <2>4 DEF Serve, StripsSinglySpelled
  <2>5. CASE UNCHANGED mappersVars
      BY <2>5 DEF mappersVars, StripsSinglySpelled
  <2> QED
      BY <2>1, <2>2, <2>3, <2>4, <2>5 DEF MappersNext
<1> QED
    BY <1>1, <1>2, PTL DEF MappersSpec

-----------------------------------------------------------------------------
(* Sequences, from their last element on.                                  *)
LEMMA SameSeq ==
    ASSUME NEW S, NEW s \in Seq(S), NEW t \in Seq(S), Len(s) = Len(t),
           \A i \in 1..Len(s) : s[i] = t[i]
    PROVE  s = t
<1>1. s = [i \in 1..Len(s) |-> s[i]] /\ t = [i \in 1..Len(t) |-> t[i]]
    OBVIOUS
<1> QED
    BY <1>1

Ends(S, s, n) ==
    \E t, x : t \in Seq(S) /\ x \in S /\ Len(t) = n /\ s = Append(t, x)

LEMMA SeqIsAppend ==
    ASSUME NEW S, NEW s \in Seq(S), NEW n \in Nat, NEW m, m = n + 1, Len(s) = m
    PROVE  Ends(S, s, n)
<1> DEFINE t == [i \in 1..n |-> s[i]]
           x == s[n + 1]
<1>1. t \in Seq(S) /\ Len(t) = n /\ x \in S
    OBVIOUS
<1>2. \A i \in 1..n : t[i] = s[i]
    OBVIOUS
<1>3. x = s[n + 1]
    OBVIOUS
<1> HIDE DEF t, x
<1>4. Append(t, x) \in Seq(S) /\ Len(Append(t, x)) = n + 1
    BY <1>1
<1>5. \A i \in 1..(n + 1) : Append(t, x)[i] = s[i]
    BY <1>1, <1>2, <1>3
<1>6. s = Append(t, x)
    BY <1>4, <1>5, SameSeq
<1> QED
    BY <1>1, <1>6 DEF Ends

LEMMA SeqsAll ==
    ASSUME NEW S, NEW Q, <<>> \in Q, \A s \in Seq(S), x \in S : s \in Q => Append(s, x) \in Q
    PROVE  Seq(S) \subseteq Q
<1> DEFINE N == {n \in Nat : \A s \in Seq(S) : Len(s) = n => s \in Q}
<1>1. 0 \in N
  <2>1. ASSUME NEW s \in Seq(S), Len(s) = 0
        PROVE  s = <<>>
      BY <2>1
  <2> QED
      BY <2>1
<1>2. ASSUME NEW n \in Nat, n \in N
      PROVE  n + 1 \in N
  <2>1. ASSUME NEW s \in Seq(S), Len(s) = n + 1
        PROVE  s \in Q
    <3> DEFINE m == n + 1
    <3>1. m = n + 1 /\ Len(s) = m
        BY <2>1
    <3> HIDE DEF m
    <3>2. Ends(S, s, n)
        BY <3>1, SeqIsAppend
    <3>3. PICK t, x : t \in Seq(S) /\ x \in S /\ Len(t) = n /\ s = Append(t, x)
        BY <3>2 DEF Ends
    <3>4. t \in Q
        BY <1>2, <3>3
    <3> QED
        BY <3>3, <3>4
  <2> QED
      BY <2>1
<1>3. Nat \subseteq N
  <2> HIDE DEF N
  <2> QED
      BY <1>1, <1>2, NumbersAll
<1>4. ASSUME NEW s \in Seq(S)
      PROVE  s \in Q
  <2>1. Len(s) \in N
      BY <1>3
  <2> QED
      BY <2>1
<1> QED
    BY <1>4

Joined(s, t) == s \o t

LEMMA JoinEmpty ==
    ASSUME NEW S, NEW s \in Seq(S)
    PROVE  s \o <<>> = s /\ <<>> \o s = s
<1>1. s \o <<>> \in Seq(S) /\ <<>> \o s \in Seq(S)
    OBVIOUS
<1>2. Len(s \o <<>>) = Len(s) /\ Len(<<>> \o s) = Len(s)
    OBVIOUS
<1>3. \A i \in 1..Len(s) : (s \o <<>>)[i] = s[i] /\ (<<>> \o s)[i] = s[i]
    OBVIOUS
<1> QED
    BY <1>1, <1>2, <1>3, SameSeq

LEMMA JoinAppend ==
    ASSUME NEW S, NEW s \in Seq(S), NEW t \in Seq(S), NEW x \in S
    PROVE  s \o Append(t, x) = Append(s \o t, x)
<1> DEFINE a == s \o Append(t, x)
           b == Append(s \o t, x)
<1>1. a \in Seq(S) /\ b \in Seq(S) /\ Len(a) = Len(b) /\ Len(a) = Len(s) + Len(t) + 1
    OBVIOUS
<1>2. ASSUME NEW i \in 1..Len(a)
      PROVE  a[i] = b[i]
  <2>1. CASE i <= Len(s)
      BY <2>1
  <2>2. CASE i > Len(s) /\ i <= Len(s) + Len(t)
      BY <2>2
  <2>3. CASE i = Len(s) + Len(t) + 1
      BY <2>3
  <2> QED
      BY <1>1, <2>1, <2>2, <2>3
<1> HIDE DEF a, b
<1> QED
    BY <1>1, <1>2, SameSeq

LEMMA JoinTyped ==
    ASSUME NEW S, NEW s \in Seq(S), NEW t \in Seq(S)
    PROVE  s \o t \in Seq(S) /\ Len(s \o t) = Len(s) + Len(t)
OBVIOUS

LEMMA JoinAssociates ==
    ASSUME NEW S, NEW s \in Seq(S), NEW t \in Seq(S), NEW u \in Seq(S)
    PROVE  (s \o t) \o u = s \o (t \o u)
<1> DEFINE a == (s \o t) \o u
           b == s \o (t \o u)
<1>1. a \in Seq(S) /\ b \in Seq(S) /\ Len(a) = Len(b) /\ Len(a) = Len(s) + Len(t) + Len(u)
    OBVIOUS
<1>2. ASSUME NEW i \in 1..Len(a)
      PROVE  a[i] = b[i]
  <2>1. CASE i <= Len(s)
      BY <2>1
  <2>2. CASE i > Len(s) /\ i <= Len(s) + Len(t)
      BY <2>2
  <2>3. CASE i > Len(s) + Len(t)
      BY <1>1, <2>3
  <2> QED
      BY <1>1, <2>1, <2>2, <2>3
<1> HIDE DEF a, b
<1> QED
    BY <1>1, <1>2, SameSeq

LEMMA AppendTyped ==
    ASSUME NEW S, NEW s \in Seq(S), NEW x \in S
    PROVE  Append(s, x) \in Seq(S) /\ Len(Append(s, x)) = Len(s) + 1
OBVIOUS

LEMMA AppendAt ==
    ASSUME NEW S, NEW s \in Seq(S), NEW x \in S
    PROVE  /\ \A i \in 1..Len(s) : Append(s, x)[i] = s[i]
           /\ Append(s, x)[Len(s) + 1] = x
OBVIOUS

-----------------------------------------------------------------------------
(* Those of a sequence that are at the indices.                            *)
Took(I, k, kept, x) == IF k \in I THEN Append(kept, x) ELSE kept

AtBy(f, s, I) ==
    /\ f[0] = <<>>
    /\ \A k \in 1..Len(s) : f[k] = Took(I, k, f[k - 1], s[k])
    /\ At(s, I) = f[Len(s)]

LEMMA AtSteps ==
    ASSUME NEW s, Len(s) \in Nat, NEW I
    PROVE  \E f : AtBy(f, s, I)
<1> DEFINE items == [k \in 1..Len(s) |-> [chosen |-> k \in I, of |-> s[k]]]
           f == CHOOSE f : f = [k \in 0..Len(s) |-> IF k = 0 THEN <<>> ELSE Took(I, k, f[k - 1], s[k])]
<1>1. f = [k \in 0..Len(s) |-> IF k = 0 THEN <<>> ELSE Took(I, k, f[k - 1], s[k])]
  <2>1. PICK g : UpTo(g, "at", "any", <<>>, items, Len(s))
      BY UpToExists
  <2>2. ASSUME NEW k \in 1..Len(s)
        PROVE  Taken("at", "any", g[k - 1], items[k]) = Took(I, k, g[k - 1], s[k])
    <3> DEFINE item == items[k]
               prior == g[k - 1]
    <3>1. item.chosen = (k \in I) /\ item.of = s[k]
        OBVIOUS
    <3> HIDE DEF item, prior
    <3>2. Taken("at", "any", prior, item) = IF item.chosen THEN Append(prior, item.of) ELSE prior
        BY TakenIs
    <3>3. Taken("at", "any", prior, item) = Took(I, k, prior, s[k])
        BY <3>1, <3>2 DEF Took
    <3> QED
        BY <3>3 DEF item, prior
  <2> HIDE DEF items
  <2>3. g = [k \in 0..Len(s) |-> IF k = 0 THEN <<>> ELSE Took(I, k, g[k - 1], s[k])]
      BY <2>1, <2>2 DEF UpTo
  <2> QED
      BY <2>3
<1>2. At(s, I) = f[Len(s)]
    BY DEF At, Took
<1> HIDE DEF f
<1>3. AtBy(f, s, I)
    BY <1>1, <1>2 DEF AtBy
<1> QED
    BY <1>3

LEMMA AtEmpty ==
    ASSUME NEW I
    PROVE  At(<<>>, I) = <<>>
<1> DEFINE s == <<>>
<1>1. Len(s) = 0 /\ s = <<>>
    OBVIOUS
<1> HIDE DEF s
<1>2. PICK f : AtBy(f, s, I)
    BY <1>1, AtSteps
<1>3. At(s, I) = <<>>
    BY <1>1, <1>2 DEF AtBy
<1> QED
    BY <1>1, <1>3

Agree(s, t, n) == \A k \in 1..n : s[k] = t[k]

SameUpTo(I, J, n) == \A k \in 1..n : k \in I <=> k \in J

(* Only where it is within the sequence does an index matter.              *)
LEMMA SameAtPrefix ==
    ASSUME NEW s, Len(s) \in Nat, NEW t, Len(t) \in Nat, NEW I, NEW J, NEW n \in Nat,
           n <= Len(s), n <= Len(t), Agree(s, t, n), SameUpTo(I, J, n),
           NEW f, AtBy(f, s, I), NEW g, AtBy(g, t, J)
    PROVE  f[n] = g[n]
<1> DEFINE N == {k \in Nat : k <= n => f[k] = g[k]}
<1>1. 0 \in N
    BY DEF AtBy
<1>2. ASSUME NEW k \in Nat, k \in N
      PROVE  k + 1 \in N
  <2> SUFFICES ASSUME k + 1 <= n
               PROVE  f[k + 1] = g[k + 1]
      OBVIOUS
  <2> DEFINE m == k + 1
  <2>1. m \in 1..n /\ m \in 1..Len(s) /\ m \in 1..Len(t) /\ m - 1 = k
      OBVIOUS
  <2>2. f[k] = g[k]
      BY <1>2
  <2> HIDE DEF m
  <2>3. f[m] = Took(I, m, f[k], s[m])
      BY <2>1 DEF AtBy
  <2>4. g[m] = Took(J, m, g[k], t[m])
      BY <2>1 DEF AtBy
  <2>5. f[m] = g[m]
      BY <2>1, <2>2, <2>3, <2>4 DEF Took, Agree, SameUpTo
  <2> QED
      BY <2>5 DEF m
<1> HIDE DEF N
<1>3. n \in N
    BY <1>1, <1>2, NumbersAll
<1> QED
    BY <1>3 DEF N

LEMMA AtSame ==
    ASSUME NEW s, Len(s) \in Nat, NEW I, NEW J, \A k \in 1..Len(s) : k \in I <=> k \in J
    PROVE  At(s, I) = At(s, J)
<1>1. PICK f : AtBy(f, s, I)
    BY AtSteps
<1>2. PICK g : AtBy(g, s, J)
    BY AtSteps
<1> DEFINE n == Len(s)
<1>3. n \in Nat /\ n <= Len(s)
    OBVIOUS
<1>4. Agree(s, s, n) /\ SameUpTo(I, J, n)
    BY DEF Agree, SameUpTo
<1>5. n = Len(s)
    OBVIOUS
<1> HIDE DEF n
<1>6. f[n] = g[n]
    BY <1>1, <1>2, <1>3, <1>4, SameAtPrefix
<1> QED
    BY <1>1, <1>2, <1>5, <1>6 DEF AtBy

LEMMA AtAppend ==
    ASSUME NEW S, NEW s \in Seq(S), NEW x \in S, NEW I
    PROVE  At(Append(s, x), I)
             = IF Len(s) + 1 \in I THEN Append(At(s, I), x) ELSE At(s, I)
<1> DEFINE t == Append(s, x)
           n == Len(s)
           m == n + 1
<1>1. n \in Nat /\ Len(t) = m /\ m \in 1..m /\ m - 1 = n /\ t[m] = x
    BY AppendTyped, AppendAt
<1>2. Agree(s, t, n) /\ SameUpTo(I, I, n)
    BY AppendAt DEF Agree, SameUpTo
<1>3. n <= m /\ n = Len(s) /\ m \in Nat /\ m = Len(s) + 1
    OBVIOUS
<1> HIDE DEF t, n, m
<1>4. PICK f : AtBy(f, s, I)
    BY <1>1, <1>3, AtSteps
<1>5. PICK g : AtBy(g, t, I)
    BY <1>1, <1>3, AtSteps
<1>6. f[n] = g[n]
    BY <1>1, <1>2, <1>3, <1>4, <1>5, SameAtPrefix
<1>7. g[m] = Took(I, m, g[n], x)
    BY <1>1, <1>5 DEF AtBy
<1>8. At(s, I) = f[n] /\ At(t, I) = g[m]
    BY <1>1, <1>3, <1>4, <1>5 DEF AtBy
<1>9. At(t, I) = IF m \in I THEN Append(At(s, I), x) ELSE At(s, I)
    BY <1>6, <1>7, <1>8 DEF Took
<1> QED
    BY <1>3, <1>9 DEF t

LEMMA AtTyped ==
    ASSUME NEW S, NEW s \in Seq(S), NEW I
    PROVE  At(s, I) \in Seq(S)
<1> DEFINE Q == {t \in Seq(S) : At(t, I) \in Seq(S)}
<1>1. <<>> \in Q
  <2>1. At(<<>>, I) = <<>>
      BY AtEmpty
  <2>2. <<>> \in Seq(S)
      OBVIOUS
  <2> QED
      BY <2>1, <2>2
<1>2. ASSUME NEW t \in Seq(S), NEW x \in S, t \in Q
      PROVE  Append(t, x) \in Q
  <2> DEFINE a == At(t, I)
             u == Append(t, x)
  <2>1. a \in Seq(S)
      BY <1>2
  <2>2. At(u, I) = IF Len(t) + 1 \in I THEN Append(a, x) ELSE a
      BY AtAppend
  <2>3. u \in Seq(S)
      BY AppendTyped
  <2> HIDE DEF a, u
  <2>4. At(u, I) \in Seq(S)
      BY <2>1, <2>2, AppendTyped
  <2> QED
      BY <2>3, <2>4 DEF u
<1> HIDE DEF Q
<1>3. s \in Q
    BY <1>1, <1>2, SeqsAll
<1> QED
    BY <1>3 DEF Q

-----------------------------------------------------------------------------
(* Those of a sequence that are in a set.                                  *)
Sel(s, T) == At(s, {i \in DOMAIN s : s[i] \in T})

LEMMA SelEmpty ==
    ASSUME NEW T
    PROVE  Sel(<<>>, T) = <<>>
BY AtEmpty DEF Sel

LEMMA SelAppend ==
    ASSUME NEW S, NEW s \in Seq(S), NEW x \in S, NEW T
    PROVE  Sel(Append(s, x), T) = IF x \in T THEN Append(Sel(s, T), x) ELSE Sel(s, T)
<1> DEFINE u == Append(s, x)
           I == {i \in DOMAIN s : s[i] \in T}
           J == {i \in DOMAIN u : u[i] \in T}
           m == Len(s) + 1
<1>1. u \in Seq(S) /\ Len(u) = m /\ u[m] = x /\ \A i \in 1..Len(s) : u[i] = s[i]
    BY AppendTyped, AppendAt
<1>2. m = Len(s) + 1 /\ Len(s) \in Nat
    OBVIOUS
<1> HIDE DEF m
<1>3. m \in J <=> x \in T
    BY <1>1, <1>2
<1>4. \A k \in 1..Len(s) : k \in J <=> k \in I
    BY <1>1, <1>2
<1>5. At(u, J) = IF m \in J THEN Append(At(s, J), x) ELSE At(s, J)
  <2> HIDE DEF J
  <2> QED
      BY <1>2, AtAppend
<1>6. At(s, J) = At(s, I)
  <2> HIDE DEF I, J
  <2> QED
      BY <1>2, <1>4, AtSame
<1>7. Sel(u, T) = At(u, J) /\ Sel(s, T) = At(s, I)
    BY DEF Sel
<1> HIDE DEF u, I, J
<1>8. Sel(u, T) = IF x \in T THEN Append(Sel(s, T), x) ELSE Sel(s, T)
    BY <1>3, <1>5, <1>6, <1>7
<1> QED
    BY <1>8 DEF u

LEMMA SelTyped ==
    ASSUME NEW S, NEW s \in Seq(S), NEW T
    PROVE  Sel(s, T) \in Seq(S) /\ Sel(s, T) \in Seq(T)
<1> DEFINE Q == {t \in Seq(S) : Sel(t, T) \in Seq(S) /\ Sel(t, T) \in Seq(T)}
<1>1. <<>> \in Q
  <2>1. Sel(<<>>, T) = <<>>
      BY SelEmpty
  <2>2. <<>> \in Seq(S) /\ <<>> \in Seq(T)
      OBVIOUS
  <2> QED
      BY <2>1, <2>2
<1>2. ASSUME NEW t \in Seq(S), NEW x \in S, t \in Q
      PROVE  Append(t, x) \in Q
  <2> DEFINE a == Sel(t, T)
             u == Append(t, x)
  <2>1. a \in Seq(S) /\ a \in Seq(T)
      BY <1>2
  <2>2. Sel(u, T) = IF x \in T THEN Append(a, x) ELSE a
      BY SelAppend
  <2>3. u \in Seq(S)
      BY AppendTyped
  <2> HIDE DEF a, u
  <2>4. Sel(u, T) \in Seq(S)
      BY <2>1, <2>2, AppendTyped
  <2>5. Sel(u, T) \in Seq(T)
      BY <2>1, <2>2, AppendTyped
  <2> QED
      BY <2>3, <2>4, <2>5 DEF u
<1> HIDE DEF Q
<1>3. s \in Q
    BY <1>1, <1>2, SeqsAll
<1> QED
    BY <1>3 DEF Q

LEMMA SelJoin ==
    ASSUME NEW S, NEW s \in Seq(S), NEW r \in Seq(S), NEW T
    PROVE  Sel(Joined(s, r), T) = Joined(Sel(s, T), Sel(r, T))
<1> DEFINE Q == {t \in Seq(S) : Sel(s \o t, T) = Sel(s, T) \o Sel(t, T)}
           b == Sel(s, T)
<1>0. b \in Seq(S)
    BY SelTyped
<1>1. <<>> \in Q
  <2>1. s \o <<>> = s /\ b \o <<>> = b
      BY <1>0, JoinEmpty
  <2>2. Sel(<<>>, T) = <<>>
      BY SelEmpty
  <2>3. <<>> \in Seq(S)
      OBVIOUS
  <2> QED
      BY <2>1, <2>2, <2>3
<1>2. ASSUME NEW t \in Seq(S), NEW x \in S, t \in Q
      PROVE  Append(t, x) \in Q
  <2> DEFINE a == Sel(t, T)
             u == Append(t, x)
             both == s \o t
  <2>1. both \in Seq(S) /\ u \in Seq(S) /\ a \in Seq(S)
      BY JoinTyped, AppendTyped, SelTyped
  <2>2. Sel(u, T) = IF x \in T THEN Append(a, x) ELSE a
      BY SelAppend
  <2>3. s \o u = Append(both, x)
      BY JoinAppend
  <2>4. Sel(both, T) = b \o a
      BY <1>2
  <2> HIDE DEF both, b, a, u
  <2>5. Sel(Append(both, x), T) = IF x \in T THEN Append(Sel(both, T), x) ELSE Sel(both, T)
      BY <2>1, SelAppend
  <2>6. b \o Append(a, x) = Append(b \o a, x)
      BY <1>0, <2>1, JoinAppend
  <2>7. Sel(s \o u, T) = b \o Sel(u, T)
      BY <2>2, <2>3, <2>4, <2>5, <2>6
  <2> QED
      BY <2>1, <2>7 DEF u, b
<1> HIDE DEF Q
<1>3. r \in Q
    BY <1>1, <1>2, SeqsAll
<1>4. Sel(s \o r, T) = Sel(s, T) \o Sel(r, T)
    BY <1>3 DEF Q
<1> QED
    BY <1>4 DEF Joined

LEMMA SelAll ==
    ASSUME NEW T, NEW s \in Seq(T)
    PROVE  Sel(s, T) = s
<1> DEFINE Q == {t \in Seq(T) : Sel(t, T) = t}
<1>1. <<>> \in Q
    BY SelEmpty
<1>2. ASSUME NEW t \in Seq(T), NEW x \in T, t \in Q
      PROVE  Append(t, x) \in Q
  <2>1. Sel(t, T) = t
      BY <1>2
  <2>2. Sel(Append(t, x), T) = IF x \in T THEN Append(Sel(t, T), x) ELSE Sel(t, T)
      BY SelAppend
  <2>3. Append(t, x) \in Seq(T)
      BY AppendTyped
  <2> QED
      BY <2>1, <2>2, <2>3
<1> HIDE DEF Q
<1>3. s \in Q
    BY <1>1, <1>2, SeqsAll
<1> QED
    BY <1>3 DEF Q

LEMMA SelNone ==
    ASSUME NEW S, NEW s \in Seq(S), NEW T, S \cap T = {}
    PROVE  Sel(s, T) = <<>>
<1> DEFINE Q == {t \in Seq(S) : Sel(t, T) = <<>>}
<1>1. <<>> \in Q
    BY SelEmpty
<1>2. ASSUME NEW t \in Seq(S), NEW x \in S, t \in Q
      PROVE  Append(t, x) \in Q
  <2>1. Sel(t, T) = <<>>
      BY <1>2
  <2>2. Sel(Append(t, x), T) = IF x \in T THEN Append(Sel(t, T), x) ELSE Sel(t, T)
      BY SelAppend
  <2>3. Append(t, x) \in Seq(S) /\ x \notin T
      BY AppendTyped
  <2> QED
      BY <2>1, <2>2, <2>3
<1> HIDE DEF Q
<1>3. s \in Q
    BY <1>1, <1>2, SeqsAll
<1> QED
    BY <1>3 DEF Q

(* A selection within a selection.                                         *)
LEMMA SelOfAt ==
    ASSUME NEW S, NEW s \in Seq(S), NEW I, NEW T, S \subseteq T
    PROVE  Sel(At(s, I), T) = At(s, I)
<1>1. At(s, I) \in Seq(T)
  <2>1. s \in Seq(T)
      OBVIOUS
  <2> QED
      BY <2>1, AtTyped
<1> DEFINE a == At(s, I)
<1> HIDE DEF a
<1>2. a \in Seq(T)
    BY <1>1 DEF a
<1>3. Sel(a, T) = a
    BY <1>2, SelAll
<1> QED
    BY <1>3 DEF a

LEMMA SelWhole ==
    ASSUME NEW S, NEW s \in Seq(S)
    PROVE  At(s, DOMAIN s) = s
<1>1. Sel(s, S) = s
    BY SelAll
<1>2. \A i \in 1..Len(s) : s[i] \in S
    OBVIOUS
<1>3. \A i \in 1..Len(s) : i \in DOMAIN s <=> i \in {j \in DOMAIN s : s[j] \in S}
    BY <1>2
<1> DEFINE I == DOMAIN s
           J == {j \in DOMAIN s : s[j] \in S}
<1>4. Len(s) \in Nat /\ Sel(s, S) = At(s, J)
    BY DEF Sel
<1> HIDE DEF I, J
<1>5. \A i \in 1..Len(s) : i \in I <=> i \in J
    BY <1>3 DEF I, J
<1>6. At(s, I) = At(s, J)
    BY <1>4, <1>5, AtSame
<1> QED
    BY <1>1, <1>4, <1>6 DEF I

-----------------------------------------------------------------------------
(* How often something is in a sequence.                                   *)
LEMMA TimesIs ==
    ASSUME NEW s, NEW p
    PROVE  Times(s, p) = Len(Sel(s, {p}))
<1>1. {i \in DOMAIN s : s[i] \in {p}} = {i \in DOMAIN s : s[i] = p}
    OBVIOUS
<1> QED
    BY <1>1 DEF Times, Sel

LEMMA TimesTyped ==
    ASSUME NEW S, NEW s \in Seq(S), NEW p
    PROVE  Times(s, p) \in Nat
<1> DEFINE a == Sel(s, {p})
<1>1. a \in Seq(S) /\ Times(s, p) = Len(a)
    BY SelTyped, TimesIs
<1> HIDE DEF a
<1> QED
    BY <1>1

LEMMA TimesNone ==
    ASSUME NEW p
    PROVE  Times(<<>>, p) = 0
<1> DEFINE T == {p}
<1>1. Times(<<>>, p) = Len(Sel(<<>>, T))
    BY TimesIs
<1> HIDE DEF T
<1>2. Sel(<<>>, T) = <<>>
    BY SelEmpty
<1> QED
    BY <1>1, <1>2

LEMMA TimesAppend ==
    ASSUME NEW S, NEW s \in Seq(S), NEW x \in S, NEW p
    PROVE  Times(Append(s, x), p) = Times(s, p) + (IF x = p THEN 1 ELSE 0)
<1> DEFINE T == {p}
           u == Append(s, x)
           a == Sel(s, T)
           b == Sel(u, T)
<1>1. b = IF x \in T THEN Append(a, x) ELSE a
    BY SelAppend
<1>2. a \in Seq(S)
    BY SelTyped
<1>3. Times(s, p) = Len(a) /\ Times(u, p) = Len(b)
    BY TimesIs
<1>4. x \in T <=> x = p
    OBVIOUS
<1> HIDE DEF u, a, b, T
<1>5. CASE x = p
  <2>1. b = Append(a, x)
      BY <1>1, <1>4, <1>5
  <2>2. Len(b) = Len(a) + 1
      BY <1>2, <2>1, AppendTyped
  <2>3. Times(u, p) = Times(s, p) + 1
      BY <1>3, <2>2
  <2> QED
      BY <1>5, <2>3 DEF u
<1>6. CASE x # p
  <2>1. b = a
      BY <1>1, <1>4, <1>6
  <2>2. Times(s, p) \in Nat
      BY TimesTyped
  <2>3. Times(u, p) = Times(s, p) + 0
      BY <1>3, <2>1, <2>2
  <2> QED
      BY <1>6, <2>3 DEF u
<1> QED
    BY <1>5, <1>6

LEMMA TimesJoin ==
    ASSUME NEW S, NEW s \in Seq(S), NEW t \in Seq(S), NEW p
    PROVE  Times(s \o t, p) = Times(s, p) + Times(t, p)
<1> DEFINE T == {p}
           a == Sel(s, T)
           b == Sel(t, T)
           both == Joined(s, t)
           c == Sel(both, T)
<1>1. c = Joined(a, b)
    BY SelJoin
<1>2. a \in Seq(S) /\ b \in Seq(S)
    BY SelTyped
<1>3. Times(s, p) = Len(a) /\ Times(t, p) = Len(b) /\ Times(both, p) = Len(c)
    BY TimesIs
<1> HIDE DEF a, b, c, T, both
<1>4. Len(c) = Len(a) + Len(b)
    BY <1>1, <1>2, JoinTyped DEF Joined
<1>5. Times(both, p) = Times(s, p) + Times(t, p)
    BY <1>3, <1>4
<1> QED
    BY <1>5 DEF both, Joined

LEMMA MembersAppend ==
    ASSUME NEW S, NEW s \in Seq(S), NEW x \in S
    PROVE  ToSet(Append(s, x)) = ToSet(s) \cup {x}
<1> DEFINE u == Append(s, x)
<1>1. u \in Seq(S) /\ Len(u) = Len(s) + 1 /\ u[Len(s) + 1] = x /\ \A i \in 1..Len(s) : u[i] = s[i]
    BY AppendTyped, AppendAt
<1>2. DOMAIN u = 1..Len(u) /\ DOMAIN s = 1..Len(s) /\ Len(s) \in Nat
    BY <1>1
<1> HIDE DEF u
<1>3. \A y : y \in ToSet(u) <=> \E i \in 1..Len(u) : y = u[i]
    BY <1>2 DEF ToSet
<1>4. \A y : y \in ToSet(s) <=> \E i \in 1..Len(s) : y = s[i]
    BY <1>2 DEF ToSet
<1>5. ASSUME NEW y \in ToSet(u)
      PROVE  y \in ToSet(s) \/ y = x
    BY <1>1, <1>2, <1>3, <1>4
<1>6. ASSUME NEW y \in ToSet(s)
      PROVE  y \in ToSet(u)
    BY <1>1, <1>2, <1>3, <1>4
<1>7. x \in ToSet(u)
    BY <1>1, <1>2, <1>3
<1>8. ToSet(u) = ToSet(s) \cup {x}
    BY <1>5, <1>6, <1>7
<1> QED
    BY <1>8 DEF u

LEMMA TimesMember ==
    ASSUME NEW S, NEW s \in Seq(S), NEW p
    PROVE  p \in ToSet(s) <=> Times(s, p) # 0
<1> DEFINE Q == {t \in Seq(S) : p \in ToSet(t) <=> Times(t, p) # 0}
<1>1. <<>> \in Q
  <2>1. Times(<<>>, p) = 0
      BY TimesNone
  <2>2. p \notin ToSet(<<>>)
      BY DEF ToSet
  <2> QED
      BY <2>1, <2>2
<1>2. ASSUME NEW t \in Seq(S), NEW x \in S, t \in Q
      PROVE  Append(t, x) \in Q
  <2> DEFINE u == Append(t, x)
  <2>1. Times(u, p) = Times(t, p) + (IF x = p THEN 1 ELSE 0)
      BY TimesAppend
  <2>2. ToSet(u) = ToSet(t) \cup {x}
      BY MembersAppend
  <2>3. u \in Seq(S)
      BY AppendTyped
  <2>4. Times(t, p) \in Nat
      BY TimesTyped
  <2>5. p \in ToSet(t) <=> Times(t, p) # 0
      BY <1>2
  <2> HIDE DEF u
  <2>6. p \in ToSet(u) <=> Times(u, p) # 0
    <3>1. CASE x = p
        BY <2>1, <2>2, <2>4, <3>1
    <3>2. CASE x # p
        BY <2>1, <2>2, <2>4, <2>5, <3>2
    <3> QED
        BY <3>1, <3>2
  <2> QED
      BY <2>3, <2>6 DEF u
<1> HIDE DEF Q
<1>3. s \in Q
    BY <1>1, <1>2, SeqsAll
<1> QED
    BY <1>3 DEF Q

LEMMA CountedSame ==
    ASSUME NEW S, NEW s \in Seq(S), NEW t \in Seq(S), \A p : Times(s, p) = Times(t, p)
    PROVE  Counted(s) = Counted(t)
<1>1. ASSUME NEW p
      PROVE  p \in ToSet(s) <=> p \in ToSet(t)
    BY TimesMember
<1>2. ToSet(s) = ToSet(t)
    BY <1>1
<1> QED
    BY <1>2 DEF Counted

LEMMA TimesParts ==
    ASSUME NEW S, NEW s \in Seq(S), NEW I, NEW J, I \cap J = {}, NEW p
    PROVE  Times(At(s, I \cup J), p) = Times(At(s, I), p) + Times(At(s, J), p)
<1> DEFINE K == I \cup J
<1>0. \A m : (m \in K <=> m \in I \/ m \in J) /\ ~(m \in I /\ m \in J)
    OBVIOUS
<1> HIDE DEF K
<1> DEFINE Q == {t \in Seq(S) : Times(At(t, K), p) = Times(At(t, I), p) + Times(At(t, J), p)}
<1>1. <<>> \in Q
  <2>1. \A L : At(<<>>, L) = <<>>
      BY AtEmpty
  <2>2. Times(<<>>, p) = 0
      BY TimesNone
  <2> QED
      BY <2>1, <2>2
<1>2. ASSUME NEW t \in Seq(S), NEW x \in S, t \in Q
      PROVE  Append(t, x) \in Q
  <2> DEFINE u == Append(t, x)
             m == Len(t) + 1
             one == IF x = p THEN 1 ELSE 0
  <2>1. u \in Seq(S)
      BY AppendTyped
  <2>2. ASSUME NEW L
        PROVE  /\ Times(At(u, L), p) = IF m \in L THEN Times(At(t, L), p) + one
                                                  ELSE Times(At(t, L), p)
               /\ Times(At(t, L), p) \in Nat
    <3> DEFINE a == At(t, L)
    <3>1. At(u, L) = IF m \in L THEN Append(a, x) ELSE a
        BY AtAppend
    <3>2. a \in Seq(S)
        BY AtTyped
    <3> HIDE DEF a, u, m
    <3>3. Times(a, p) \in Nat /\ Times(Append(a, x), p) = Times(a, p) + one
        BY <3>2, TimesTyped, TimesAppend
    <3>4. /\ Times(At(u, L), p) = IF m \in L THEN Times(a, p) + one ELSE Times(a, p)
          /\ Times(a, p) \in Nat
        BY <3>1, <3>3
    <3> QED
        BY <3>4 DEF a
  <2>3. Times(At(t, K), p) = Times(At(t, I), p) + Times(At(t, J), p)
      BY <1>2
  <2>4. one \in Nat
      OBVIOUS
  <2> HIDE DEF u, m, one
  <2>5. Times(At(u, K), p) = Times(At(u, I), p) + Times(At(u, J), p)
    <3>1. CASE m \in I
      <4>1. m \in K /\ m \notin J
          BY <1>0, <3>1
      <4> QED
          BY <2>2, <2>3, <2>4, <3>1, <4>1
    <3>2. CASE m \in J
      <4>1. m \in K /\ m \notin I
          BY <1>0, <3>2
      <4> QED
          BY <2>2, <2>3, <2>4, <3>2, <4>1
    <3>3. CASE m \notin I /\ m \notin J
      <4>1. m \notin K
          BY <1>0, <3>3
      <4> QED
          BY <2>2, <2>3, <2>4, <3>3, <4>1
    <3> QED
        BY <3>1, <3>2, <3>3
  <2> QED
      BY <2>1, <2>5 DEF u
<1> HIDE DEF Q
<1>3. s \in Q
    BY <1>1, <1>2, SeqsAll
<1> QED
    BY <1>3 DEF Q, K

-----------------------------------------------------------------------------
(* An event and its line.                                                  *)
LineParam == QueryParam \cup {EngagedEvent}

OwnParam == {q \in LineParam : q.key \in PerEventKeys}

SharedParam == {q \in LineParam : q.key \notin PerEventKeys}

LEMMA ClassIs ==
    ASSUME NEW pairs \in Seq(LineParam)
    PROVE  /\ OfClass(pairs, "per-event") = Sel(pairs, OwnParam)
           /\ OfClass(pairs, "shared") = Sel(pairs, SharedParam)
<1>1. \A i \in DOMAIN pairs : pairs[i] \in LineParam
    OBVIOUS
<1>2. \A i \in DOMAIN pairs : /\ classifyKey(pairs[i].key) = "per-event" <=> pairs[i] \in OwnParam
                              /\ classifyKey(pairs[i].key) = "shared" <=> pairs[i] \in SharedParam
    BY <1>1 DEF classifyKey, OwnParam, SharedParam
<1>3. /\ {i \in DOMAIN pairs : classifyKey(pairs[i].key) = "per-event"}
           = {i \in DOMAIN pairs : pairs[i] \in OwnParam}
      /\ {i \in DOMAIN pairs : classifyKey(pairs[i].key) = "shared"}
           = {i \in DOMAIN pairs : pairs[i] \in SharedParam}
    BY <1>2
<1> QED
    BY <1>3 DEF OfClass, Sel

LEMMA SelOne ==
    ASSUME NEW x, NEW T
    PROVE  Sel(<<x>>, T) = IF x \in T THEN <<x>> ELSE <<>>
<1> DEFINE S == {x}
           none == <<>>
<1>1. none \in Seq(S) /\ x \in S /\ Append(none, x) = <<x>>
    OBVIOUS
<1>2. Sel(none, T) = none
    BY SelEmpty
<1>3. none = <<>>
    OBVIOUS
<1> HIDE DEF S, none
<1>4. Sel(Append(none, x), T) = IF x \in T THEN Append(Sel(none, T), x) ELSE Sel(none, T)
    BY <1>1, SelAppend
<1> QED
    BY <1>1, <1>2, <1>3, <1>4

(* Its four parts.                                                         *)
LineOf(a, e, b, c) == a \o e \o b \o c

LEMMA LineOfSel ==
    ASSUME NEW S, NEW a \in Seq(S), NEW e \in Seq(S), NEW b \in Seq(S), NEW c \in Seq(S), NEW T
    PROVE  /\ LineOf(a, e, b, c) \in Seq(S)
           /\ Sel(LineOf(a, e, b, c), T) = LineOf(Sel(a, T), Sel(e, T), Sel(b, T), Sel(c, T))
<1> DEFINE ae == Joined(a, e)
           aeb == Joined(ae, b)
           all == Joined(aeb, c)
<1>1. ae \in Seq(S)
    BY JoinTyped DEF Joined
<1>2. Sel(ae, T) = Joined(Sel(a, T), Sel(e, T))
    BY SelJoin
<1> HIDE DEF ae
<1>3. aeb \in Seq(S)
    BY <1>1, JoinTyped DEF Joined
<1>4. Sel(aeb, T) = Joined(Sel(ae, T), Sel(b, T))
    BY <1>1, SelJoin
<1> HIDE DEF aeb
<1>5. all \in Seq(S)
    BY <1>3, JoinTyped DEF Joined
<1>6. Sel(all, T) = Joined(Sel(aeb, T), Sel(c, T))
    BY <1>3, SelJoin
<1>7. LineOf(a, e, b, c) = all
    BY DEF LineOf, ae, aeb, Joined
<1> HIDE DEF all
<1> QED
    BY <1>2, <1>4, <1>5, <1>6, <1>7 DEF LineOf, Joined

LEMMA LineOfTimes ==
    ASSUME NEW S, NEW a \in Seq(S), NEW e \in Seq(S), NEW b \in Seq(S), NEW c \in Seq(S), NEW p
    PROVE  Times(LineOf(a, e, b, c), p) = Times(a, p) + Times(e, p) + Times(b, p) + Times(c, p)
<1> DEFINE ae == a \o e
           aeb == ae \o b
           all == aeb \o c
<1>1. ae \in Seq(S) /\ Times(ae, p) = Times(a, p) + Times(e, p)
    BY JoinTyped, TimesJoin
<1> HIDE DEF ae
<1>2. aeb \in Seq(S) /\ Times(aeb, p) = Times(ae, p) + Times(b, p)
    BY <1>1, JoinTyped, TimesJoin
<1> HIDE DEF aeb
<1>3. Times(all, p) = Times(aeb, p) + Times(c, p)
    BY <1>2, TimesJoin
<1>4. LineOf(a, e, b, c) = all
    BY DEF LineOf, ae, aeb
<1> HIDE DEF all
<1> QED
    BY <1>1, <1>2, <1>3, <1>4

BodyOf(pairs) ==
    LET en == FirstOf(pairs, "en")
        et == FirstOf(pairs, "_et") IN
      LineOf(At(pairs, en), <<>>, At(pairs, DOMAIN pairs \ (en \cup et)), At(pairs, et))

(* The line is the event's parameters, and the marker among them.          *)
LEMMA LineIs ==
    ASSUME NEW pairs \in Seq(OwnParam)
    PROVE  /\ buildBodyLine(pairs) \in Seq(LineParam)
           /\ Sel(buildBodyLine(pairs), OwnParam) = BodyOf(pairs)
           /\ Times(buildBodyLine(pairs), EngagedEvent) = 1
           /\ buildBodyLine(pairs) # <<>>
<1> DEFINE en == FirstOf(pairs, "en")
           et == FirstOf(pairs, "_et")
           rest == DOMAIN pairs \ (en \cup et)
           a == At(pairs, en)
           b == At(pairs, rest)
           c == At(pairs, et)
           e == <<EngagedEvent>>
           line == LineOf(a, e, b, c)
<1>1. buildBodyLine(pairs) = line /\ BodyOf(pairs) = LineOf(a, <<>>, b, c)
    BY DEF buildBodyLine, BodyOf, LineOf
<1>2. OwnParam \subseteq LineParam /\ EngagedEvent \in LineParam /\ EngagedEvent \notin OwnParam
  <2>1. OwnParam \subseteq LineParam
      BY DEF OwnParam
  <2>2. EngagedEvent \in LineParam
      BY DEF LineParam
  <2>3. EngagedEvent.key \notin PerEventKeys
      BY CoalesceAssumption DEF EngagedEvent
  <2>4. EngagedEvent \notin OwnParam
      BY <2>3 DEF OwnParam
  <2> QED
      BY <2>1, <2>2, <2>4
<1>3. \A I : At(pairs, I) \in Seq(OwnParam)
    BY AtTyped
<1> DEFINE T == {EngagedEvent}
<1>4. ASSUME NEW I
      PROVE  /\ At(pairs, I) \in Seq(LineParam)
             /\ Sel(At(pairs, I), OwnParam) = At(pairs, I)
             /\ Sel(At(pairs, I), T) = <<>>
  <2> DEFINE d == At(pairs, I)
  <2>1. d \in Seq(OwnParam)
      BY <1>3
  <2>2. OwnParam \cap T = {}
      BY <1>2
  <2> HIDE DEF d, T
  <2>3. d \in Seq(LineParam)
      BY <1>2, <2>1
  <2>4. Sel(d, OwnParam) = d /\ Sel(d, T) = <<>>
      BY <2>1, <2>2, SelAll, SelNone
  <2> QED
      BY <2>3, <2>4 DEF d
<1>5. e \in Seq(LineParam)
    BY <1>2
<1>6. Sel(e, OwnParam) = <<>> /\ Sel(e, T) = e /\ Len(e) = 1
    BY <1>2, SelOne
<1>7. a \in Seq(LineParam) /\ b \in Seq(LineParam) /\ c \in Seq(LineParam)
    BY <1>4
<1>8. Sel(a, OwnParam) = a /\ Sel(b, OwnParam) = b /\ Sel(c, OwnParam) = c
    BY <1>4
<1>9. Times(a, EngagedEvent) = 0 /\ Times(b, EngagedEvent) = 0 /\ Times(c, EngagedEvent) = 0
  <2>1. Sel(a, T) = <<>> /\ Sel(b, T) = <<>> /\ Sel(c, T) = <<>>
      BY <1>4
  <2> HIDE DEF a, b, c
  <2> QED
      BY <2>1, TimesIs
<1>10. Times(e, EngagedEvent) = 1
  <2> HIDE DEF e
  <2> QED
      BY <1>6, TimesIs
<1> HIDE DEF a, b, c, e, line
<1>11. line \in Seq(LineParam) /\ Sel(line, OwnParam) = LineOf(a, <<>>, b, c)
    BY <1>5, <1>6, <1>7, <1>8, LineOfSel DEF line
<1>12. Times(line, EngagedEvent) = 1
  <2>1. Times(line, EngagedEvent) = Times(a, EngagedEvent) + Times(e, EngagedEvent)
                                      + Times(b, EngagedEvent) + Times(c, EngagedEvent)
      BY <1>5, <1>7, LineOfTimes DEF line
  <2> QED
      BY <1>9, <1>10, <2>1
<1>13. line # <<>>
  <2>1. Times(<<>>, EngagedEvent) = 0
      BY TimesNone
  <2> QED
      BY <1>12, <2>1
<1> QED
    BY <1>1, <1>11, <1>12, <1>13

LEMMA FirstsApart ==
    ASSUME NEW pairs
    PROVE  FirstOf(pairs, "en") \cap FirstOf(pairs, "_et") = {}
BY DEF FirstOf

LEMMA BodyTimes ==
    ASSUME NEW S, NEW pairs \in Seq(S), NEW p
    PROVE  BodyOf(pairs) \in Seq(S) /\ Times(BodyOf(pairs), p) = Times(pairs, p)
<1> DEFINE en == FirstOf(pairs, "en")
           et == FirstOf(pairs, "_et")
           rest == DOMAIN pairs \ (en \cup et)
           both == en \cup rest
           a == At(pairs, en)
           b == At(pairs, rest)
           c == At(pairs, et)
           none == <<>>
<1>1. en \subseteq DOMAIN pairs /\ et \subseteq DOMAIN pairs
    BY DEF FirstOf
<1>2. en \cap et = {}
    BY FirstsApart
<1> HIDE DEF en, et
<1>3. en \cap rest = {} /\ both \cap et = {} /\ both \cup et = DOMAIN pairs
    BY <1>1, <1>2
<1>4. a \in Seq(S) /\ b \in Seq(S) /\ c \in Seq(S) /\ none \in Seq(S)
    BY AtTyped
<1>5. Times(none, p) = 0
    BY TimesNone
<1>6. BodyOf(pairs) = LineOf(a, none, b, c)
    BY DEF BodyOf, en, et
<1>7. both = en \cup rest
    OBVIOUS
<1> HIDE DEF rest, both
<1>8. Times(At(pairs, en \cup rest), p) = Times(a, p) + Times(b, p)
    BY <1>3, TimesParts
<1>9. Times(At(pairs, both \cup et), p) = Times(At(pairs, both), p) + Times(c, p)
    BY <1>3, TimesParts
<1>10. At(pairs, DOMAIN pairs) = pairs
    BY SelWhole
<1> DEFINE aa == a
<1> HIDE DEF a, b, c, none
<1>11. Times(LineOf(a, none, b, c), p) = Times(a, p) + Times(none, p) + Times(b, p) + Times(c, p)
    BY <1>4, LineOfTimes
<1>12. LineOf(a, none, b, c) \in Seq(S)
    BY <1>4, LineOfSel
<1>13. Times(a, p) \in Nat /\ Times(b, p) \in Nat /\ Times(c, p) \in Nat
    BY <1>4, TimesTyped
<1> QED
    BY <1>3, <1>5, <1>6, <1>7, <1>8, <1>9, <1>10, <1>11, <1>12, <1>13

(* A request's line says what the request says, and a post's query has the *)
(* signature of the request.                                               *)
LEMMA LineSays ==
    ASSUME NEW request \in Seq(LineParam), NEW own, own = OfClass(request, "per-event")
    PROVE  /\ buildBodyLine(own) \in Seq(LineParam)
           /\ buildBodyLine(own) # <<>>
           /\ Content(buildBodyLine(own)) = Content(request)
           /\ Times(buildBodyLine(own), EngagedEvent) = 1
<1> DEFINE line == buildBodyLine(own)
           body == BodyOf(own)
<1>1. own \in Seq(OwnParam)
    BY ClassIs, SelTyped
<1>2. line \in Seq(LineParam) /\ Sel(line, OwnParam) = body /\ line # <<>>
        /\ Times(line, EngagedEvent) = 1
    BY <1>1, LineIs
<1>3. body \in Seq(OwnParam) /\ \A p : Times(body, p) = Times(own, p)
    BY <1>1, BodyTimes
<1> HIDE DEF line, body
<1>4. OfClass(line, "per-event") = body
    BY <1>2, ClassIs
<1>5. Counted(body) = Counted(own)
    BY <1>1, <1>3, CountedSame
<1>6. Content(line) = Content(request)
    BY <1>4, <1>5 DEF Content
<1> QED
    BY <1>2, <1>6 DEF line

LEMMA SharedSays ==
    ASSUME NEW request \in Seq(LineParam), NEW shared, shared = OfClass(request, "shared")
    PROVE  shared \in Seq(LineParam) /\ sharedSignature(shared) = sharedSignature(request)
<1>1. shared \in Seq(SharedParam) /\ shared \in Seq(LineParam)
    BY ClassIs, SelTyped
<1>2. OfClass(shared, "shared") = Sel(shared, SharedParam)
    BY <1>1, ClassIs
<1>3. Sel(shared, SharedParam) = shared
    BY <1>1, SelAll
<1> QED
    BY <1>1, <1>2, <1>3 DEF sharedSignature

-----------------------------------------------------------------------------
(* Sums.                                                                   *)
TotalBy(f, s) ==
    /\ f[0] = 0
    /\ \A k \in 1..Len(s) : f[k] = f[k - 1] + s[k]
    /\ Total(s) = f[Len(s)]

LEMMA TotalSteps ==
    ASSUME NEW s, Len(s) \in Nat
    PROVE  \E f : TotalBy(f, s)
<1> DEFINE f == CHOOSE f : f = [k \in 0..Len(s) |-> IF k = 0 THEN 0 ELSE f[k - 1] + s[k]]
<1>1. f = [k \in 0..Len(s) |-> IF k = 0 THEN 0 ELSE f[k - 1] + s[k]]
  <2>1. PICK g : UpTo(g, "total", "any", 0, s, Len(s))
      BY UpToExists
  <2>2. \A k : Taken("total", "any", g[k - 1], s[k]) = g[k - 1] + s[k]
      BY TakenIs
  <2>3. g = [k \in 0..Len(s) |-> IF k = 0 THEN 0 ELSE g[k - 1] + s[k]]
      BY <2>1, <2>2 DEF UpTo
  <2> QED
      BY <2>3
<1>2. Total(s) = f[Len(s)]
    BY DEF Total
<1> HIDE DEF f
<1>3. TotalBy(f, s)
    BY <1>1, <1>2 DEF TotalBy
<1> QED
    BY <1>3

LEMMA TotalEmpty ==
    ASSUME NEW s, Len(s) = 0
    PROVE  Total(s) = 0
<1>1. PICK f : TotalBy(f, s)
    BY TotalSteps
<1> QED
    BY <1>1 DEF TotalBy

LEMMA TotalAppend ==
    ASSUME NEW s \in Seq(Nat), NEW x \in Nat
    PROVE  Total(Append(s, x)) = Total(s) + x /\ Total(s) \in Nat
<1> DEFINE t == Append(s, x)
           n == Len(s)
           m == n + 1
<1>1. n \in Nat /\ Len(t) = m /\ m \in 1..m /\ m - 1 = n /\ t[m] = x /\ m \in Nat
        /\ Len(s) = n /\ \A k \in 1..n : t[k] = s[k] /\ s[k] \in Nat /\ k \in 1..m
    BY AppendTyped, AppendAt
<1> HIDE DEF t, n, m
<1>2. PICK f : TotalBy(f, s)
    BY <1>1, TotalSteps
<1>3. PICK g : TotalBy(g, t)
    BY <1>1, TotalSteps
<1> DEFINE N == {k \in Nat : k <= n => f[k] = g[k] /\ f[k] \in Nat}
<1>4. 0 \in N
    BY <1>2, <1>3 DEF TotalBy
<1>5. ASSUME NEW k \in Nat, k \in N
      PROVE  k + 1 \in N
  <2> SUFFICES ASSUME k + 1 <= n
               PROVE  f[k + 1] = g[k + 1] /\ f[k + 1] \in Nat
      OBVIOUS
  <2> DEFINE j == k + 1
  <2>1. j \in 1..n /\ j - 1 = k
      BY <1>1
  <2>2. f[k] = g[k] /\ f[k] \in Nat
      BY <1>1, <1>5
  <2> HIDE DEF j
  <2>3. f[j] = f[k] + s[j] /\ g[j] = g[k] + t[j]
      BY <1>1, <1>2, <1>3, <2>1 DEF TotalBy
  <2>4. t[j] = s[j] /\ s[j] \in Nat
      BY <1>1, <2>1
  <2>5. f[j] = g[j] /\ f[j] \in Nat
      BY <2>2, <2>3, <2>4
  <2> QED
      BY <2>5 DEF j
<1> HIDE DEF N
<1>6. n \in N
    BY <1>1, <1>4, <1>5, NumbersAll
<1>7. f[n] = g[n] /\ f[n] \in Nat
    BY <1>1, <1>6 DEF N
<1>8. Total(s) = f[n] /\ Total(t) = g[n] + x
    BY <1>1, <1>2, <1>3 DEF TotalBy
<1>9. Total(t) = Total(s) + x /\ Total(s) \in Nat
    BY <1>7, <1>8
<1> QED
    BY <1>9 DEF t

(* Each of a sequence turned into another.                                 *)
Mapped(f, s) == [i \in DOMAIN s |-> f[s[i]]]

MapIs(R, f, s, t) ==
    /\ t \in Seq(R) /\ Len(t) = Len(s)
    /\ \A i \in 1..Len(s) : t[i] = f[s[i]]

LEMMA MapTyped ==
    ASSUME NEW S, NEW R, NEW f \in [S -> R], NEW s \in Seq(S)
    PROVE  MapIs(R, f, s, Mapped(f, s))
<1>1. Mapped(f, s) = [i \in 1..Len(s) |-> f[s[i]]]
    BY DEF Mapped
<1>2. \A i \in 1..Len(s) : f[s[i]] \in R
    OBVIOUS
<1> QED
    BY <1>1, <1>2 DEF MapIs

LEMMA MapAppend ==
    ASSUME NEW S, NEW R, NEW f \in [S -> R], NEW s \in Seq(S), NEW x \in S
    PROVE  Mapped(f, Append(s, x)) = Append(Mapped(f, s), f[x])
<1> DEFINE u == Append(s, x)
           y == f[x]
           a == Mapped(f, s)
           b == Mapped(f, u)
           c == Append(a, y)
           n == Len(s)
           m == n + 1
<1>1. u \in Seq(S) /\ Len(u) = m /\ u[m] = x /\ \A i \in 1..n : u[i] = s[i]
    BY AppendTyped, AppendAt
<1>2. y \in R /\ n \in Nat /\ n = Len(s) /\ m = n + 1
    OBVIOUS
<1>3. a \in Seq(R) /\ Len(a) = n /\ \A i \in 1..n : a[i] = f[s[i]]
  <2>1. MapIs(R, f, s, a)
      BY MapTyped
  <2> HIDE DEF a
  <2> QED
      BY <2>1 DEF MapIs
<1> HIDE DEF u
<1>4. b \in Seq(R) /\ Len(b) = m /\ \A i \in 1..m : b[i] = f[u[i]]
  <2>1. MapIs(R, f, u, b)
      BY <1>1, MapTyped
  <2> HIDE DEF b
  <2> QED
      BY <1>1, <2>1 DEF MapIs
<1> HIDE DEF y, a, b, n
<1>5. c \in Seq(R) /\ Len(c) = m
    BY <1>2, <1>3, AppendTyped
<1>6. c[m] = y /\ \A i \in 1..n : c[i] = a[i]
    BY <1>2, <1>3, AppendAt
<1> HIDE DEF c, m
<1>7. ASSUME NEW i \in 1..m
      PROVE  b[i] = c[i]
  <2>1. CASE i = m
      BY <1>1, <1>4, <1>6, <2>1 DEF y
  <2>2. CASE i # m
    <3>1. i \in 1..n
        BY <1>2, <2>2
    <3> QED
        BY <1>1, <1>3, <1>4, <1>6, <3>1
  <2> QED
      BY <2>1, <2>2
<1>8. b = c
    BY <1>4, <1>5, <1>7, SameSeq
<1> QED
    BY <1>8 DEF b, c, u, a, y

LEMMA MapEmpty ==
    ASSUME NEW f
    PROVE  Mapped(f, <<>>) = <<>>
BY DEF Mapped

(* The sum over a sequence.                                                *)
Sum(f, s) == Total(Mapped(f, s))

LEMMA SumEmpty ==
    ASSUME NEW f
    PROVE  Sum(f, <<>>) = 0
<1> DEFINE a == Mapped(f, <<>>)
<1>1. Len(a) = 0
    BY MapEmpty
<1> HIDE DEF a
<1>2. Total(a) = 0
    BY <1>1, TotalEmpty
<1> QED
    BY <1>2 DEF Sum, a

LEMMA SumAppend ==
    ASSUME NEW S, NEW f \in [S -> Nat], NEW s \in Seq(S), NEW x \in S
    PROVE  Sum(f, Append(s, x)) = Sum(f, s) + f[x] /\ Sum(f, s) \in Nat
<1> DEFINE a == Mapped(f, s)
           y == f[x]
<1>1. Mapped(f, Append(s, x)) = Append(a, y)
    BY MapAppend
<1>2. a \in Seq(Nat) /\ y \in Nat
    BY MapTyped DEF MapIs
<1> HIDE DEF a, y
<1>3. Total(Append(a, y)) = Total(a) + y /\ Total(a) \in Nat
    BY <1>2, TotalAppend
<1> QED
    BY <1>1, <1>3 DEF Sum, a, y

LEMMA SumTyped ==
    ASSUME NEW S, NEW f \in [S -> Nat], NEW s \in Seq(S)
    PROVE  Sum(f, s) \in Nat
<1>1. CASE s = <<>>
    BY <1>1, SumEmpty
<1>2. CASE s # <<>>
  <2>1. PICK x : x \in S
      BY <1>2
  <2> QED
      BY <2>1, SumAppend
<1> QED
    BY <1>1, <1>2

LEMMA SumJoin ==
    ASSUME NEW S, NEW f \in [S -> Nat], NEW s \in Seq(S), NEW r \in Seq(S)
    PROVE  Sum(f, s \o r) = Sum(f, s) + Sum(f, r)
<1> DEFINE Q == {t \in Seq(S) : Sum(f, s \o t) = Sum(f, s) + Sum(f, t)}
<1>1. <<>> \in Q
  <2>1. s \o <<>> = s
      BY JoinEmpty
  <2>2. Sum(f, <<>>) = 0 /\ Sum(f, s) \in Nat
      BY SumEmpty, SumTyped
  <2>3. <<>> \in Seq(S)
      OBVIOUS
  <2> QED
      BY <2>1, <2>2, <2>3
<1>2. ASSUME NEW t \in Seq(S), NEW x \in S, t \in Q
      PROVE  Append(t, x) \in Q
  <2> DEFINE u == Append(t, x)
             both == s \o t
             y == f[x]
  <2>1. both \in Seq(S) /\ u \in Seq(S)
      BY JoinTyped, AppendTyped
  <2>2. Sum(f, u) = Sum(f, t) + y /\ Sum(f, t) \in Nat /\ Sum(f, s) \in Nat /\ y \in Nat
      BY SumAppend, SumTyped
  <2>3. s \o u = Append(both, x)
      BY JoinAppend
  <2>4. Sum(f, both) = Sum(f, s) + Sum(f, t)
      BY <1>2
  <2> HIDE DEF both, u
  <2>5. Sum(f, Append(both, x)) = Sum(f, both) + y
      BY <2>1, SumAppend
  <2> HIDE DEF y
  <2>6. Sum(f, s \o u) = Sum(f, s) + Sum(f, u)
      BY <2>2, <2>3, <2>4, <2>5
  <2> QED
      BY <2>1, <2>6 DEF u
<1> HIDE DEF Q
<1>3. r \in Q
    BY <1>1, <1>2, SeqsAll
<1> QED
    BY <1>3 DEF Q

-----------------------------------------------------------------------------
(* Sequences, one after the other.                                         *)
FlatBy(f, ss) ==
    /\ f[0] = <<>>
    /\ \A k \in 1..Len(ss) : f[k] = Joined(f[k - 1], ss[k])
    /\ FlattenSeq(ss) = f[Len(ss)]

LEMMA FlatSteps ==
    ASSUME NEW S, NEW ss \in Seq(Seq(S))
    PROVE  \E f : FlatBy(f, ss)
<1> DEFINE n == Len(ss)
<1>1. n \in Nat /\ n = Len(ss) /\ \A k \in 1..n : ss[k] \in Seq(S)
    OBVIOUS
<1>2. CASE n = 0
  <2> DEFINE f == [k \in 0..0 |-> <<>>]
  <2>1. ss = <<>> /\ Len(ss) = 0
      BY <1>2
  <2>2. FlattenSeq(ss) = <<>>
      BY <2>1 DEF FlattenSeq
  <2>3. f[0] = <<>>
      OBVIOUS
  <2> HIDE DEF f
  <2>4. FlatBy(f, ss)
      BY <2>1, <2>2, <2>3 DEF FlatBy
  <2> QED
      BY <2>4
<1>3. CASE n # 0
  <2> DEFINE h == CHOOSE h : h = [i \in 1..Len(ss) |-> IF i = 1 THEN ss[i] ELSE Joined(h[i - 1], ss[i])]
  <2>1. h = [i \in 1..Len(ss) |-> IF i = 1 THEN ss[i] ELSE Joined(h[i - 1], ss[i])]
    <3> DEFINE none == <<>>
    <3>0. none = <<>>
        OBVIOUS
    <3> HIDE DEF none
    <3>1. PICK g : UpTo(g, "flatten", "any", none, ss, n)
        BY <1>1, UpToExists
    <3> DEFINE g1 == [i \in 1..n |-> g[i]]
    <3>2. ASSUME NEW k
          PROVE  Taken("flatten", "any", g[k - 1], ss[k]) = Joined(g[k - 1], ss[k])
      <4> DEFINE prior == g[k - 1]
                 item == ss[k]
      <4> HIDE DEF prior, item
      <4>1. Taken("flatten", "any", prior, item) = Joined(prior, item)
          BY TakenIs DEF Joined
      <4> QED
          BY <4>1 DEF prior, item
    <3>3. g[0] = <<>> /\ \A k \in 1..n : g[k] = Joined(g[k - 1], ss[k])
      <4> HIDE DEF n
      <4>1. g[0] = none /\ \A k \in 1..n : g[k] = Taken("flatten", "any", g[k - 1], ss[k])
          BY <1>1, <3>1, UpToSteps
      <4> QED
          BY <3>0, <3>2, <4>1
    <3>4. ASSUME NEW i \in 1..n, i = 1
          PROVE  Joined(<<>>, ss[i]) = ss[i]
      <4>1. ss[i] \in Seq(S)
          BY <1>1
      <4> QED
          BY <4>1, JoinEmpty DEF Joined
    <3>5. ASSUME NEW i \in 1..n
          PROVE  g1[i] = IF i = 1 THEN ss[i] ELSE Joined(g1[i - 1], ss[i])
      <4>1. CASE i = 1
        <5>1. g1[i] = g[i] /\ i - 1 = 0
            BY <4>1
        <5>2. g[i] = Joined(g[i - 1], ss[i]) /\ g[0] = <<>>
            BY <3>3
        <5> QED
            BY <3>4, <4>1, <5>1, <5>2
      <4>2. CASE i # 1
        <5>1. i - 1 \in 1..n /\ g1[i - 1] = g[i - 1] /\ g1[i] = g[i]
            BY <4>2
        <5>2. g[i] = Joined(g[i - 1], ss[i])
            BY <3>3
        <5> QED
            BY <4>2, <5>1, <5>2
      <4> QED
          BY <4>1, <4>2
    <3>6. g1 = [i \in 1..n |-> g1[i]]
        OBVIOUS
    <3> HIDE DEF g1
    <3>7. g1 = [i \in 1..Len(ss) |-> IF i = 1 THEN ss[i] ELSE Joined(g1[i - 1], ss[i])]
        BY <3>5, <3>6
    <3> QED
        BY <3>7
  <2>2. FlattenSeq(ss) = h[Len(ss)]
      BY <1>3 DEF FlattenSeq, Joined
  <2> HIDE DEF h
  <2> DEFINE f == [k \in 0..n |-> IF k = 0 THEN <<>> ELSE h[k]]
  <2>3. f[0] = <<>>
      BY <1>1
  <2>4. ASSUME NEW k \in 1..n
        PROVE  f[k] = Joined(f[k - 1], ss[k])
    <3>1. f[k] = h[k] /\ k - 1 \in 0..n /\ (k # 1 => f[k - 1] = h[k - 1])
        BY <1>1
    <3>2. k \in 1..Len(ss)
        BY <1>1
    <3>3. h[k] = IF k = 1 THEN ss[k] ELSE Joined(h[k - 1], ss[k])
        BY <2>1, <3>2
    <3>4. CASE k = 1
      <4>1. ss[k] \in Seq(S)
          BY <1>1
      <4>2. Joined(<<>>, ss[k]) = ss[k]
          BY <4>1, JoinEmpty DEF Joined
      <4>3. k - 1 = 0
          BY <3>4
      <4> QED
          BY <2>3, <3>1, <3>3, <3>4, <4>2, <4>3
    <3>5. CASE k # 1
        BY <3>1, <3>3, <3>5
    <3> QED
        BY <3>4, <3>5
  <2>5. f[n] = h[n]
      BY <1>1, <1>3
  <2> HIDE DEF f
  <2>6. FlatBy(f, ss)
      BY <1>1, <2>2, <2>3, <2>4, <2>5 DEF FlatBy
  <2> QED
      BY <2>6
<1> QED
    BY <1>2, <1>3

LEMMA FlatEmpty ==
    FlattenSeq(<<>>) = <<>>
BY DEF FlattenSeq

LEMMA FlatAppend ==
    ASSUME NEW S, NEW ss \in Seq(Seq(S)), NEW s \in Seq(S)
    PROVE  FlattenSeq(Append(ss, s)) = FlattenSeq(ss) \o s
<1> DEFINE t == Append(ss, s)
           n == Len(ss)
           m == n + 1
<1>1. n \in Nat /\ Len(t) = m /\ m \in 1..m /\ m - 1 = n /\ t[m] = s /\ m \in Nat
        /\ n = Len(ss) /\ \A k \in 1..n : t[k] = ss[k] /\ k \in 1..m
    BY AppendTyped, AppendAt
<1>2. t \in Seq(Seq(S))
    BY AppendTyped
<1> HIDE DEF t, n, m
<1>3. PICK f : FlatBy(f, ss)
    BY FlatSteps
<1>4. PICK g : FlatBy(g, t)
    BY <1>2, FlatSteps
<1> DEFINE N == {k \in Nat : k <= n => f[k] = g[k]}
<1>5. 0 \in N
    BY <1>3, <1>4 DEF FlatBy
<1>6. ASSUME NEW k \in Nat, k \in N
      PROVE  k + 1 \in N
  <2> SUFFICES ASSUME k + 1 <= n
               PROVE  f[k + 1] = g[k + 1]
      OBVIOUS
  <2> DEFINE j == k + 1
  <2>1. j \in 1..n /\ j - 1 = k
      BY <1>1
  <2>2. f[k] = g[k]
      BY <1>1, <1>6
  <2> HIDE DEF j
  <2>3. f[j] = Joined(f[k], ss[j]) /\ g[j] = Joined(g[k], t[j])
      BY <1>1, <1>3, <1>4, <2>1 DEF FlatBy
  <2>4. t[j] = ss[j]
      BY <1>1, <2>1
  <2>5. f[j] = g[j]
      BY <2>2, <2>3, <2>4
  <2> QED
      BY <2>5 DEF j
<1> HIDE DEF N
<1>7. n \in N
    BY <1>1, <1>5, <1>6, NumbersAll
<1>8. f[n] = g[n]
    BY <1>1, <1>7 DEF N
<1>9. FlattenSeq(ss) = f[n] /\ FlattenSeq(t) = Joined(g[n], s)
    BY <1>1, <1>3, <1>4 DEF FlatBy
<1>10. FlattenSeq(t) = FlattenSeq(ss) \o s
    BY <1>8, <1>9 DEF Joined
<1> QED
    BY <1>10 DEF t

LEMMA FlatTyped ==
    ASSUME NEW S, NEW ss \in Seq(Seq(S))
    PROVE  FlattenSeq(ss) \in Seq(S)
<1> DEFINE R == Seq(S)
           Q == {tt \in Seq(R) : FlattenSeq(tt) \in R}
<1>1. <<>> \in Q
  <2>1. FlattenSeq(<<>>) = <<>>
      BY FlatEmpty
  <2>2. <<>> \in R /\ <<>> \in Seq(R)
      OBVIOUS
  <2> QED
      BY <2>1, <2>2
<1>2. ASSUME NEW tt \in Seq(R), NEW t \in R, tt \in Q
      PROVE  Append(tt, t) \in Q
  <2> DEFINE u == Append(tt, t)
             a == FlattenSeq(tt)
  <2>1. FlattenSeq(u) = a \o t
      BY FlatAppend
  <2>2. a \in Seq(S) /\ t \in Seq(S)
      BY <1>2
  <2>3. u \in Seq(R)
      BY AppendTyped
  <2> HIDE DEF a, u
  <2>4. FlattenSeq(u) \in Seq(S)
      BY <2>1, <2>2, JoinTyped
  <2> QED
      BY <2>3, <2>4 DEF u
<1> HIDE DEF Q
<1>3. ss \in Q
  <2>1. ss \in Seq(R)
      OBVIOUS
  <2> HIDE DEF R
  <2> QED
      BY <1>1, <1>2, <2>1, SeqsAll
<1> QED
    BY <1>3 DEF Q

(* Mapping before or after.                                                *)
MapsTo(S, R, f) == f \in [S -> R]

LEMMA MapJoin ==
    ASSUME NEW S, NEW R, NEW f, MapsTo(S, R, f), NEW s \in Seq(S), NEW r \in Seq(S)
    PROVE  Mapped(f, Joined(s, r)) = Joined(Mapped(f, s), Mapped(f, r))
<1> DEFINE Q == {t \in Seq(S) : Mapped(f, s \o t) = Mapped(f, s) \o Mapped(f, t)}
           b == Mapped(f, s)
<1>1. f \in [S -> R]
    BY DEF MapsTo
<1>2. b \in Seq(R)
    BY <1>1, MapTyped DEF MapIs
<1>3. <<>> \in Q
  <2>1. s \o <<>> = s /\ b \o <<>> = b
      BY <1>2, JoinEmpty
  <2>2. Mapped(f, <<>>) = <<>>
      BY MapEmpty
  <2>3. <<>> \in Seq(S)
      OBVIOUS
  <2> QED
      BY <2>1, <2>2, <2>3
<1>4. ASSUME NEW t \in Seq(S), NEW x \in S, t \in Q
      PROVE  Append(t, x) \in Q
  <2> DEFINE a == Mapped(f, t)
             u == Append(t, x)
             both == s \o t
             y == f[x]
  <2>1. both \in Seq(S) /\ u \in Seq(S) /\ y \in R
      BY <1>1, JoinTyped, AppendTyped
  <2>2. a \in Seq(R)
      BY <1>1, MapTyped DEF MapIs
  <2>3. Mapped(f, u) = Append(a, y)
      BY <1>1, MapAppend
  <2>4. s \o u = Append(both, x)
      BY JoinAppend
  <2>5. Mapped(f, both) = b \o a
      BY <1>4
  <2> HIDE DEF both, b, a, u
  <2>6. Mapped(f, Append(both, x)) = Append(Mapped(f, both), y)
      BY <1>1, <2>1, MapAppend
  <2> HIDE DEF y
  <2>7. b \o Append(a, y) = Append(b \o a, y)
      BY <1>2, <2>1, <2>2, JoinAppend
  <2>8. Mapped(f, s \o u) = b \o Mapped(f, u)
      BY <2>3, <2>4, <2>5, <2>6, <2>7
  <2> QED
      BY <2>1, <2>8 DEF u, b
<1> HIDE DEF Q
<1>5. r \in Q
    BY <1>3, <1>4, SeqsAll
<1>6. Mapped(f, s \o r) = Mapped(f, s) \o Mapped(f, r)
    BY <1>5 DEF Q
<1> QED
    BY <1>6 DEF Joined

-----------------------------------------------------------------------------
(* The bytes of a post, counted line by line or as a whole.                *)
ParamBytes == [p \in LineParam |-> p.bytes]

Line == Seq(LineParam) \ {<<>>}

BytesOf == [l \in Line |-> LineBytes(l)]

LEMMA ParamBytesTyped ==
    ParamBytes \in [LineParam -> Nat]
<1>1. ASSUME NEW p \in LineParam
      PROVE  p.bytes \in Nat
    BY DEF LineParam, QueryParam, EngagedEvent
<1> QED
    BY <1>1 DEF ParamBytes

LEMMA LineBytesIs ==
    ASSUME NEW line \in Seq(LineParam)
    PROVE  LineBytes(line) = Len(line) - 1 + Sum(ParamBytes, line)
<1>1. \A i \in DOMAIN line : line[i] \in LineParam
    OBVIOUS
<1>2. \A i \in DOMAIN line : ParamBytes[line[i]] = line[i].bytes
    BY <1>1 DEF ParamBytes
<1>3. [i \in DOMAIN line |-> line[i].bytes] = [i \in DOMAIN line |-> ParamBytes[line[i]]]
    BY <1>2
<1> QED
    BY <1>3 DEF LineBytes, Sum, Mapped

LEMMA BytesTyped ==
    BytesOf \in [Line -> Nat]
<1>1. ASSUME NEW l \in Line
      PROVE  LineBytes(l) \in Nat
  <2>1. l \in Seq(LineParam) /\ Len(l) \in Nat /\ Len(l) # 0
      BY DEF Line
  <2>2. Sum(ParamBytes, l) \in Nat
      BY <2>1, ParamBytesTyped, SumTyped
  <2>3. LineBytes(l) = Len(l) - 1 + Sum(ParamBytes, l)
      BY <2>1, LineBytesIs
  <2> QED
      BY <2>1, <2>2, <2>3
<1> QED
    BY <1>1 DEF BytesOf

LEMMA ByteLengthIs ==
    ASSUME NEW lines \in Seq(Line)
    PROVE  byteLength(lines) = 2 * (Len(lines) - 1) + Sum(BytesOf, lines)
<1>1. \A i \in DOMAIN lines : lines[i] \in Line
    OBVIOUS
<1>2. \A i \in DOMAIN lines : BytesOf[lines[i]] = LineBytes(lines[i])
    BY <1>1 DEF BytesOf
<1>3. [i \in DOMAIN lines |-> LineBytes(lines[i])] = [i \in DOMAIN lines |-> BytesOf[lines[i]]]
    BY <1>2
<1> QED
    BY <1>3 DEF byteLength, Sum, Mapped

LEMMA ByteLengthGrows ==
    ASSUME NEW lines \in Seq(Line), NEW line \in Line
    PROVE  /\ byteLength(lines) \in Int /\ byteLength(Append(lines, line)) \in Int
           /\ byteLength(lines) <= byteLength(Append(lines, line))
<1> DEFINE more == Append(lines, line)
           a == Sum(BytesOf, lines)
           b == Sum(BytesOf, more)
           n == Len(lines)
<1>1. more \in Seq(Line) /\ Len(more) = n + 1 /\ n \in Nat
    BY AppendTyped
<1>2. b = a + BytesOf[line] /\ a \in Nat /\ BytesOf[line] \in Nat
    BY BytesTyped, SumAppend
<1>3. byteLength(lines) = 2 * (n - 1) + a
    BY ByteLengthIs
<1> HIDE DEF more
<1>4. byteLength(more) = 2 * (Len(more) - 1) + b
    BY <1>1, ByteLengthIs
<1> HIDE DEF a, b, n
<1>5. byteLength(lines) \in Int /\ byteLength(more) \in Int /\ byteLength(lines) <= byteLength(more)
    BY <1>1, <1>2, <1>3, <1>4
<1> QED
    BY <1>5 DEF more

LEMMA FlatBytes ==
    ASSUME NEW lines \in Seq(Line)
    PROVE  /\ FlattenSeq(lines) \in Seq(LineParam)
           /\ Len(FlattenSeq(lines)) + Sum(ParamBytes, FlattenSeq(lines))
                = Sum(BytesOf, lines) + Len(lines)
<1> DEFINE Counts(ls) == /\ FlattenSeq(ls) \in Seq(LineParam)
                         /\ Len(FlattenSeq(ls)) + Sum(ParamBytes, FlattenSeq(ls))
                              = Sum(BytesOf, ls) + Len(ls)
           Q == {ls \in Seq(Line) : Counts(ls)}
<1>1. <<>> \in Q
  <2>1. FlattenSeq(<<>>) = <<>> /\ Sum(ParamBytes, <<>>) = 0 /\ Sum(BytesOf, <<>>) = 0
      BY FlatEmpty, SumEmpty
  <2>2. <<>> \in Seq(Line) /\ <<>> \in Seq(LineParam) /\ Len(<<>>) = 0
      OBVIOUS
  <2>3. Counts(<<>>)
      BY <2>1, <2>2
  <2> HIDE DEF Counts
  <2> QED
      BY <2>2, <2>3
<1>2. ASSUME NEW ls \in Seq(Line), NEW l \in Line, ls \in Q
      PROVE  Append(ls, l) \in Q
  <2> DEFINE u == Append(ls, l)
             fl == FlattenSeq(ls)
             fu == FlattenSeq(u)
  <2>1. u \in Seq(Line) /\ Len(u) = Len(ls) + 1 /\ Len(ls) \in Nat
      BY AppendTyped
  <2>2. l \in Seq(LineParam) /\ Len(l) \in Nat /\ Len(l) # 0 /\ ls \in Seq(Seq(LineParam))
      BY DEF Line
  <2>3. fu = fl \o l
      BY <2>2, FlatAppend
  <2>4. fl \in Seq(LineParam) /\ Len(fl) + Sum(ParamBytes, fl) = Sum(BytesOf, ls) + Len(ls)
      BY <1>2
  <2> HIDE DEF fl, fu
  <2>5. fu \in Seq(LineParam) /\ Len(fu) = Len(fl) + Len(l) /\ Len(fl) \in Nat
      BY <2>2, <2>3, <2>4, JoinTyped
  <2>6. Sum(ParamBytes, fu) = Sum(ParamBytes, fl) + Sum(ParamBytes, l)
      BY <2>2, <2>3, <2>4, ParamBytesTyped, SumJoin
  <2>7. Sum(ParamBytes, fl) \in Nat /\ Sum(ParamBytes, l) \in Nat
      BY <2>2, <2>4, ParamBytesTyped, SumTyped
  <2>8. Sum(BytesOf, u) = Sum(BytesOf, ls) + BytesOf[l] /\ Sum(BytesOf, ls) \in Nat
      BY BytesTyped, SumAppend
  <2>9. BytesOf[l] = Len(l) - 1 + Sum(ParamBytes, l)
      BY <2>2, LineBytesIs DEF BytesOf
  <2> HIDE DEF u
  <2>10. Len(fu) + Sum(ParamBytes, fu) = Sum(BytesOf, u) + Len(u)
    <3> DEFINE a == Len(fl)
               b == Len(l)
               c == Sum(ParamBytes, fl)
               d == Sum(ParamBytes, l)
               e == Sum(BytesOf, ls)
               n == Len(ls)
    <3>1. a \in Nat /\ b \in Nat /\ c \in Nat /\ d \in Nat /\ e \in Nat /\ n \in Nat
        BY <2>1, <2>2, <2>5, <2>7, <2>8
    <3>2. a + c = e + n
        BY <2>4
    <3>3. Len(fu) = a + b /\ Sum(ParamBytes, fu) = c + d
        BY <2>5, <2>6
    <3>4. Sum(BytesOf, u) = e + BytesOf[l] /\ BytesOf[l] = b - 1 + d /\ Len(u) = n + 1
        BY <2>1, <2>8, <2>9
    <3> HIDE DEF a, b, c, d, e, n
    <3> QED
        BY <3>1, <3>2, <3>3, <3>4
  <2>11. Counts(u)
      BY <2>5, <2>10 DEF fu
  <2> HIDE DEF Counts
  <2> QED
      BY <2>1, <2>11 DEF u
<1>3. lines \in Q
  <2> HIDE DEF Q
  <2> QED
      BY <1>1, <1>2, SeqsAll
<1> QED
    BY <1>3

Fits(lines) == /\ Len(lines) <= GA4_BATCH_MAX_EVENTS
               /\ LineBytes(FlattenSeq(lines)) + Len(lines) - 1 <= GA4_BATCH_MAX_BYTES

LEMMA FitsIs ==
    ASSUME NEW lines \in Seq(Line)
    PROVE  Fits(lines) <=> /\ Len(lines) <= GA4_BATCH_MAX_EVENTS
                           /\ byteLength(lines) <= GA4_BATCH_MAX_BYTES
<1> DEFINE flat == FlattenSeq(lines)
<1>1. flat \in Seq(LineParam) /\ Len(flat) + Sum(ParamBytes, flat) = Sum(BytesOf, lines) + Len(lines)
    BY FlatBytes
<1> HIDE DEF flat
<1>2. LineBytes(flat) = Len(flat) - 1 + Sum(ParamBytes, flat)
    BY <1>1, LineBytesIs
<1>3. byteLength(lines) = 2 * (Len(lines) - 1) + Sum(BytesOf, lines)
    BY ByteLengthIs
<1>4. Sum(ParamBytes, flat) \in Nat /\ Sum(BytesOf, lines) \in Nat
    BY <1>1, ParamBytesTyped, BytesTyped, SumTyped
<1>5. Len(flat) \in Nat /\ Len(lines) \in Nat
    BY <1>1
<1>6. LineBytes(flat) + Len(lines) - 1 = byteLength(lines)
    BY <1>1, <1>2, <1>3, <1>4, <1>5
<1> QED
    BY <1>6 DEF Fits, flat

-----------------------------------------------------------------------------
(* Requests, parsed, and the lines of a group of them.                     *)
Item == {parseRequest(r) : r \in Seq(QueryParam)}

LineFor == [item \in Item |-> buildBodyLine(item.perEventPairs)]

LEMMA ItemIs ==
    ASSUME NEW item \in Item
    PROVE  /\ item.original \in Seq(QueryParam) /\ item = parseRequest(item.original)
           /\ item.sharedPairs = OfClass(item.original, "shared")
           /\ item.perEventPairs = OfClass(item.original, "per-event")
           /\ item.signature = sharedSignature(item.original)
<1>1. PICK r \in Seq(QueryParam) : item = parseRequest(r)
    BY DEF Item
<1>2. item.original = r /\ item.sharedPairs = OfClass(r, "shared")
        /\ item.perEventPairs = OfClass(r, "per-event") /\ item.signature = sharedSignature(r)
    BY <1>1 DEF parseRequest
<1> QED
    BY <1>1, <1>2

LEMMA RequestIsLine ==
    Seq(QueryParam) \subseteq Seq(LineParam)
<1>1. QueryParam \subseteq LineParam
    BY DEF LineParam
<1> QED
    BY <1>1

LEMMA ItemLine ==
    ASSUME NEW item \in Item
    PROVE  /\ LineFor[item] \in Line
           /\ LineFor[item] = buildBodyLine(item.perEventPairs)
           /\ Content(LineFor[item]) = Content(item.original)
           /\ Times(LineFor[item], EngagedEvent) = 1
<1> DEFINE request == item.original
           own == item.perEventPairs
<1>1. request \in Seq(LineParam) /\ own = OfClass(request, "per-event")
    BY ItemIs, RequestIsLine
<1>2. LineFor[item] = buildBodyLine(own)
    BY DEF LineFor
<1> HIDE DEF request, own
<1>3. /\ buildBodyLine(own) \in Seq(LineParam)
      /\ buildBodyLine(own) # <<>>
      /\ Content(buildBodyLine(own)) = Content(request)
      /\ Times(buildBodyLine(own), EngagedEvent) = 1
    BY <1>1, LineSays
<1> QED
    BY <1>2, <1>3 DEF Line, request, own

LEMMA LineForTyped ==
    LineFor \in [Item -> Line]
<1>1. \A item \in Item : LineFor[item] \in Line
    BY ItemLine
<1>2. LineFor = [item \in Item |-> LineFor[item]]
    BY DEF LineFor
<1> QED
    BY <1>1, <1>2

LEMMA LinesIs ==
    ASSUME NEW items \in Seq(Item)
    PROVE  Lines(items) = Mapped(LineFor, items) /\ Lines(items) \in Seq(Line)
<1>1. \A i \in DOMAIN items : items[i] \in Item
    OBVIOUS
<1>2. \A i \in DOMAIN items : LineFor[items[i]] = buildBodyLine(items[i].perEventPairs)
    BY <1>1 DEF LineFor
<1>3. Lines(items) = Mapped(LineFor, items)
    BY <1>2 DEF Lines, Mapped
<1>4. Mapped(LineFor, items) \in Seq(Line)
    BY LineForTyped, MapTyped DEF MapIs
<1> QED
    BY <1>3, <1>4

(* What of a group is what of its lines.                                   *)
LEMMA LinesAppend ==
    ASSUME NEW items \in Seq(Item), NEW item \in Item
    PROVE  Lines(Append(items, item)) = Append(Lines(items), LineFor[item])
<1> DEFINE more == Append(items, item)
<1>1. more \in Seq(Item)
    BY AppendTyped
<1>2. Mapped(LineFor, more) = Append(Mapped(LineFor, items), LineFor[item])
    BY LineForTyped, MapAppend
<1>3. Lines(items) = Mapped(LineFor, items)
    BY LinesIs
<1> HIDE DEF more
<1>4. Lines(more) = Mapped(LineFor, more)
    BY <1>1, LinesIs
<1> QED
    BY <1>2, <1>3, <1>4 DEF more

LEMMA LinesLen ==
    ASSUME NEW items \in Seq(Item)
    PROVE  Len(Lines(items)) = Len(items)
<1>1. Mapped(LineFor, items) = Lines(items)
    BY LinesIs
<1>2. MapIs(Line, LineFor, items, Mapped(LineFor, items))
    BY LineForTyped, MapTyped
<1> QED
    BY <1>1, <1>2 DEF MapIs

LEMMA GroupFits ==
    ASSUME NEW items \in Seq(Item)
    PROVE  FitsOnePost(items) <=> Fits(Lines(items))
<1> DEFINE lines == Lines(items)
<1>1. lines \in Seq(Line) /\ Len(lines) = Len(items)
    BY LinesIs, LinesLen
<1> HIDE DEF lines
<1>2. Fits(lines) <=> /\ Len(lines) <= GA4_BATCH_MAX_EVENTS
                      /\ byteLength(lines) <= GA4_BATCH_MAX_BYTES
    BY <1>1, FitsIs
<1> QED
    BY <1>1, <1>2 DEF FitsOnePost, lines

(* A group too large for a post has no room.                               *)
LEMMA FullStays ==
    ASSUME NEW items \in Seq(Item), byteLength(Lines(items)) > GA4_BATCH_MAX_BYTES, NEW item \in Item
    PROVE  ~FitsOnePost(Append(items, item))
<1> DEFINE lines == Lines(items)
           line == LineFor[item]
           more == Append(lines, line)
<1>1. lines \in Seq(Line) /\ line \in Line
    BY LinesIs, LineForTyped
<1>2. Lines(Append(items, item)) = more
    BY LinesAppend
<1>3. byteLength(lines) > GA4_BATCH_MAX_BYTES
    OBVIOUS
<1> HIDE DEF lines, line
<1>4. byteLength(lines) \in Int /\ byteLength(more) \in Int /\ byteLength(lines) <= byteLength(more)
    BY <1>1, ByteLengthGrows
<1>5. GA4_BATCH_MAX_BYTES \in Nat
    BY CoalesceAssumption
<1>6. ~(byteLength(more) <= GA4_BATCH_MAX_BYTES)
    BY <1>3, <1>4, <1>5
<1> QED
    BY <1>2, <1>6 DEF FitsOnePost

-----------------------------------------------------------------------------
(* The split of a group into posts.                                        *)
Group == Seq(Item) \ {<<>>}

NoRoom(g, h) == ~FitsOnePost(Append(g, h[1]))

Closed(gs, item) == \A j \in 1..Len(gs) : j = Len(gs) => ~FitsOnePost(Append(gs[j], item))

OnePost(g) == FitsOnePost(g) \/ Len(g) = 1

Packed(gs) == /\ \A j \in 1..Len(gs) : OnePost(gs[j])
              /\ \A j \in 1..Len(gs), k \in 1..Len(gs) : k = j + 1 => NoRoom(gs[j], gs[k])

(* A turn keeps: what is closed is packed, and what is open still fits and *)
(* had no room in what was closed before it.                               *)
SplitInv(done, gs, cur) ==
    /\ gs \in Seq(Group) /\ cur \in Seq(Item)
    /\ FlattenSeq(gs) \o cur = done
    /\ Packed(gs)
    /\ cur # <<>> => FitsOnePost(cur) /\ Closed(gs, cur[1])
    /\ cur = <<>> => \A item \in Item : Closed(gs, item)

LEMMA PackedAppend ==
    ASSUME NEW gs \in Seq(Group), NEW g \in Group, Packed(gs), OnePost(g), Closed(gs, g[1])
    PROVE  Packed(Append(gs, g))
<1> DEFINE more == Append(gs, g)
           n == Len(gs)
           m == n + 1
<1>1. n \in Nat /\ Len(more) = m /\ m \in Nat
    BY AppendTyped
<1>2. \A i \in 1..n : more[i] = gs[i]
    BY AppendAt
<1>3. more[m] = g
    BY AppendAt
<1>4. n = Len(gs)
    OBVIOUS
<1> HIDE DEF more
<1>5. m = n + 1
    OBVIOUS
<1> HIDE DEF n, m
<1>6. ASSUME NEW j \in 1..m
      PROVE  OnePost(more[j])
  <2>1. CASE j = m
      BY <1>3, <2>1
  <2>2. CASE j # m
    <3>1. j \in 1..n
        BY <1>1, <1>5, <2>2
    <3> QED
        BY <1>2, <1>4, <3>1 DEF Packed
  <2> QED
      BY <2>1, <2>2
<1>7. ASSUME NEW j \in 1..m, NEW k \in 1..m, k = j + 1
      PROVE  NoRoom(more[j], more[k])
  <2>1. j \in 1..n
      BY <1>1, <1>5, <1>7
  <2>2. CASE k = m
    <3>1. j = n
        BY <1>1, <1>5, <1>7, <2>2
    <3>2. ~FitsOnePost(Append(gs[j], g[1]))
        BY <1>4, <2>1, <3>1 DEF Closed
    <3> QED
        BY <1>2, <1>3, <2>1, <2>2, <3>2 DEF NoRoom
  <2>3. CASE k # m
    <3>1. k \in 1..n
        BY <1>1, <1>5, <2>3
    <3>2. NoRoom(gs[j], gs[k])
        BY <1>4, <1>7, <2>1, <3>1 DEF Packed
    <3> QED
        BY <1>2, <2>1, <3>1, <3>2
  <2> QED
      BY <2>2, <2>3
<1>8. Packed(more)
    BY <1>1, <1>6, <1>7 DEF Packed
<1> QED
    BY <1>8 DEF more

LEMMA ClosedAppend ==
    ASSUME NEW gs \in Seq(Group), NEW g \in Group, NEW item, ~FitsOnePost(Append(g, item))
    PROVE  Closed(Append(gs, g), item)
<1> DEFINE more == Append(gs, g)
<1>1. Len(more) = Len(gs) + 1 /\ more[Len(gs) + 1] = g
    BY AppendTyped, AppendAt
<1>2. more[Len(more)] = g
    BY <1>1
<1> HIDE DEF more
<1>3. Closed(more, item)
    BY <1>2 DEF Closed
<1> QED
    BY <1>3 DEF more

(* The two halves of a turn: whether the current post closes, ...          *)
Turned(done, gs, cur) ==
    /\ gs \in Seq(Group) /\ cur \in Group
    /\ FlattenSeq(gs) \o cur = done
    /\ Packed(gs) /\ OnePost(cur) /\ Closed(gs, cur[1])

LEMMA GroupSeqs ==
    ASSUME NEW gs \in Seq(Group)
    PROVE  gs \in Seq(Seq(Item)) /\ FlattenSeq(gs) \in Seq(Item)
<1>1. Group \subseteq Seq(Item)
    BY DEF Group
<1>2. gs \in Seq(Seq(Item))
    BY <1>1
<1> QED
    BY <1>2, FlatTyped

LEMMA OneItem ==
    ASSUME NEW item \in Item
    PROVE  <<item>> \in Group /\ Len(<<item>>) = 1 /\ <<item>>[1] = item
             /\ <<item>> = Append(<<>>, item)
BY DEF Group

LEMMA TurnCloses ==
    ASSUME NEW done, NEW gs, NEW cur, SplitInv(done, gs, cur), NEW item \in Item,
           cur # <<>>, ~FitsOnePost(Append(cur, item))
    PROVE  Turned(Append(done, item), Append(gs, cur), <<item>>)
<1> DEFINE gs1 == Append(gs, cur)
           one == <<item>>
<1>1. gs \in Seq(Group) /\ cur \in Group
    BY DEF SplitInv, Group
<1>2. one \in Group /\ Len(one) = 1 /\ one[1] = item
    BY OneItem
<1>3. Packed(gs1)
    BY <1>1, PackedAppend DEF SplitInv, OnePost
<1>4. Closed(gs1, item)
    BY <1>1, ClosedAppend
<1>5. FlattenSeq(gs1) = done
    BY <1>1, GroupSeqs, FlatAppend DEF SplitInv
<1>6. gs1 \in Seq(Group)
    BY <1>1, AppendTyped
<1> HIDE DEF gs1
<1>7. done \in Seq(Item)
    BY <1>5, <1>6, GroupSeqs
<1>8. done \o Append(<<>>, item) = Append(done \o <<>>, item)
  <2>1. <<>> \in Seq(Item)
      OBVIOUS
  <2> QED
      BY <1>7, <2>1, JoinAppend
<1>9. done \o <<>> = done /\ one = Append(<<>>, item)
    BY <1>7, JoinEmpty, OneItem
<1>10. FlattenSeq(gs1) \o one = Append(done, item)
    BY <1>5, <1>8, <1>9
<1> HIDE DEF one
<1>11. Turned(Append(done, item), gs1, one)
    BY <1>2, <1>3, <1>4, <1>6, <1>10 DEF Turned, OnePost
<1> QED
    BY <1>11 DEF gs1, one

LEMMA TurnStays ==
    ASSUME NEW done, NEW gs, NEW cur, SplitInv(done, gs, cur), NEW item \in Item,
           cur = <<>> \/ FitsOnePost(Append(cur, item))
    PROVE  Turned(Append(done, item), gs, Append(cur, item))
<1> DEFINE cur1 == Append(cur, item)
<1>1. gs \in Seq(Group) /\ cur \in Seq(Item) /\ Packed(gs) /\ FlattenSeq(gs) \o cur = done
    BY DEF SplitInv
<1>2. cur1 \in Seq(Item) /\ Len(cur1) = Len(cur) + 1 /\ Len(cur) \in Nat
    BY <1>1, AppendTyped
<1>3. FlattenSeq(gs) \o cur1 = Append(done, item)
    BY <1>1, GroupSeqs, JoinAppend
<1>4. Closed(gs, cur1[1])
  <2>1. CASE cur = <<>>
    <3>1. cur1[1] = item
        BY <2>1
    <3> QED
        BY <2>1, <3>1 DEF SplitInv
  <2>2. CASE cur # <<>>
    <3>1. 1 \in 1..Len(cur)
        BY <1>1, <2>2
    <3>2. cur1[1] = cur[1]
        BY <1>1, <3>1, AppendAt
    <3> QED
        BY <2>2, <3>2 DEF SplitInv
  <2> QED
      BY <2>1, <2>2
<1>5. OnePost(cur1)
  <2>1. cur = <<>> => Len(cur1) = 1
      BY <1>2
  <2> QED
      BY <2>1 DEF OnePost
<1> HIDE DEF cur1
<1>6. cur1 \in Group
    BY <1>2 DEF Group
<1>7. Turned(Append(done, item), gs, cur1)
    BY <1>1, <1>3, <1>4, <1>5, <1>6 DEF Turned
<1> QED
    BY <1>7 DEF cur1

(* ... and whether the item is too large for any.                          *)
LEMMA TurnAlone ==
    ASSUME NEW done, NEW gs, NEW cur, Turned(done, gs, cur), Len(cur) = 1,
           byteLength(Lines(cur)) > GA4_BATCH_MAX_BYTES
    PROVE  SplitInv(done, Append(gs, cur), <<>>)
<1> DEFINE gs1 == Append(gs, cur)
           none == <<>>
<1>1. gs \in Seq(Group) /\ cur \in Group /\ cur \in Seq(Item)
    BY DEF Turned, Group
<1>2. gs1 \in Seq(Group) /\ Packed(gs1)
    BY <1>1, AppendTyped, PackedAppend DEF Turned
<1>3. \A item \in Item : Closed(gs1, item)
  <2> TAKE item \in Item
  <2>1. ~FitsOnePost(Append(cur, item))
      BY <1>1, FullStays
  <2> QED
      BY <1>1, <2>1, ClosedAppend
<1>4. FlattenSeq(gs1) = done
    BY <1>1, GroupSeqs, FlatAppend DEF Turned
<1> HIDE DEF gs1
<1>5. FlattenSeq(gs1) \o none = done
    BY <1>2, <1>4, GroupSeqs, JoinEmpty
<1>6. none \in Seq(Item) /\ none = <<>>
    OBVIOUS
<1> HIDE DEF none
<1>7. SplitInv(done, gs1, none)
    BY <1>2, <1>3, <1>5, <1>6 DEF SplitInv
<1> QED
    BY <1>7 DEF gs1, none

LEMMA TurnFits ==
    ASSUME NEW done, NEW gs, NEW cur, Turned(done, gs, cur),
           ~(Len(cur) = 1 /\ byteLength(Lines(cur)) > GA4_BATCH_MAX_BYTES)
    PROVE  SplitInv(done, gs, cur)
<1>1. cur \in Group /\ cur # <<>> /\ cur \in Seq(Item)
    BY DEF Turned, Group
<1>2. FitsOnePost(cur)
  <2>1. CASE Len(cur) = 1
    <3> DEFINE bytes == byteLength(Lines(cur))
    <3>1. bytes \in Int
      <4>1. Lines(cur) \in Seq(Line)
          BY <1>1, LinesIs
      <4>2. PICK item \in Item : TRUE
        <5>1. cur[1] \in Item
            BY <1>1, <2>1
        <5> QED
            BY <5>1
      <4>3. LineFor[item] \in Line
          BY ItemLine
      <4> QED
          BY <4>1, <4>3, ByteLengthGrows
    <3>2. GA4_BATCH_MAX_BYTES \in Nat /\ GA4_BATCH_MAX_EVENTS \in Nat /\ 1 <= GA4_BATCH_MAX_EVENTS
        BY CoalesceAssumption
    <3>3. ~(bytes > GA4_BATCH_MAX_BYTES)
        BY <2>1
    <3> HIDE DEF bytes
    <3>4. bytes <= GA4_BATCH_MAX_BYTES
        BY <3>1, <3>2, <3>3
    <3> QED
        BY <2>1, <3>2, <3>4 DEF FitsOnePost, bytes
  <2>2. CASE Len(cur) # 1
      BY <2>2 DEF Turned, OnePost
  <2> QED
      BY <2>1, <2>2
<1> QED
    BY <1>1, <1>2 DEF Turned, SplitInv

LEMMA Turn ==
    ASSUME NEW done, NEW s, SplitInv(done, s.groups, s.current), NEW item \in Item
    PROVE  SplitInv(Append(done, item), AddItem(s, item).groups, AddItem(s, item).current)
<1> DEFINE more == Append(done, item)
           grown == Append(s.current, item)
           over(c) == Len(c) = 1 /\ byteLength(Lines(c)) > GA4_BATCH_MAX_BYTES
           End(gs, cur) == IF over(cur) THEN [groups |-> Append(gs, cur), current |-> <<>>]
                           ELSE [groups |-> gs, current |-> cur]
<1>1. ASSUME NEW gs, NEW cur, Turned(more, gs, cur)
      PROVE  SplitInv(more, End(gs, cur).groups, End(gs, cur).current)
  <2> HIDE DEF more
  <2>1. CASE over(cur)
    <3>1. End(gs, cur).groups = Append(gs, cur) /\ End(gs, cur).current = <<>>
        BY <2>1
    <3>2. SplitInv(more, Append(gs, cur), <<>>)
        BY <1>1, <2>1, TurnAlone
    <3> QED
        BY <3>1, <3>2
  <2>2. CASE ~over(cur)
    <3>1. End(gs, cur).groups = gs /\ End(gs, cur).current = cur
        BY <2>2
    <3>2. SplitInv(more, gs, cur)
        BY <1>1, <2>2, TurnFits
    <3> QED
        BY <3>1, <3>2
  <2> QED
      BY <2>1, <2>2
<1>2. CASE s.current # <<>> /\ ~FitsOnePost(grown)
  <2>1. AddItem(s, item) = End(Append(s.groups, s.current), <<item>>)
      BY <1>2 DEF AddItem
  <2>2. Turned(more, Append(s.groups, s.current), <<item>>)
      BY <1>2, TurnCloses
  <2> HIDE DEF End, more
  <2>3. SplitInv(more, End(Append(s.groups, s.current), <<item>>).groups,
                 End(Append(s.groups, s.current), <<item>>).current)
      BY <1>1, <2>2
  <2> QED
      BY <2>1, <2>3 DEF more
<1>3. CASE ~(s.current # <<>> /\ ~FitsOnePost(grown))
  <2>1. AddItem(s, item) = End(s.groups, grown)
      BY <1>3 DEF AddItem
  <2>2. Turned(more, s.groups, grown)
      BY <1>3, TurnStays
  <2> HIDE DEF End, more, grown
  <2>3. SplitInv(more, End(s.groups, grown).groups, End(s.groups, grown).current)
      BY <1>1, <2>2
  <2> QED
      BY <2>1, <2>3 DEF more
<1> QED
    BY <1>2, <1>3

(* The whole split: all items, in their order, packed.                     *)
SplitSteps(f, items) ==
    /\ f[0] = [groups |-> <<>>, current |-> <<>>]
    /\ \A k \in 1..Len(items) : f[k] = AddItem(f[k - 1], items[k])
    /\ splitIntoPostGroups(items)
         = IF f[Len(items)].current = <<>> THEN f[Len(items)].groups
           ELSE Append(f[Len(items)].groups, f[Len(items)].current)

LEMMA SplitHasSteps ==
    ASSUME NEW items, Len(items) \in Nat
    PROVE  \E f : SplitSteps(f, items)
<1> DEFINE start == [groups |-> <<>>, current |-> <<>>]
           f == CHOOSE f : f = [k \in 0..Len(items) |->
                                  IF k = 0 THEN start ELSE AddItem(f[k - 1], items[k])]
<1>1. f = [k \in 0..Len(items) |-> IF k = 0 THEN start ELSE AddItem(f[k - 1], items[k])]
  <2>1. PICK g : UpTo(g, "add", "any", start, items, Len(items))
      BY UpToExists
  <2>2. \A k : Taken("add", "any", g[k - 1], items[k]) = AddItem(g[k - 1], items[k])
      BY TakenIs
  <2>3. g = [k \in 0..Len(items) |-> IF k = 0 THEN start ELSE AddItem(g[k - 1], items[k])]
      BY <2>1, <2>2 DEF UpTo
  <2> HIDE DEF start
  <2> QED
      BY <2>3
<1>2. splitIntoPostGroups(items)
        = IF f[Len(items)].current = <<>> THEN f[Len(items)].groups
          ELSE Append(f[Len(items)].groups, f[Len(items)].current)
    BY DEF splitIntoPostGroups
<1> HIDE DEF f
<1>3. SplitSteps(f, items)
  <2> HIDE DEF start
  <2>1. f[0] = start
      BY <1>1
  <2>2. \A k \in 1..Len(items) : f[k] = AddItem(f[k - 1], items[k])
      BY <1>1
  <2> QED
      BY <1>2, <2>1, <2>2 DEF SplitSteps, start
<1> QED
    BY <1>3

Prefix(s, n) == [i \in 1..n |-> s[i]]

LEMMA PrefixNext ==
    ASSUME NEW S, NEW s \in Seq(S), NEW n \in Nat, NEW m \in 1..Len(s), m = n + 1
    PROVE  Prefix(s, m) = Append(Prefix(s, n), s[m]) /\ s[m] \in S
<1> DEFINE p == Prefix(s, n)
           q == Append(p, s[m])
<1>1. s[m] \in S /\ m \in Nat /\ \A i \in 1..m : s[i] \in S
    OBVIOUS
<1>2. \A i \in 1..n : s[i] \in S
    BY <1>1
<1>3. p \in Seq(S) /\ Len(p) = n /\ \A i \in 1..n : p[i] = s[i]
    BY <1>2 DEF Prefix
<1> HIDE DEF p
<1>4. q \in Seq(S) /\ Len(q) = m
    BY <1>1, <1>3, AppendTyped
<1>5. \A i \in 1..n : q[i] = s[i]
    BY <1>1, <1>3, AppendAt
<1>6. q[m] = s[m]
    BY <1>1, <1>3, AppendAt
<1> HIDE DEF q
<1>7. \A i \in 1..m : q[i] = s[i]
    BY <1>5, <1>6
<1> DEFINE r == Prefix(s, m)
<1>8. r \in Seq(S) /\ Len(r) = m /\ \A i \in 1..m : r[i] = s[i]
    BY <1>1 DEF Prefix
<1> HIDE DEF r
<1>9. r = q
    BY <1>4, <1>7, <1>8, SameSeq
<1> QED
    BY <1>1, <1>9 DEF r, q, p

LEMMA PrefixWhole ==
    ASSUME NEW S, NEW s \in Seq(S)
    PROVE  Prefix(s, Len(s)) = s
<1> DEFINE p == Prefix(s, Len(s))
<1>1. \A i \in 1..Len(s) : s[i] \in S
    OBVIOUS
<1>2. p \in Seq(S) /\ Len(p) = Len(s) /\ \A i \in 1..Len(s) : p[i] = s[i]
    BY <1>1 DEF Prefix
<1> HIDE DEF p
<1>3. p = s
    BY <1>2, SameSeq
<1> QED
    BY <1>3 DEF p

LEMMA SplitPacks ==
    ASSUME NEW items \in Seq(Item)
    PROVE  /\ splitIntoPostGroups(items) \in Seq(Group)
           /\ FlattenSeq(splitIntoPostGroups(items)) = items
           /\ Packed(splitIntoPostGroups(items))
<1> DEFINE n == Len(items)
<1>1. n \in Nat
    OBVIOUS
<1>2. PICK f : SplitSteps(f, items)
    BY SplitHasSteps
<1> DEFINE Inv(k) == SplitInv(Prefix(items, k), f[k].groups, f[k].current)
           N == {k \in Nat : k <= n => Inv(k)}
<1>3. 0 \in N
  <2> DEFINE none == <<>>
  <2>1. f[0].groups = none /\ f[0].current = none
      BY <1>2 DEF SplitSteps
  <2>2. Prefix(items, 0) = none
      BY DEF Prefix
  <2>3. none \in Seq(Group) /\ none \in Seq(Item) /\ Len(none) = 0
      OBVIOUS
  <2>4. FlattenSeq(none) = none /\ none \o none = none
      BY <2>3, FlatEmpty, JoinEmpty
  <2> HIDE DEF none
  <2>5. Packed(none) /\ \A item : Closed(none, item)
      BY <2>3 DEF Packed, Closed
  <2>6. none = <<>>
      BY DEF none
  <2>7. SplitInv(none, none, none)
      BY <2>3, <2>4, <2>5, <2>6 DEF SplitInv
  <2>8. Inv(0)
      BY <2>1, <2>2, <2>7
  <2> HIDE DEF Inv
  <2> QED
      BY <2>8
<1>4. ASSUME NEW k \in Nat, k \in N
      PROVE  k + 1 \in N
  <2> DEFINE m == k + 1
  <2> SUFFICES ASSUME m <= n
               PROVE  Inv(m)
      OBVIOUS
  <2>1. m \in 1..n /\ m - 1 = k /\ k <= n /\ m = k + 1
      BY <1>1
  <2>2. Inv(k)
      BY <1>4, <2>1
  <2> HIDE DEF m
  <2>3. Prefix(items, m) = Append(Prefix(items, k), items[m]) /\ items[m] \in Item
      BY <2>1, PrefixNext
  <2>4. f[m] = AddItem(f[k], items[m])
      BY <1>2, <2>1 DEF SplitSteps
  <2>5. SplitInv(Append(Prefix(items, k), items[m]),
                 AddItem(f[k], items[m]).groups, AddItem(f[k], items[m]).current)
      BY <2>2, <2>3, Turn
  <2> QED
      BY <2>3, <2>4, <2>5
<1> HIDE DEF N
<1>5. n \in N
    BY <1>1, <1>3, <1>4, NumbersAll
<1>6. Inv(n)
    BY <1>1, <1>5 DEF N
<1>7. Prefix(items, n) = items
    BY PrefixWhole
<1> DEFINE gs == f[n].groups
           cur == f[n].current
<1>8. SplitInv(items, gs, cur)
    BY <1>6, <1>7
<1>9. splitIntoPostGroups(items) = IF cur = <<>> THEN gs ELSE Append(gs, cur)
    BY <1>2 DEF SplitSteps
<1> HIDE DEF gs, cur
<1>10. CASE cur = <<>>
  <2>1. gs \in Seq(Group) /\ Packed(gs) /\ FlattenSeq(gs) \o cur = items
      BY <1>8 DEF SplitInv
  <2>2. FlattenSeq(gs) = items
      BY <1>10, <2>1, GroupSeqs, JoinEmpty
  <2> QED
      BY <1>9, <1>10, <2>1, <2>2
<1>11. CASE cur # <<>>
  <2> DEFINE more == Append(gs, cur)
  <2>1. gs \in Seq(Group) /\ cur \in Group /\ cur \in Seq(Item) /\ Packed(gs) /\ OnePost(cur)
          /\ Closed(gs, cur[1]) /\ FlattenSeq(gs) \o cur = items
      BY <1>8, <1>11 DEF SplitInv, Group, OnePost
  <2>2. more \in Seq(Group) /\ Packed(more)
      BY <2>1, AppendTyped, PackedAppend
  <2>3. FlattenSeq(more) = items
      BY <2>1, GroupSeqs, FlatAppend
  <2>4. splitIntoPostGroups(items) = more
      BY <1>9, <1>11
  <2> QED
      BY <2>2, <2>3, <2>4
<1> QED
    BY <1>10, <1>11

-----------------------------------------------------------------------------
(* What comes of a group, and what it says.                                *)
LEMMA FlatJoin ==
    ASSUME NEW S, NEW ss \in Seq(Seq(S)), NEW rr \in Seq(Seq(S))
    PROVE  FlattenSeq(ss \o rr) = FlattenSeq(ss) \o FlattenSeq(rr)
<1> DEFINE SS == Seq(S)
           Q == {r \in Seq(SS) : FlattenSeq(ss \o r) = FlattenSeq(ss) \o FlattenSeq(r)}
           none == <<>>
<1>1. none \in Q
  <2>1. none \in Seq(SS) /\ ss \o none = ss
      BY JoinEmpty
  <2>2. FlattenSeq(none) = none /\ FlattenSeq(ss) \in Seq(S)
      BY FlatEmpty, FlatTyped
  <2>3. FlattenSeq(ss) \o none = FlattenSeq(ss)
      BY <2>2, JoinEmpty
  <2> QED
      BY <2>1, <2>2, <2>3
<1>2. ASSUME NEW r \in Seq(SS), NEW x \in SS, r \in Q
      PROVE  Append(r, x) \in Q
  <2> DEFINE more == Append(r, x)
             all == ss \o r
  <2>1. all \in Seq(SS) /\ more \in Seq(SS)
      BY JoinTyped, AppendTyped
  <2>2. ss \o more = Append(all, x)
      BY JoinAppend
  <2>3. FlattenSeq(all) = FlattenSeq(ss) \o FlattenSeq(r)
      BY <1>2
  <2>4. FlattenSeq(more) = FlattenSeq(r) \o x
      BY FlatAppend
  <2> HIDE DEF all, more
  <2>5. FlattenSeq(Append(all, x)) = FlattenSeq(all) \o x
      BY <2>1, FlatAppend
  <2>6. FlattenSeq(ss) \in Seq(S) /\ FlattenSeq(r) \in Seq(S) /\ x \in Seq(S)
      BY FlatTyped
  <2>7. (FlattenSeq(ss) \o FlattenSeq(r)) \o x = FlattenSeq(ss) \o (FlattenSeq(r) \o x)
      BY <2>6, JoinAssociates
  <2>8. FlattenSeq(ss \o more) = FlattenSeq(ss) \o FlattenSeq(more)
      BY <2>2, <2>3, <2>4, <2>5, <2>7
  <2> QED
      BY <2>1, <2>8 DEF more
<1>3. rr \in Q
  <2> HIDE DEF Q, SS, none
  <2>1. none = <<>> /\ rr \in Seq(SS)
      BY DEF none, SS
  <2> QED
      BY <1>1, <1>2, <2>1, SeqsAll
<1> QED
    BY <1>3

Output == {Unchanged(r) : r \in Seq(QueryParam)} \cup {buildBatchPost(g) : g \in Group}

Saying == {Content(r) : r \in Seq(LineParam)}

Says == [item \in Item |-> Content(item.original)]

PostOf == [g \in Group |-> buildBatchPost(g)]

SaidBy == [o \in Output |-> EventsIn(o)]

Said(outs) == FlattenSeq(Mapped(SaidBy, outs))

LEMMA SaysTyped ==
    Says \in [Item -> Saying]
<1>1. ASSUME NEW item \in Item
      PROVE  Content(item.original) \in Saying
  <2>1. item.original \in Seq(LineParam)
      BY ItemIs, RequestIsLine
  <2> QED
      BY <2>1 DEF Saying
<1> QED
    BY <1>1 DEF Says

LEMMA SaysJoin ==
    ASSUME NEW a \in Seq(Item), NEW b \in Seq(Item)
    PROVE  Mapped(Says, a \o b) = Mapped(Says, a) \o Mapped(Says, b)
<1>1. MapsTo(Item, Saying, Says)
    BY SaysTyped DEF MapsTo
<1>2. Mapped(Says, Joined(a, b)) = Joined(Mapped(Says, a), Mapped(Says, b))
    BY <1>1, MapJoin
<1> QED
    BY <1>2 DEF Joined

LEMMA PostIs ==
    ASSUME NEW g \in Group
    PROVE  /\ buildBatchPost(g) \in Output
           /\ buildBatchPost(g).method = "POST" /\ buildBatchPost(g).lines = Lines(g)
           /\ sharedSignature(buildBatchPost(g).query) = g[1].signature
           /\ EventsIn(buildBatchPost(g)) = Mapped(Says, g)
<1> DEFINE post == buildBatchPost(g)
           first == g[1]
           request == first.original
<1>1. g \in Seq(Item) /\ 1 \in 1..Len(g) /\ Len(g) \in Nat
    BY DEF Group
<1>2. first \in Item
    BY <1>1
<1>3. post.method = "POST" /\ post.lines = Lines(g) /\ post.query = first.sharedPairs
    BY DEF buildBatchPost
<1>4. post \in Output
    BY DEF Output
<1> HIDE DEF post, first
<1>5. request \in Seq(LineParam) /\ first.sharedPairs = OfClass(request, "shared")
        /\ first.signature = sharedSignature(request)
    BY <1>2, ItemIs, RequestIsLine
<1> HIDE DEF request
<1>6. sharedSignature(first.sharedPairs) = first.signature
    BY <1>5, SharedSays
<1>7. EventsIn(post) = Mapped(Says, g)
  <2> DEFINE lines == Lines(g)
  <2>1. DOMAIN lines = DOMAIN g
      BY DEF Lines
  <2>2. ASSUME NEW i \in DOMAIN g
        PROVE  Content(lines[i]) = Says[g[i]]
    <3>1. g[i] \in Item
        BY <1>1, <2>2
    <3>2. lines[i] = buildBodyLine(g[i].perEventPairs)
        BY <2>2 DEF Lines
    <3> HIDE DEF lines
    <3>3. LineFor[g[i]] = buildBodyLine(g[i].perEventPairs)
            /\ Content(LineFor[g[i]]) = Content(g[i].original)
        BY <3>1, ItemLine
    <3> QED
        BY <3>1, <3>2, <3>3 DEF Says
  <2>3. EventsIn(post) = [l \in DOMAIN lines |-> Content(lines[l])]
      BY <1>3 DEF EventsIn
  <2> HIDE DEF lines
  <2>4. EventsIn(post) = [i \in DOMAIN g |-> Says[g[i]]]
      BY <2>1, <2>2, <2>3
  <2> QED
      BY <2>4 DEF Mapped
<1> QED
    BY <1>3, <1>4, <1>6, <1>7 DEF post, first

LEMMA AloneIs ==
    ASSUME NEW item \in Item
    PROVE  /\ Unchanged(item.original) \in Output
           /\ Unchanged(item.original).method = "GET"
           /\ sharedSignature(Unchanged(item.original).query) = item.signature
           /\ EventsIn(Unchanged(item.original)) = <<Says[item]>>
<1>1. item.original \in Seq(QueryParam) /\ item.signature = sharedSignature(item.original)
    BY ItemIs
<1>2. Unchanged(item.original) \in Output
    BY <1>1 DEF Output
<1>3. Unchanged(item.original).method = "GET" /\ Unchanged(item.original).query = item.original
    BY DEF Unchanged
<1>4. EventsIn(Unchanged(item.original)) = <<Content(item.original)>>
    BY <1>3 DEF EventsIn
<1> QED
    BY <1>1, <1>2, <1>3, <1>4 DEF Says

LEMMA EventsTyped ==
    SaidBy \in [Output -> Seq(Saying)]
<1>1. ASSUME NEW o \in Output
      PROVE  EventsIn(o) \in Seq(Saying)
  <2>1. ASSUME NEW r \in Seq(QueryParam), o = Unchanged(r)
        PROVE  EventsIn(o) \in Seq(Saying)
    <3>1. o.method = "GET" /\ o.query = r
        BY <2>1 DEF Unchanged
    <3>2. EventsIn(o) = <<Content(r)>>
        BY <3>1 DEF EventsIn
    <3>3. Content(r) \in Saying
        BY RequestIsLine DEF Saying
    <3> QED
        BY <3>2, <3>3
  <2>2. ASSUME NEW g \in Group, o = buildBatchPost(g)
        PROVE  EventsIn(o) \in Seq(Saying)
    <3>1. EventsIn(o) = Mapped(Says, g) /\ g \in Seq(Item)
        BY <2>2, PostIs DEF Group
    <3>2. MapIs(Saying, Says, g, Mapped(Says, g))
        BY <3>1, SaysTyped, MapTyped
    <3> QED
        BY <3>1, <3>2 DEF MapIs
  <2> QED
      BY <2>1, <2>2 DEF Output
<1> QED
    BY <1>1 DEF SaidBy

LEMMA EventSeqs ==
    ASSUME NEW outs \in Seq(Output)
    PROVE  Mapped(SaidBy, outs) \in Seq(Seq(Saying)) /\ Said(outs) \in Seq(Saying)
<1> DEFINE R == Seq(Saying)
<1>1. SaidBy \in [Output -> R]
    BY EventsTyped
<1> HIDE DEF R
<1>2. MapIs(R, SaidBy, outs, Mapped(SaidBy, outs))
    BY <1>1, MapTyped
<1>3. Mapped(SaidBy, outs) \in Seq(R)
    BY <1>2 DEF MapIs
<1>4. Mapped(SaidBy, outs) \in Seq(Seq(Saying))
    BY <1>3 DEF R
<1> QED
    BY <1>4, FlatTyped DEF Said

LEMMA SaidAppend ==
    ASSUME NEW outs \in Seq(Output), NEW o \in Output
    PROVE  Said(Append(outs, o)) = Said(outs) \o EventsIn(o)
<1> DEFINE R == Seq(Saying)
<1>1. SaidBy \in [Output -> R]
    BY EventsTyped
<1> HIDE DEF R
<1>2. Mapped(SaidBy, Append(outs, o)) = Append(Mapped(SaidBy, outs), SaidBy[o])
    BY <1>1, MapAppend
<1>3. Mapped(SaidBy, outs) \in Seq(Seq(Saying)) /\ SaidBy[o] \in Seq(Saying) /\ SaidBy[o] = EventsIn(o)
    BY EventSeqs, EventsTyped DEF SaidBy
<1>4. FlattenSeq(Append(Mapped(SaidBy, outs), SaidBy[o])) = FlattenSeq(Mapped(SaidBy, outs)) \o SaidBy[o]
    BY <1>3, FlatAppend
<1> QED
    BY <1>2, <1>3, <1>4 DEF Said

LEMMA PostsSay ==
    ASSUME NEW gs \in Seq(Group)
    PROVE  Mapped(PostOf, gs) \in Seq(Output) /\ Said(Mapped(PostOf, gs)) = Mapped(Says, FlattenSeq(gs))
<1> DEFINE Same(s) == Said(Mapped(PostOf, s)) = Mapped(Says, FlattenSeq(s))
           Q == {s \in Seq(Group) : Same(s)}
           none == <<>>
<1>1. PostOf \in [Group -> Output]
  <2>1. \A g \in Group : buildBatchPost(g) \in Output
      BY PostIs
  <2> QED
      BY <2>1 DEF PostOf
<1>2. ASSUME NEW s \in Seq(Group)
      PROVE  Mapped(PostOf, s) \in Seq(Output)
  <2>1. MapIs(Output, PostOf, s, Mapped(PostOf, s))
      BY <1>1, MapTyped
  <2> QED
      BY <2>1 DEF MapIs
<1>3. none \in Q
  <2>1. Mapped(PostOf, none) = none /\ Mapped(SaidBy, none) = none /\ Mapped(Says, none) = none
      BY MapEmpty
  <2>2. FlattenSeq(none) = none /\ none \in Seq(Group)
      BY FlatEmpty
  <2> HIDE DEF none
  <2>3. Same(none)
      BY <2>1, <2>2 DEF Said
  <2> QED
      BY <2>2, <2>3
<1>4. ASSUME NEW s \in Seq(Group), NEW g \in Group, s \in Q
      PROVE  Append(s, g) \in Q
  <2> DEFINE more == Append(s, g)
             outs == Mapped(PostOf, s)
             o == PostOf[g]
             flat == FlattenSeq(s)
  <2>1. Mapped(PostOf, more) = Append(outs, o)
      BY <1>1, MapAppend
  <2>2. outs \in Seq(Output) /\ o \in Output /\ o = buildBatchPost(g)
      BY <1>1, <1>2 DEF PostOf
  <2>3. Said(outs) = Mapped(Says, flat)
      BY <1>4
  <2>4. EventsIn(o) = Mapped(Says, g)
      BY <2>2, PostIs
  <2>5. g \in Seq(Item) /\ flat \in Seq(Item) /\ s \in Seq(Seq(Item))
      BY GroupSeqs DEF Group
  <2>6. FlattenSeq(more) = flat \o g
      BY <2>5, FlatAppend
  <2>7. more \in Seq(Group)
      BY AppendTyped
  <2> HIDE DEF more, outs, o, flat
  <2>8. Mapped(Says, flat \o g) = Mapped(Says, flat) \o Mapped(Says, g)
      BY <2>5, SaysJoin
  <2>9. Said(Append(outs, o)) = Said(outs) \o EventsIn(o)
      BY <2>2, SaidAppend
  <2>10. Same(more)
      BY <2>1, <2>3, <2>4, <2>6, <2>8, <2>9
  <2> HIDE DEF Same
  <2>11. more \in Q
      BY <2>7, <2>10
  <2> QED
      BY <2>11 DEF more
<1>5. gs \in Q
  <2> HIDE DEF Q, none
  <2>1. none = <<>>
      BY DEF none
  <2> QED
      BY <1>3, <1>4, <2>1, SeqsAll
<1> QED
    BY <1>2, <1>5

(* What SplitIsExact asks of an output, and of two in a row.               *)
PostOK(o) ==
    o.method = "POST" =>
      /\ Fits(o.lines) \/ Len(o.lines) = 1
      /\ \A l \in DOMAIN o.lines : Times(o.lines[l], EngagedEvent) = 1

InTurn(o, next) ==
    o.method = "POST" /\ next.method = "POST" /\ sharedSignature(next.query) = sharedSignature(o.query)
      => ~Fits(Append(o.lines, next.lines[1]))

WellSplit(outs) ==
    /\ \A k \in 1..Len(outs) : PostOK(outs[k])
    /\ \A j \in 1..Len(outs), k \in 1..Len(outs) : k = j + 1 => InTurn(outs[j], outs[k])

LEMMA PostFits ==
    ASSUME NEW g \in Group, OnePost(g)
    PROVE  PostOK(buildBatchPost(g))
<1> DEFINE o == buildBatchPost(g)
<1>1. o.lines = Lines(g)
    BY PostIs
<1>2. g \in Seq(Item)
    BY DEF Group
<1>3. Fits(Lines(g)) \/ Len(Lines(g)) = 1
    BY <1>2, GroupFits, LinesLen DEF OnePost
<1>4. ASSUME NEW l \in DOMAIN Lines(g)
      PROVE  Times(Lines(g)[l], EngagedEvent) = 1
  <2>1. l \in DOMAIN g /\ Lines(g)[l] = buildBodyLine(g[l].perEventPairs)
      BY <1>4 DEF Lines
  <2>2. g[l] \in Item
      BY <1>2, <2>1
  <2>3. LineFor[g[l]] = buildBodyLine(g[l].perEventPairs) /\ Times(LineFor[g[l]], EngagedEvent) = 1
      BY <2>2, ItemLine
  <2> QED
      BY <2>1, <2>3
<1> HIDE DEF o
<1>5. PostOK(o)
    BY <1>1, <1>3, <1>4 DEF PostOK
<1> QED
    BY <1>5 DEF o

LEMMA PostsInTurn ==
    ASSUME NEW g \in Group, NEW h \in Group, NoRoom(g, h)
    PROVE  InTurn(buildBatchPost(g), buildBatchPost(h))
<1> DEFINE o == buildBatchPost(g)
           p == buildBatchPost(h)
           first == h[1]
           more == Append(g, first)
<1>1. o.lines = Lines(g) /\ p.lines = Lines(h)
    BY PostIs
<1>2. g \in Seq(Item) /\ h \in Seq(Item) /\ 1 \in DOMAIN h
    BY DEF Group
<1>3. first \in Item
    BY <1>2
<1>4. Lines(h)[1] = LineFor[first]
  <2>1. Lines(h)[1] = buildBodyLine(first.perEventPairs)
      BY <1>2 DEF Lines
  <2> HIDE DEF first
  <2>2. LineFor[first] = buildBodyLine(first.perEventPairs)
      BY <1>3, ItemLine
  <2> QED
      BY <2>1, <2>2
<1>5. ~FitsOnePost(more)
    BY DEF NoRoom
<1> HIDE DEF first
<1>6. Lines(more) = Append(Lines(g), LineFor[first])
    BY <1>2, <1>3, LinesAppend
<1>7. more \in Seq(Item)
    BY <1>2, <1>3, AppendTyped
<1> HIDE DEF more, o, p
<1>8. ~Fits(Lines(more))
    BY <1>5, <1>7, GroupFits
<1>9. ~Fits(Append(o.lines, p.lines[1]))
    BY <1>1, <1>4, <1>6, <1>8
<1>10. InTurn(o, p)
    BY <1>9 DEF InTurn
<1> QED
    BY <1>10 DEF o, p

LEMMA PostsSplit ==
    ASSUME NEW gs \in Seq(Group), Packed(gs)
    PROVE  WellSplit(Mapped(PostOf, gs))
<1> DEFINE outs == Mapped(PostOf, gs)
<1>1. DOMAIN gs = 1..Len(gs) /\ Len(gs) \in Nat
    OBVIOUS
<1>2. Len(outs) = Len(gs)
    BY <1>1 DEF Mapped
<1>3. \A k \in 1..Len(gs) : gs[k] \in Group
    BY <1>1
<1>4. ASSUME NEW k \in 1..Len(gs)
      PROVE  outs[k] = buildBatchPost(gs[k])
    BY <1>1, <1>3 DEF Mapped, PostOf
<1> HIDE DEF outs
<1>5. ASSUME NEW k \in 1..Len(gs)
      PROVE  PostOK(outs[k])
  <2>1. gs[k] \in Group /\ OnePost(gs[k])
      BY <1>3 DEF Packed
  <2> QED
      BY <1>4, <2>1, PostFits
<1>6. ASSUME NEW j \in 1..Len(gs), NEW k \in 1..Len(gs), k = j + 1
      PROVE  InTurn(outs[j], outs[k])
  <2>1. gs[j] \in Group /\ gs[k] \in Group /\ NoRoom(gs[j], gs[k])
      BY <1>3, <1>6 DEF Packed
  <2>2. InTurn(buildBatchPost(gs[j]), buildBatchPost(gs[k]))
      BY <2>1, PostsInTurn
  <2> QED
      BY <1>4, <2>2
<1>7. WellSplit(outs)
    BY <1>2, <1>5, <1>6 DEF WellSplit
<1> QED
    BY <1>7 DEF outs

(* A group of one signature.                                               *)
OutputOf(signature) == {o \in Output : sharedSignature(o.query) = signature}

ItemOf(signature) == {item \in Item : item.signature = signature}

LEMMA SeqWithin ==
    ASSUME NEW S, NEW T, NEW s \in Seq(S), \A i \in 1..Len(s) : s[i] \in T
    PROVE  s \in Seq(T)
OBVIOUS

LEMMA FlatMembers ==
    ASSUME NEW S, NEW T, NEW ss \in Seq(Seq(S)), FlattenSeq(ss) \in Seq(T)
    PROVE  ss \in Seq(Seq(T))
<1> DEFINE SS == Seq(S)
           TT == Seq(T)
           Holds(r) == FlattenSeq(r) \in TT => r \in Seq(TT)
           Q == {r \in Seq(SS) : Holds(r)}
           none == <<>>
<1>1. none \in Q
    OBVIOUS
<1>2. ASSUME NEW r \in Seq(SS), NEW x \in SS, r \in Q
      PROVE  Append(r, x) \in Q
  <2> DEFINE more == Append(r, x)
             a == FlattenSeq(r)
             b == FlattenSeq(more)
  <2>1. b = a \o x /\ a \in Seq(S) /\ x \in Seq(S)
      BY FlatAppend, FlatTyped
  <2>2. more \in Seq(SS)
      BY AppendTyped
  <2>3. a \in TT => r \in Seq(TT)
      BY <1>2
  <2> HIDE DEF a, b
  <2>4. ASSUME b \in Seq(T)
        PROVE  a \in Seq(T) /\ x \in Seq(T)
    <3>1. Len(b) = Len(a) + Len(x) /\ Len(a) \in Nat /\ Len(x) \in Nat
        BY <2>1, JoinTyped
    <3>2. ASSUME NEW i \in 1..Len(a)
          PROVE  a[i] \in T
      <4>1. i \in 1..Len(b) /\ b[i] = a[i]
          BY <2>1, <3>1
      <4> QED
          BY <2>4, <4>1
    <3>3. ASSUME NEW i \in 1..Len(x)
          PROVE  x[i] \in T
      <4> DEFINE j == Len(a) + i
      <4>1. j \in 1..Len(b) /\ b[j] = x[i]
          BY <2>1, <3>1
      <4> HIDE DEF j
      <4> QED
          BY <2>4, <4>1
    <3>4. a \in Seq(T)
        BY <2>1, <3>2, SeqWithin
    <3>5. x \in Seq(T)
        BY <2>1, <3>3, SeqWithin
    <3> QED
        BY <3>4, <3>5
  <2>5. ASSUME b \in Seq(T)
        PROVE  more \in Seq(TT)
    <3>1. r \in Seq(TT) /\ x \in TT
        BY <2>3, <2>4, <2>5
    <3> HIDE DEF TT
    <3> QED
        BY <3>1, AppendTyped
  <2>6. Holds(more)
      BY <2>5 DEF b
  <2> HIDE DEF Holds
  <2>7. more \in Q
      BY <2>2, <2>6
  <2> QED
      BY <2>7 DEF more
<1>3. ss \in Q
  <2>1. none = <<>> /\ ss \in Seq(SS)
      OBVIOUS
  <2> HIDE DEF Q, none, SS
  <2> QED
      BY <1>1, <1>2, <2>1, SeqsAll
<1> QED
    BY <1>3

GroupIs(signature, items, outs) ==
    /\ outs \in Seq(OutputOf(signature))
    /\ Said(outs) = Mapped(Says, items)
    /\ Len(items) = 1 => outs = <<Unchanged(items[1].original)>>
    /\ WellSplit(outs)

LEMMA GroupOne ==
    ASSUME NEW signature, NEW items \in Seq(ItemOf(signature)), Len(items) = 1
    PROVE  GroupIs(signature, items, GroupOutputs(items))
<1> DEFINE item == items[1]
           o == Unchanged(item.original)
           outs == <<o>>
           none == <<>>
<1>1. item \in Item /\ item.signature = signature /\ items = <<item>>
    BY DEF ItemOf
<1>2. GroupOutputs(items) = outs
    BY DEF GroupOutputs
<1> HIDE DEF item
<1>3. o \in Output /\ o.method = "GET" /\ sharedSignature(o.query) = item.signature
        /\ EventsIn(o) = <<Says[item]>>
    BY <1>1, AloneIs
<1> HIDE DEF o
<1>4. outs \in Seq(OutputOf(signature))
    BY <1>1, <1>3 DEF OutputOf
<1>5. Said(outs) = <<Says[item]>>
  <2>1. none \in Seq(Output) /\ outs = Append(none, o)
      OBVIOUS
  <2>2. Said(none) = none
      BY MapEmpty, FlatEmpty DEF Said
  <2>3. Said(Append(none, o)) = Said(none) \o EventsIn(o)
      BY <1>3, <2>1, SaidAppend
  <2>4. none \o EventsIn(o) = EventsIn(o)
      BY <1>3
  <2> QED
      BY <1>3, <2>1, <2>2, <2>3, <2>4
<1>6. Mapped(Says, items) = <<Says[item]>>
    BY <1>1 DEF Mapped
<1>7. WellSplit(outs)
  <2>1. Len(outs) = 1 /\ outs[1] = o
      OBVIOUS
  <2> HIDE DEF outs
  <2>2. PostOK(o)
      BY <1>3 DEF PostOK
  <2> QED
      BY <2>1, <2>2 DEF WellSplit
<1>8. outs = <<Unchanged(items[1].original)>>
    BY DEF o, item
<1> HIDE DEF outs
<1> QED
    BY <1>2, <1>4, <1>5, <1>6, <1>7, <1>8 DEF GroupIs

LEMMA GroupMany ==
    ASSUME NEW signature, NEW items \in Seq(ItemOf(signature)), Len(items) # 1
    PROVE  GroupIs(signature, items, GroupOutputs(items))
<1> DEFINE gs == splitIntoPostGroups(items)
           outs == Mapped(PostOf, gs)
<1>1. items \in Seq(Item)
    BY DEF ItemOf
<1>2. gs \in Seq(Group) /\ FlattenSeq(gs) = items /\ Packed(gs)
    BY <1>1, SplitPacks
<1>3. GroupOutputs(items) = [k \in DOMAIN gs |-> buildBatchPost(gs[k])]
    BY DEF GroupOutputs
<1> HIDE DEF gs
<1>4. GroupOutputs(items) = outs
  <2>1. \A k \in DOMAIN gs : gs[k] \in Group
      BY <1>2
  <2>2. \A k \in DOMAIN gs : buildBatchPost(gs[k]) = PostOf[gs[k]]
      BY <2>1 DEF PostOf
  <2> QED
      BY <1>3, <2>2 DEF Mapped
<1>5. outs \in Seq(Output) /\ Said(outs) = Mapped(Says, items)
    BY <1>2, PostsSay
<1>6. WellSplit(outs)
    BY <1>2, PostsSplit
<1>7. gs \in Seq(Seq(ItemOf(signature)))
    BY <1>2, GroupSeqs, FlatMembers
<1>8. outs \in Seq(OutputOf(signature))
  <2>1. DOMAIN gs = 1..Len(gs) /\ Len(gs) \in Nat /\ DOMAIN outs = DOMAIN gs
      BY <1>2 DEF Mapped
  <2>2. ASSUME NEW k \in 1..Len(gs)
        PROVE  outs[k] \in OutputOf(signature)
    <3> DEFINE g == gs[k]
    <3>1. g \in Group /\ g \in Seq(ItemOf(signature))
        BY <1>2, <1>7
    <3>2. outs[k] = buildBatchPost(g)
        BY <2>1, <3>1 DEF Mapped, PostOf
    <3> HIDE DEF g, outs
    <3>3. 1 \in 1..Len(g)
        BY <3>1 DEF Group
    <3>4. g[1] \in ItemOf(signature)
        BY <3>1, <3>3
    <3>5. buildBatchPost(g) \in Output /\ sharedSignature(buildBatchPost(g).query) = g[1].signature
        BY <3>1, PostIs
    <3> QED
        BY <3>2, <3>4, <3>5 DEF OutputOf, ItemOf
  <2>3. Len(outs) = Len(gs)
      BY <1>5, <2>1
  <2> HIDE DEF outs
  <2> QED
      BY <1>5, <2>1, <2>2, <2>3
<1> HIDE DEF outs
<1> QED
    BY <1>4, <1>5, <1>6, <1>8 DEF GroupIs

-----------------------------------------------------------------------------
(* The groups, put in a row.                                               *)
LEMMA SelMap ==
    ASSUME NEW S, NEW R, NEW f, MapsTo(S, R, f), NEW T, NEW U, \A x \in S : f[x] \in T <=> x \in U,
           NEW s \in Seq(S)
    PROVE  Sel(Mapped(f, s), T) = Mapped(f, Sel(s, U))
<1> DEFINE Same(t) == Sel(Mapped(f, t), T) = Mapped(f, Sel(t, U))
           Q == {t \in Seq(S) : Same(t)}
           none == <<>>
<1>1. f \in [S -> R]
    BY DEF MapsTo
<1>2. none \in Q
  <2>1. Mapped(f, none) = none /\ Sel(none, T) = none /\ Sel(none, U) = none /\ none \in Seq(S)
      BY MapEmpty, SelEmpty
  <2> HIDE DEF none
  <2> QED
      BY <2>1
<1>3. ASSUME NEW t \in Seq(S), NEW x \in S, t \in Q
      PROVE  Append(t, x) \in Q
  <2> DEFINE more == Append(t, x)
             a == Mapped(f, t)
             b == Sel(t, U)
             y == f[x]
  <2>1. more \in Seq(S)
      BY AppendTyped
  <2>2. Mapped(f, more) = Append(a, y) /\ y \in R
      BY <1>1, MapAppend
  <2>3. a \in Seq(R)
      BY <1>1, MapTyped DEF MapIs
  <2>4. b \in Seq(S)
      BY SelTyped
  <2>5. Sel(a, T) = Mapped(f, b)
      BY <1>3
  <2>6. Sel(more, U) = IF x \in U THEN Append(b, x) ELSE b
      BY SelAppend
  <2>7. y \in T <=> x \in U
      OBVIOUS
  <2> HIDE DEF more, a, b
  <2>8. Mapped(f, Append(b, x)) = Append(Mapped(f, b), y)
      BY <1>1, <2>4, MapAppend
  <2> HIDE DEF y
  <2>9. Sel(Append(a, y), T) = IF y \in T THEN Append(Sel(a, T), y) ELSE Sel(a, T)
      BY <2>2, <2>3, SelAppend
  <2>10. Same(more)
      BY <2>2, <2>5, <2>6, <2>7, <2>8, <2>9
  <2> HIDE DEF Same
  <2>11. more \in Q
      BY <2>1, <2>10
  <2> QED
      BY <2>11 DEF more
<1>4. s \in Q
  <2>1. none = <<>>
      OBVIOUS
  <2> HIDE DEF Q, none
  <2> QED
      BY <1>2, <1>3, <2>1, SeqsAll
<1> QED
    BY <1>4

LEMMA SelMembers ==
    ASSUME NEW S, NEW s \in Seq(S), NEW T, NEW i \in 1..Len(Sel(s, T))
    PROVE  Sel(s, T)[i] \in ToSet(s)
<1> DEFINE M == ToSet(s)
           picked == Sel(s, T)
<1>1. s \in Seq(M)
  <2>1. \A k \in 1..Len(s) : s[k] \in ToSet(s)
      BY DEF ToSet
  <2> HIDE DEF M
  <2> QED
      BY <2>1, SeqWithin DEF M
<1> HIDE DEF M
<1>2. picked \in Seq(M)
    BY <1>1, SelTyped
<1>3. i \in 1..Len(picked)
    OBVIOUS
<1> HIDE DEF picked
<1>4. picked[i] \in M
    BY <1>2, <1>3
<1> QED
    BY <1>4 DEF picked, M

(* The first of each signature, in their order.                            *)
Firsts(parsed) ==
    {i \in DOMAIN parsed : \A j \in 1..(i - 1) : parsed[j].signature # parsed[i].signature}

HeadsAre(parsed, heads) ==
    /\ heads \in Seq(Item)
    /\ \A j \in 1..Len(heads), k \in 1..Len(heads) : heads[j].signature = heads[k].signature => j = k
    /\ \A i \in 1..Len(parsed) : \E k \in 1..Len(heads) : heads[k].signature = parsed[i].signature
    /\ \A k \in 1..Len(heads) : \E i \in 1..Len(parsed) : parsed[i].signature = heads[k].signature

LEMMA FirstsAppend ==
    ASSUME NEW s \in Seq(Item), NEW x \in Item
    PROVE  /\ \A k \in 1..Len(s) : k \in Firsts(Append(s, x)) <=> k \in Firsts(s)
           /\ Len(s) + 1 \in Firsts(Append(s, x))
                <=> \A j \in 1..Len(s) : s[j].signature # x.signature
<1> DEFINE more == Append(s, x)
           n == Len(s)
           m == n + 1
<1>1. n \in Nat /\ m \in Nat /\ m - 1 = n /\ DOMAIN s = 1..n /\ n = Len(s)
    OBVIOUS
<1>2. more \in Seq(Item) /\ Len(more) = m
    BY AppendTyped
<1>3. DOMAIN more = 1..m
    BY <1>2
<1>4. (\A i \in 1..n : more[i] = s[i]) /\ more[m] = x
    BY AppendAt
<1>5. m = n + 1
    OBVIOUS
<1> HIDE DEF more, m, n
<1>6. ASSUME NEW k \in 1..n
      PROVE  k \in Firsts(more) <=> k \in Firsts(s)
  <2>1. more[k] = s[k] /\ k \in 1..m /\ \A j \in 1..(k - 1) : more[j] = s[j]
      BY <1>1, <1>4, <1>5
  <2> QED
      BY <1>1, <1>3, <2>1 DEF Firsts
<1>7. m \in Firsts(more) <=> \A j \in 1..n : s[j].signature # x.signature
  <2>1. m \in 1..m
      BY <1>1, <1>5
  <2>2. m \in Firsts(more) <=> \A j \in 1..(m - 1) : more[j].signature # more[m].signature
      BY <1>3, <2>1 DEF Firsts
  <2> QED
      BY <1>1, <1>4, <2>2
<1> QED
    BY <1>6, <1>7 DEF more, m, n

LEMMA HeadsAppend ==
    ASSUME NEW s, NEW x \in Item, NEW heads, HeadsAre(s, heads), s \in Seq(Item),
           \A j \in 1..Len(s) : s[j].signature # x.signature
    PROVE  HeadsAre(Append(s, x), Append(heads, x))
<1> DEFINE more == Append(s, x)
           next == Append(heads, x)
           n == Len(s)
           h == Len(heads)
           m == n + 1
           g == h + 1
<1>1. n \in Nat /\ h \in Nat /\ n = Len(s) /\ h = Len(heads) /\ heads \in Seq(Item)
    BY DEF HeadsAre
<1>2. more \in Seq(Item) /\ Len(more) = m /\ next \in Seq(Item) /\ Len(next) = g
    BY <1>1, AppendTyped
<1>3. (\A i \in 1..n : more[i] = s[i]) /\ more[m] = x
    BY AppendAt
<1>4. (\A i \in 1..h : next[i] = heads[i]) /\ next[g] = x
    BY <1>1, AppendAt
<1>5. m = n + 1 /\ g = h + 1
    OBVIOUS
<1> HIDE DEF more, next, m, g, n, h
<1>6. \A k \in 1..h : \E i \in 1..n : s[i].signature = heads[k].signature
    BY <1>1 DEF HeadsAre
<1>7. \A k \in 1..h : heads[k].signature # x.signature
    BY <1>1, <1>6
<1>8. \A k \in 1..g : k \in 1..h \/ k = g
    BY <1>1, <1>5
<1>9. \A k \in 1..m : k \in 1..n \/ k = m
    BY <1>1, <1>5
<1>10. g \in 1..g /\ m \in 1..m /\ 1..h \subseteq 1..g /\ 1..n \subseteq 1..m
    BY <1>1, <1>5
<1>11. ASSUME NEW j \in 1..g, NEW k \in 1..g, next[j].signature = next[k].signature
       PROVE  j = k
  <2>1. \A a \in 1..h, b \in 1..h : heads[a].signature = heads[b].signature => a = b
      BY <1>1 DEF HeadsAre
  <2> QED
      BY <1>4, <1>7, <1>8, <1>11, <2>1
<1>12. ASSUME NEW i \in 1..m
       PROVE  \E k \in 1..g : next[k].signature = more[i].signature
  <2>1. CASE i = m
      BY <1>3, <1>4, <1>10, <2>1
  <2>2. CASE i \in 1..n
    <3>1. PICK k \in 1..h : heads[k].signature = s[i].signature
        BY <1>1, <2>2 DEF HeadsAre
    <3> QED
        BY <1>3, <1>4, <1>10, <2>2, <3>1
  <2> QED
      BY <1>9, <2>1, <2>2
<1>13. ASSUME NEW k \in 1..g
       PROVE  \E i \in 1..m : more[i].signature = next[k].signature
  <2>1. CASE k = g
      BY <1>3, <1>4, <1>10, <2>1
  <2>2. CASE k \in 1..h
    <3>1. PICK i \in 1..n : s[i].signature = heads[k].signature
        BY <1>6, <2>2
    <3> QED
        BY <1>3, <1>4, <1>10, <2>2, <3>1
  <2> QED
      BY <1>8, <2>1, <2>2
<1>14. HeadsAre(more, next)
    BY <1>2, <1>11, <1>12, <1>13 DEF HeadsAre
<1> QED
    BY <1>14 DEF more, next

LEMMA HeadsStay ==
    ASSUME NEW s, NEW x \in Item, NEW heads, HeadsAre(s, heads), s \in Seq(Item),
           NEW j \in 1..Len(s), s[j].signature = x.signature
    PROVE  HeadsAre(Append(s, x), heads)
<1> DEFINE more == Append(s, x)
           n == Len(s)
           m == n + 1
<1>1. n \in Nat /\ n = Len(s) /\ heads \in Seq(Item) /\ j \in 1..n
    BY DEF HeadsAre
<1>2. Len(more) = m
    BY AppendTyped
<1>3. (\A i \in 1..n : more[i] = s[i]) /\ more[m] = x
    BY AppendAt
<1>4. m = n + 1
    OBVIOUS
<1> HIDE DEF more, m, n
<1>5. ASSUME NEW i \in 1..m
      PROVE  \E k \in 1..Len(heads) : heads[k].signature = more[i].signature
  <2>1. CASE i = m
    <3>1. PICK k \in 1..Len(heads) : heads[k].signature = s[j].signature
        BY DEF HeadsAre
    <3> QED
        BY <1>3, <2>1, <3>1
  <2>2. CASE i # m
    <3>1. i \in 1..n
        BY <1>1, <1>4, <2>2
    <3>2. PICK k \in 1..Len(heads) : heads[k].signature = s[i].signature
        BY <1>1, <3>1 DEF HeadsAre
    <3> QED
        BY <1>3, <3>1, <3>2
  <2> QED
      BY <2>1, <2>2
<1>6. ASSUME NEW k \in 1..Len(heads)
      PROVE  \E i \in 1..m : more[i].signature = heads[k].signature
  <2>1. PICK i \in 1..n : s[i].signature = heads[k].signature
      BY <1>1 DEF HeadsAre
  <2>2. i \in 1..m
      BY <1>1, <1>4
  <2> QED
      BY <1>3, <2>1, <2>2
<1>7. HeadsAre(more, heads)
    BY <1>2, <1>5, <1>6 DEF HeadsAre
<1> QED
    BY <1>7 DEF more

LEMMA HeadsOf ==
    ASSUME NEW parsed \in Seq(Item)
    PROVE  HeadsAre(parsed, At(parsed, Firsts(parsed)))
<1> DEFINE Inv(s) == HeadsAre(s, At(s, Firsts(s)))
           Q == {s \in Seq(Item) : Inv(s)}
           none == <<>>
<1>1. none \in Q
  <2>1. none \in Seq(Item) /\ Len(none) = 0 /\ At(none, Firsts(none)) = none
      BY AtEmpty
  <2> HIDE DEF none
  <2>2. HeadsAre(none, none)
      BY <2>1 DEF HeadsAre
  <2> QED
      BY <2>1, <2>2
<1>2. ASSUME NEW s \in Seq(Item), NEW x \in Item, s \in Q
      PROVE  Append(s, x) \in Q
  <2> DEFINE more == Append(s, x)
             F == Firsts(more)
             heads == At(s, Firsts(s))
             n == Len(s)
             m == n + 1
  <2>1. more \in Seq(Item) /\ HeadsAre(s, heads)
      BY <1>2, AppendTyped
  <2>2. \A k \in 1..n : k \in F <=> k \in Firsts(s)
      BY FirstsAppend
  <2>3. m \in F <=> \A j \in 1..n : s[j].signature # x.signature
      BY FirstsAppend
  <2> HIDE DEF F
  <2>4. At(s, F) = heads
      BY <2>2, AtSame
  <2>5. At(more, F) = IF m \in F THEN Append(At(s, F), x) ELSE At(s, F)
      BY AtAppend
  <2> HIDE DEF heads
  <2>6. HeadsAre(more, At(more, F))
    <3>1. CASE m \in F
      <4>1. HeadsAre(Append(s, x), Append(heads, x))
          BY <2>1, <2>3, <3>1, HeadsAppend
      <4> QED
          BY <2>4, <2>5, <3>1, <4>1
    <3>2. CASE m \notin F
      <4>1. PICK j \in 1..n : s[j].signature = x.signature
          BY <2>3, <3>2
      <4>2. HeadsAre(Append(s, x), heads)
          BY <2>1, <4>1, HeadsStay
      <4> QED
          BY <2>4, <2>5, <3>2, <4>2
    <3> QED
        BY <3>1, <3>2
  <2> HIDE DEF more
  <2>7. Inv(more)
      BY <2>6 DEF F
  <2> HIDE DEF Inv
  <2>8. more \in Q
      BY <2>1, <2>7
  <2> QED
      BY <2>8 DEF more
<1>3. parsed \in Q
  <2>1. none = <<>>
      OBVIOUS
  <2> HIDE DEF Q, none
  <2> QED
      BY <1>1, <1>2, <2>1, SeqsAll
<1> QED
    BY <1>3

OutputOr(a, b) == sharedSignature(a.query) # sharedSignature(b.query)

LEMMA SplitJoin ==
    ASSUME NEW a \in Seq(Output), NEW b \in Seq(Output), WellSplit(a), WellSplit(b),
           \A i \in 1..Len(a), j \in 1..Len(b) : OutputOr(a[i], b[j])
    PROVE  WellSplit(a \o b)
<1> DEFINE c == a \o b
           n == Len(a)
           m == Len(b)
<1>1. n \in Nat /\ m \in Nat /\ Len(c) = n + m
    OBVIOUS
<1>2. \A i \in 1..n : c[i] = a[i]
    OBVIOUS
<1>3. \A i \in 1..m : c[n + i] = b[i]
    OBVIOUS
<1>4. n = Len(a) /\ m = Len(b)
    OBVIOUS
<1> HIDE DEF c, n, m
<1>5. ASSUME NEW k \in 1..Len(c), k \notin 1..n
      PROVE  \E i \in 1..m : c[k] = b[i] /\ k = n + i
  <2> DEFINE i == k - n
  <2>1. i \in 1..m /\ k = n + i
      BY <1>1, <1>5
  <2> HIDE DEF i
  <2> QED
      BY <1>3, <2>1
<1>6. ASSUME NEW k \in 1..Len(c)
      PROVE  PostOK(c[k])
  <2>1. CASE k \in 1..n
    <3>1. PostOK(a[k])
        BY <1>4, <2>1 DEF WellSplit
    <3> QED
        BY <1>2, <2>1, <3>1
  <2>2. CASE k \notin 1..n
    <3>1. PICK i \in 1..m : c[k] = b[i]
        BY <1>5, <2>2
    <3>2. PostOK(b[i])
        BY <1>4, <3>1 DEF WellSplit
    <3> QED
        BY <3>1, <3>2
  <2> QED
      BY <2>1, <2>2
<1>7. ASSUME NEW j \in 1..Len(c), NEW k \in 1..Len(c), k = j + 1
      PROVE  InTurn(c[j], c[k])
  <2>1. CASE k \in 1..n
    <3>1. j \in 1..n
        BY <1>1, <1>7, <2>1
    <3>2. InTurn(a[j], a[k])
        BY <1>4, <1>7, <2>1, <3>1 DEF WellSplit
    <3> QED
        BY <1>2, <2>1, <3>1, <3>2
  <2>2. CASE k \notin 1..n /\ j \in 1..n
    <3>1. PICK i \in 1..m : c[k] = b[i]
        BY <1>5, <2>2
    <3>2. OutputOr(a[j], b[i])
        BY <1>4, <2>2, <3>1
    <3>3. OutputOr(c[j], c[k])
        BY <1>2, <2>2, <3>1, <3>2
    <3> QED
        BY <3>3 DEF InTurn, OutputOr
  <2>3. CASE j \notin 1..n
    <3>1. k \notin 1..n
        BY <1>1, <1>7, <2>3
    <3>2. PICK x \in 1..m : c[j] = b[x] /\ j = n + x
        BY <1>5, <2>3
    <3>3. PICK y \in 1..m : c[k] = b[y] /\ k = n + y
        BY <1>5, <3>1
    <3>4. y = x + 1
        BY <1>1, <1>7, <3>2, <3>3
    <3>5. InTurn(b[x], b[y])
        BY <1>4, <3>4 DEF WellSplit
    <3> QED
        BY <3>2, <3>3, <3>5
  <2> QED
      BY <2>1, <2>2, <2>3
<1>8. WellSplit(c)
    BY <1>6, <1>7 DEF WellSplit
<1> QED
    BY <1>8 DEF c

(* The first n groups' outputs in a row.                                   *)
Among(sigs, n) == {o \in Output : \E h \in 1..n : sharedSignature(o.query) = sigs[h]}

Rows(sigs, cs) ==
    /\ cs \in Seq(Seq(Output))
    /\ Len(sigs) = Len(cs)
    /\ \A h \in 1..Len(cs) : cs[h] \in Seq(OutputOf(sigs[h])) /\ WellSplit(cs[h])
    /\ \A j \in 1..Len(cs), k \in 1..Len(cs) : sigs[j] = sigs[k] => j = k

Gathered(sigs, cs, n, outs) ==
    /\ outs \in Seq(Among(sigs, n))
    /\ WellSplit(outs)
    /\ \A h \in 1..n : Sel(outs, OutputOf(sigs[h])) = cs[h]

LEMMA AmongOutput ==
    ASSUME NEW sigs, NEW n, NEW outs \in Seq(Among(sigs, n))
    PROVE  outs \in Seq(Output)
<1>1. Among(sigs, n) \subseteq Output
    BY DEF Among
<1> QED
    BY <1>1

LEMMA Gather ==
    ASSUME NEW sigs, NEW cs, Rows(sigs, cs), NEW n \in Nat, NEW m \in 1..Len(cs), m = n + 1,
           NEW outs, Gathered(sigs, cs, n, outs)
    PROVE  Gathered(sigs, cs, m, outs \o cs[m])
<1> DEFINE c == cs[m]
           more == outs \o c
           O == OutputOf(sigs[m])
<1>1. c \in Seq(O) /\ WellSplit(c) /\ c \in Seq(Output)
    BY DEF Rows
<1>2. outs \in Seq(Among(sigs, n)) /\ WellSplit(outs) /\ outs \in Seq(Output)
    BY AmongOutput DEF Gathered
<1>3. m \in 1..m /\ 1..n \subseteq 1..m /\ m \notin 1..n /\ \A h \in 1..m : h \in 1..n \/ h = m
    OBVIOUS
<1>4. \A h \in 1..n : h \in 1..Len(cs) /\ sigs[h] # sigs[m]
  <2>1. Len(cs) \in Nat
      BY DEF Rows
  <2>2. \A h \in 1..n : h \in 1..Len(cs)
      BY <2>1
  <2> QED
      BY <1>3, <2>2 DEF Rows
<1> HIDE DEF c
<1>5. more \in Seq(Among(sigs, m))
  <2> DEFINE A == Among(sigs, m)
  <2>1. Among(sigs, n) \subseteq A /\ O \subseteq A
      BY <1>3 DEF Among, OutputOf
  <2> HIDE DEF A, O
  <2>2. outs \in Seq(A) /\ c \in Seq(A)
      BY <1>1, <1>2, <2>1
  <2>3. outs \o c \in Seq(A)
      BY <2>2, JoinTyped
  <2> QED
      BY <2>3 DEF A
<1>6. WellSplit(more)
  <2>1. ASSUME NEW i \in 1..Len(outs), NEW j \in 1..Len(c)
        PROVE  OutputOr(outs[i], c[j])
    <3>1. outs[i] \in Among(sigs, n)
        BY <1>2
    <3>2. c[j] \in O
        BY <1>1
    <3> QED
        BY <1>4, <3>1, <3>2 DEF Among, OutputOf, OutputOr
  <2> QED
      BY <1>1, <1>2, <2>1, SplitJoin
<1>7. ASSUME NEW h \in 1..m
      PROVE  Sel(more, OutputOf(sigs[h])) = cs[h]
  <2> DEFINE T == OutputOf(sigs[h])
             a == Sel(outs, T)
             b == Sel(c, T)
  <2>0. Sel(Joined(outs, c), T) = Joined(a, b)
      BY <1>1, <1>2, SelJoin
  <2>1. Sel(more, T) = a \o b
      BY <2>0 DEF Joined
  <2>2. CASE h = m
    <3>1. Among(sigs, n) \cap T = {}
        BY <1>4, <2>2 DEF Among, OutputOf
    <3>2. c \in Seq(T)
        BY <1>1, <2>2
    <3> HIDE DEF T
    <3>3. a = <<>>
        BY <1>2, <3>1, SelNone
    <3>4. b = c
        BY <3>2, SelAll
    <3>5. a \o b = c
        BY <1>1, <3>3, <3>4, JoinEmpty
    <3> QED
        BY <2>1, <2>2, <3>5 DEF T, c
  <2>3. CASE h \in 1..n
    <3>1. O \cap T = {}
        BY <1>4, <2>3 DEF OutputOf
    <3>2. a = cs[h]
        BY <2>3 DEF Gathered
    <3> HIDE DEF T, O
    <3>3. b = <<>>
        BY <1>1, <3>1, SelNone
    <3>4. a \in Seq(Output)
        BY <1>2, SelTyped
    <3>5. a \o b = a
        BY <3>3, <3>4, JoinEmpty
    <3> QED
        BY <2>1, <3>2, <3>5 DEF T
  <2> QED
      BY <1>3, <2>2, <2>3
<1> HIDE DEF more
<1>8. Gathered(sigs, cs, m, more)
    BY <1>5, <1>6, <1>7 DEF Gathered
<1> QED
    BY <1>8 DEF more, c

LEMMA GatherAll ==
    ASSUME NEW sigs, NEW cs, Rows(sigs, cs)
    PROVE  Gathered(sigs, cs, Len(cs), FlattenSeq(cs))
<1> DEFINE S == Seq(Output)
           last == Len(cs)
           Row(n) == FlattenSeq(Prefix(cs, n))
           Inv(n) == Prefix(cs, n) \in Seq(S) /\ Gathered(sigs, cs, n, Row(n))
           N == {n \in Nat : n <= last => Inv(n)}
<1>1. cs \in Seq(S) /\ last \in Nat
    BY DEF Rows
<1>2. 0 \in N
  <2> DEFINE none == <<>>
  <2>1. Prefix(cs, 0) = none
      BY DEF Prefix
  <2>2. none \in Seq(S) /\ none \in Seq(Among(sigs, 0)) /\ Len(none) = 0 /\ FlattenSeq(none) = none
      BY FlatEmpty
  <2> HIDE DEF none, S
  <2>3. WellSplit(none)
      BY <2>2 DEF WellSplit
  <2>4. Gathered(sigs, cs, 0, none)
      BY <2>2, <2>3 DEF Gathered
  <2>5. Inv(0)
      BY <2>1, <2>2, <2>4
  <2> HIDE DEF Inv
  <2> QED
      BY <2>5
<1>3. ASSUME NEW n \in Nat, n \in N
      PROVE  n + 1 \in N
  <2> DEFINE m == n + 1
             p == Prefix(cs, n)
             q == Prefix(cs, m)
             c == cs[m]
  <2> SUFFICES ASSUME m <= last
               PROVE  Inv(m)
      OBVIOUS
  <2>1. m \in 1..last /\ n <= last /\ m = n + 1
      BY <1>1
  <2>2. p \in Seq(S) /\ Gathered(sigs, cs, n, FlattenSeq(p))
      BY <1>3, <2>1
  <2> HIDE DEF m
  <2>3. Prefix(cs, m) = Append(Prefix(cs, n), cs[m]) /\ cs[m] \in S
    <3> HIDE DEF S
    <3> QED
        BY <1>1, <2>1, PrefixNext
  <2>4. q = Append(p, c) /\ c \in S
      BY <2>3
  <2>5. Gathered(sigs, cs, m, FlattenSeq(p) \o cs[m])
      BY <2>1, <2>2, Gather
  <2> HIDE DEF p, q, c
  <2>6. FlattenSeq(Append(p, c)) = FlattenSeq(p) \o c
      BY <2>2, <2>4, FlatAppend
  <2>7. Gathered(sigs, cs, m, FlattenSeq(q))
      BY <2>4, <2>5, <2>6 DEF c
  <2> HIDE DEF S
  <2>8. q \in Seq(S)
      BY <2>2, <2>4, AppendTyped
  <2> QED
      BY <2>7, <2>8 DEF q
<1> HIDE DEF N
<1>4. last \in N
    BY <1>1, <1>2, <1>3, NumbersAll
<1>5. Inv(last)
    BY <1>1, <1>4 DEF N
<1>6. Prefix(cs, last) = cs
    BY <1>1, PrefixWhole
<1> QED
    BY <1>5, <1>6

-----------------------------------------------------------------------------
(* The coalescing of a batch is exact.                                     *)
Ga4Request == Seq(QueryParam)

Parse == [r \in Ga4Request |-> parseRequest(r)]

RequestOf(signature) == {r \in Ga4Request : sharedSignature(r) = signature}

Mine(requests, signature) ==
    At(requests, {j \in DOMAIN requests : sharedSignature(requests[j]) = signature})

LEMMA ParseTyped ==
    MapsTo(Ga4Request, Item, Parse)
<1>1. \A r \in Ga4Request : parseRequest(r) \in Item
    BY DEF Item, Ga4Request
<1>2. Parse \in [Ga4Request -> Item]
    BY <1>1 DEF Parse
<1> QED
    BY <1>2 DEF MapsTo

LEMMA MineIs ==
    ASSUME NEW requests \in Seq(Ga4Request), NEW signature
    PROVE  Mine(requests, signature) = Sel(requests, RequestOf(signature))
<1>1. \A j \in DOMAIN requests : requests[j] \in Ga4Request
    OBVIOUS
<1>2. {j \in DOMAIN requests : sharedSignature(requests[j]) = signature}
        = {j \in DOMAIN requests : requests[j] \in RequestOf(signature)}
    BY <1>1 DEF RequestOf
<1> QED
    BY <1>2 DEF Mine, Sel

LEMMA OfSignatureIs ==
    ASSUME NEW parsed \in Seq(Item), NEW signature
    PROVE  OfSignature(parsed, signature) = Sel(parsed, ItemOf(signature))
<1>1. \A i \in DOMAIN parsed : parsed[i] \in Item
    OBVIOUS
<1>2. {i \in DOMAIN parsed : parsed[i].signature = signature}
        = {i \in DOMAIN parsed : parsed[i] \in ItemOf(signature)}
    BY <1>1 DEF ItemOf
<1> QED
    BY <1>2 DEF OfSignature, Sel

LEMMA GroupMine ==
    ASSUME NEW requests \in Seq(Ga4Request), NEW signature
    PROVE  /\ Mapped(Parse, requests) \in Seq(Item)
           /\ OfSignature(Mapped(Parse, requests), signature) = Mapped(Parse, Mine(requests, signature))
           /\ OfSignature(Mapped(Parse, requests), signature) \in Seq(ItemOf(signature))
           /\ Mine(requests, signature) \in Seq(Ga4Request)
<1> DEFINE parsed == Mapped(Parse, requests)
           T == ItemOf(signature)
           U == RequestOf(signature)
<1>1. Parse \in [Ga4Request -> Item]
    BY ParseTyped DEF MapsTo
<1>2. parsed \in Seq(Item)
    BY <1>1, MapTyped DEF MapIs
<1>3. \A r \in Ga4Request : Parse[r] \in T <=> r \in U
  <2> TAKE r \in Ga4Request
  <2>1. Parse[r] \in Item /\ Parse[r] = parseRequest(r)
      BY <1>1 DEF Parse
  <2>2. parseRequest(r).signature = sharedSignature(r)
      BY DEF parseRequest
  <2> QED
      BY <2>1, <2>2 DEF ItemOf, RequestOf
<1>4. Mine(requests, signature) = Sel(requests, U)
    BY MineIs
<1>5. OfSignature(parsed, signature) = Sel(parsed, T)
    BY <1>2, OfSignatureIs
<1> HIDE DEF T, U
<1>6. Sel(parsed, T) = Mapped(Parse, Sel(requests, U))
    BY <1>3, ParseTyped, SelMap
<1>7. Sel(requests, U) \in Seq(Ga4Request)
    BY SelTyped
<1> HIDE DEF parsed
<1>8. Sel(parsed, T) \in Seq(T)
    BY <1>2, SelTyped
<1> QED
    BY <1>2, <1>4, <1>5, <1>6, <1>7, <1>8 DEF parsed, T

LEMMA SaysParse ==
    ASSUME NEW mine \in Seq(Ga4Request)
    PROVE  Mapped(Says, Mapped(Parse, mine)) = [k \in DOMAIN mine |-> Content(mine[k])]
<1> DEFINE items == Mapped(Parse, mine)
<1>1. DOMAIN items = DOMAIN mine
    BY DEF Mapped
<1>2. ASSUME NEW k \in DOMAIN mine
      PROVE  Says[items[k]] = Content(mine[k])
  <2>1. mine[k] \in Ga4Request
      BY <1>2
  <2>2. items[k] = parseRequest(mine[k])
      BY <1>2, <2>1 DEF Mapped, Parse
  <2>3. items[k] \in Item
      BY <2>1, <2>2 DEF Item, Ga4Request
  <2>4. items[k].original = mine[k]
      BY <2>2 DEF parseRequest
  <2> HIDE DEF items
  <2> QED
      BY <2>3, <2>4 DEF Says
<1> HIDE DEF items
<1>3. Mapped(Says, items) = [k \in DOMAIN mine |-> Content(mine[k])]
    BY <1>1, <1>2 DEF Mapped
<1> QED
    BY <1>3 DEF items

LEMMA EventsOfIs ==
    ASSUME NEW outs \in Seq(Output), NEW signature
    PROVE  EventsOf(outs, signature) = Said(Sel(outs, OutputOf(signature)))
<1> DEFINE mine == At(outs, {o \in DOMAIN outs : sharedSignature(outs[o].query) = signature})
<1>1. \A o \in DOMAIN outs : outs[o] \in Output
    OBVIOUS
<1>2. {o \in DOMAIN outs : sharedSignature(outs[o].query) = signature}
        = {o \in DOMAIN outs : outs[o] \in OutputOf(signature)}
    BY <1>1 DEF OutputOf
<1>3. mine = Sel(outs, OutputOf(signature))
    BY <1>2 DEF Sel
<1>4. EventsOf(outs, signature) = FlattenSeq([k \in DOMAIN mine |-> EventsIn(mine[k])])
    BY DEF EventsOf
<1> HIDE DEF mine
<1>5. mine \in Seq(Output)
    BY <1>3, SelTyped
<1>6. \A k \in DOMAIN mine : mine[k] \in Output
    BY <1>5
<1>7. \A k \in DOMAIN mine : SaidBy[mine[k]] = EventsIn(mine[k])
    BY <1>6 DEF SaidBy
<1>8. [k \in DOMAIN mine |-> EventsIn(mine[k])] = Mapped(SaidBy, mine)
    BY <1>7 DEF Mapped
<1> QED
    BY <1>3, <1>4, <1>8 DEF Said

HeadsIn(parsed) == At(parsed, Firsts(parsed))

SignaturesOf(heads) == [h \in DOMAIN heads |-> heads[h].signature]

OutputsOf(parsed, heads) ==
    [h \in DOMAIN heads |-> GroupOutputs(OfSignature(parsed, heads[h].signature))]

LEMMA OutputOfIn ==
    ASSUME NEW signature, NEW outs \in Seq(OutputOf(signature))
    PROVE  outs \in Seq(Output)
<1>1. OutputOf(signature) \subseteq Output
    BY DEF OutputOf
<1> QED
    BY <1>1

LEMMA GroupOf ==
    ASSUME NEW parsed \in Seq(Item), NEW signature
    PROVE  GroupIs(signature, OfSignature(parsed, signature),
                   GroupOutputs(OfSignature(parsed, signature)))
<1> DEFINE items == OfSignature(parsed, signature)
           T == ItemOf(signature)
<1>1. items = Sel(parsed, T)
    BY OfSignatureIs
<1> HIDE DEF items, T
<1>2. items \in Seq(T)
    BY <1>1, SelTyped
<1>3. GroupIs(signature, items, GroupOutputs(items))
    BY <1>2, GroupOne, GroupMany DEF T
<1> QED
    BY <1>3 DEF items

LEMMA CoalesceRows ==
    ASSUME NEW parsed \in Seq(Item), NEW heads, HeadsAre(parsed, heads)
    PROVE  Rows(SignaturesOf(heads), OutputsOf(parsed, heads))
<1> DEFINE sigs == SignaturesOf(heads)
           cs == OutputsOf(parsed, heads)
           n == Len(heads)
<1>1. heads \in Seq(Item) /\ DOMAIN heads = 1..n /\ n \in Nat
    BY DEF HeadsAre
<1>2. Len(sigs) = n /\ \A h \in 1..n : sigs[h] = heads[h].signature
    BY <1>1 DEF SignaturesOf
<1>3. /\ Len(cs) = n /\ DOMAIN cs = 1..n
      /\ \A h \in 1..n : cs[h] = GroupOutputs(OfSignature(parsed, heads[h].signature))
    BY <1>1 DEF OutputsOf
<1>4. cs = [h \in 1..n |-> cs[h]]
    BY <1>1 DEF OutputsOf
<1> HIDE DEF cs, sigs
<1>5. ASSUME NEW h \in 1..n
      PROVE  cs[h] \in Seq(OutputOf(sigs[h])) /\ WellSplit(cs[h]) /\ cs[h] \in Seq(Output)
  <2> DEFINE signature == heads[h].signature
  <2>1. sigs[h] = signature /\ cs[h] = GroupOutputs(OfSignature(parsed, signature))
      BY <1>2, <1>3
  <2> HIDE DEF signature
  <2>2. GroupIs(signature, OfSignature(parsed, signature), cs[h])
      BY <2>1, GroupOf
  <2>3. cs[h] \in Seq(OutputOf(signature)) /\ WellSplit(cs[h])
      BY <2>2 DEF GroupIs
  <2>4. cs[h] \in Seq(Output)
      BY <2>3, OutputOfIn
  <2> QED
      BY <2>1, <2>3, <2>4
<1>6. cs \in Seq(Seq(Output))
  <2> DEFINE S == Seq(Output)
  <2>1. \A h \in 1..n : cs[h] \in S
      BY <1>5
  <2> HIDE DEF S
  <2>2. cs \in Seq(S)
      BY <1>1, <1>4, <2>1
  <2> QED
      BY <2>2 DEF S
<1>7. ASSUME NEW j \in 1..n, NEW k \in 1..n, sigs[j] = sigs[k]
      PROVE  j = k
    BY <1>2, <1>7 DEF HeadsAre
<1>8. Rows(sigs, cs)
    BY <1>2, <1>3, <1>5, <1>6, <1>7 DEF Rows
<1> QED
    BY <1>8 DEF sigs, cs

(* What the coalescing of requests gives, of each of their signatures.     *)
Coalesced(requests, outs) ==
    /\ outs \in Seq(Output) /\ WellSplit(outs)
    /\ \A i \in 1..Len(requests) :
         GroupIs(sharedSignature(requests[i]),
                 Mapped(Parse, Mine(requests, sharedSignature(requests[i]))),
                 Sel(outs, OutputOf(sharedSignature(requests[i]))))
    /\ \A o \in 1..Len(outs) :
         \E i \in 1..Len(requests) : sharedSignature(outs[o].query) = sharedSignature(requests[i])

LEMMA CoalesceIs ==
    ASSUME NEW requests \in Seq(Ga4Request)
    PROVE  Coalesced(requests, coalesceGa4(requests))
<1> DEFINE parsed == Mapped(Parse, requests)
           heads == HeadsIn(parsed)
           sigs == SignaturesOf(heads)
           cs == OutputsOf(parsed, heads)
           outs == FlattenSeq(cs)
           n == Len(heads)
<1>1. coalesceGa4(requests) = outs
  <2>1. \A i \in DOMAIN requests : requests[i] \in Ga4Request
      OBVIOUS
  <2>2. \A i \in DOMAIN requests : Parse[requests[i]] = parseRequest(requests[i])
      BY <2>1 DEF Parse
  <2>3. [i \in DOMAIN requests |-> parseRequest(requests[i])] = parsed
      BY <2>2 DEF Mapped
  <2> DEFINE all == [i \in DOMAIN requests |-> parseRequest(requests[i])]
  <2>4. coalesceGa4(requests) = FlattenSeq(OutputsOf(all, HeadsIn(all)))
      BY DEF coalesceGa4, HeadsIn, Firsts, OutputsOf
  <2> HIDE DEF parsed, all
  <2>5. all = parsed
      BY <2>3 DEF all
  <2> QED
      BY <2>4, <2>5
<1>2. parsed \in Seq(Item)
    BY GroupMine
<1>3. /\ Len(parsed) = Len(requests)
      /\ \A i \in 1..Len(requests) : parsed[i].signature = sharedSignature(requests[i])
  <2>1. Parse \in [Ga4Request -> Item]
      BY ParseTyped DEF MapsTo
  <2>2. MapIs(Item, Parse, requests, parsed)
      BY <2>1, MapTyped
  <2>3. \A i \in 1..Len(requests) : requests[i] \in Ga4Request
      OBVIOUS
  <2>4. \A r \in Ga4Request : Parse[r].signature = sharedSignature(r)
      BY DEF Parse, parseRequest
  <2> HIDE DEF parsed
  <2> QED
      BY <2>2, <2>3, <2>4 DEF MapIs
<1>4. \A signature : OfSignature(parsed, signature) = Mapped(Parse, Mine(requests, signature))
    BY GroupMine
<1> HIDE DEF parsed
<1>5. HeadsAre(parsed, heads)
    BY <1>2, HeadsOf DEF HeadsIn
<1> HIDE DEF heads
<1>6. Rows(sigs, cs)
    BY <1>2, <1>5, CoalesceRows
<1>7. heads \in Seq(Item) /\ DOMAIN heads = 1..n /\ n \in Nat
    BY <1>5 DEF HeadsAre
<1>8. \A h \in 1..n : sigs[h] = heads[h].signature
    BY <1>7 DEF SignaturesOf
<1>9. \A h \in 1..n : cs[h] = GroupOutputs(OfSignature(parsed, heads[h].signature))
    BY <1>7 DEF OutputsOf
<1>10. Len(cs) = n
    BY <1>7 DEF OutputsOf
<1> HIDE DEF sigs, cs
<1>11. Gathered(sigs, cs, n, outs)
    BY <1>6, <1>10, GatherAll
<1> HIDE DEF outs
<1>12. outs \in Seq(Among(sigs, n)) /\ WellSplit(outs) /\ outs \in Seq(Output)
    BY <1>11, AmongOutput DEF Gathered
<1>13. ASSUME NEW i \in 1..Len(requests)
       PROVE  GroupIs(sharedSignature(requests[i]),
                      Mapped(Parse, Mine(requests, sharedSignature(requests[i]))),
                      Sel(outs, OutputOf(sharedSignature(requests[i]))))
  <2> DEFINE signature == sharedSignature(requests[i])
             items == OfSignature(parsed, signature)
  <2>1. signature = parsed[i].signature
      BY <1>3
  <2>2. PICK h \in 1..n : heads[h].signature = signature
      BY <1>3, <1>5, <2>1 DEF HeadsAre
  <2>3. items = Mapped(Parse, Mine(requests, signature))
      BY <1>4
  <2> HIDE DEF signature
  <2>4. cs[h] = GroupOutputs(items) /\ sigs[h] = signature
      BY <1>8, <1>9, <2>2
  <2>5. GroupIs(signature, items, GroupOutputs(items))
      BY <1>2, GroupOf
  <2>6. Sel(outs, OutputOf(sigs[h])) = cs[h]
      BY <1>11 DEF Gathered
  <2> HIDE DEF items
  <2>7. GroupIs(signature, Mapped(Parse, Mine(requests, signature)), Sel(outs, OutputOf(signature)))
      BY <2>3, <2>4, <2>5, <2>6
  <2> QED
      BY <2>7 DEF signature
<1>14. ASSUME NEW o \in 1..Len(outs)
       PROVE  \E i \in 1..Len(requests) : sharedSignature(outs[o].query) = sharedSignature(requests[i])
  <2>1. outs[o] \in Among(sigs, n)
      BY <1>12
  <2>2. PICK h \in 1..n : sharedSignature(outs[o].query) = sigs[h]
      BY <2>1 DEF Among
  <2>3. PICK i \in 1..Len(parsed) : parsed[i].signature = heads[h].signature
      BY <1>5, <2>2 DEF HeadsAre
  <2>4. i \in 1..Len(requests) /\ sharedSignature(requests[i]) = heads[h].signature
      BY <1>3, <2>3
  <2> QED
      BY <1>8, <2>2, <2>4
<1>15. Coalesced(requests, outs)
    BY <1>12, <1>13, <1>14 DEF Coalesced
<1> QED
    BY <1>1, <1>15

LEMMA CoalesceExact ==
    ASSUME NEW requests \in Seq(Ga4Request)
    PROVE  SplitIsExact(requests, coalesceGa4(requests))
<1> DEFINE outs == coalesceGa4(requests)
           posts == {o \in DOMAIN outs : outs[o].method = "POST"}
<1>1. Coalesced(requests, outs)
    BY CoalesceIs
<1> HIDE DEF outs
<1>2. outs \in Seq(Output) /\ DOMAIN outs = 1..Len(outs) /\ Len(outs) \in Nat /\ WellSplit(outs)
    BY <1>1 DEF Coalesced
<1>3. DOMAIN requests = 1..Len(requests)
    OBVIOUS
<1>4. ASSUME NEW i \in DOMAIN requests
      PROVE  LET signature == sharedSignature(requests[i])
                 mine == At(requests, {j \in DOMAIN requests :
                                        sharedSignature(requests[j]) = signature}) IN
               /\ EventsOf(outs, signature) = [k \in DOMAIN mine |-> Content(mine[k])]
               /\ Len(mine) = 1 => [method |-> "GET", query |-> mine[1], lines |-> <<>>] \in ToSet(outs)
  <2> DEFINE signature == sharedSignature(requests[i])
             mine == Mine(requests, signature)
             items == Mapped(Parse, mine)
             part == Sel(outs, OutputOf(signature))
  <2>1. GroupIs(signature, items, part)
      BY <1>1, <1>3 DEF Coalesced
  <2> HIDE DEF signature
  <2>2. mine \in Seq(Ga4Request)
      BY GroupMine
  <2>3. EventsOf(outs, signature) = Said(part)
      BY <1>2, EventsOfIs
  <2>4. mine = At(requests, {j \in DOMAIN requests : sharedSignature(requests[j]) = signature})
      BY DEF Mine
  <2> HIDE DEF mine
  <2>5. Mapped(Says, items) = [k \in DOMAIN mine |-> Content(mine[k])]
      BY <2>2, SaysParse
  <2>6. ASSUME Len(mine) = 1
        PROVE  [method |-> "GET", query |-> mine[1], lines |-> <<>>] \in ToSet(outs)
    <3> DEFINE first == mine[1]
    <3>1. 1 \in 1..Len(mine) /\ DOMAIN mine = 1..Len(mine)
        BY <2>2, <2>6
    <3>2. first \in Ga4Request
        BY <2>2, <3>1
    <3>3. Len(items) = 1 /\ items[1] = parseRequest(mine[1])
        BY <2>2, <2>6, <3>2, <3>1 DEF Mapped, Parse
    <3> HIDE DEF items
    <3>4. items[1].original = mine[1]
        BY <3>3 DEF parseRequest
    <3>5. part = <<Unchanged(mine[1])>>
        BY <2>1, <3>3, <3>4 DEF GroupIs
    <3>6. 1 \in 1..Len(part) /\ part[1] = Unchanged(mine[1])
        BY <3>5
    <3>7. part[1] \in ToSet(outs)
        BY <1>2, <3>6, SelMembers
    <3> QED
        BY <3>6, <3>7 DEF Unchanged
  <2> HIDE DEF items, part
  <2>7. EventsOf(outs, signature) = [k \in DOMAIN mine |-> Content(mine[k])]
      BY <2>1, <2>3, <2>5 DEF GroupIs
  <2> QED
      BY <2>4, <2>6, <2>7 DEF signature
<1>5. {sharedSignature(o.query) : o \in ToSet(outs)}
        \subseteq {sharedSignature(r) : r \in ToSet(requests)}
  <2>1. ASSUME NEW o \in ToSet(outs)
        PROVE  \E r \in ToSet(requests) : sharedSignature(o.query) = sharedSignature(r)
    <3>1. PICK k \in 1..Len(outs) : o = outs[k]
        BY <1>2 DEF ToSet
    <3>2. PICK i \in 1..Len(requests) : sharedSignature(outs[k].query) = sharedSignature(requests[i])
        BY <1>1 DEF Coalesced
    <3>3. requests[i] \in ToSet(requests)
        BY <1>3 DEF ToSet
    <3> QED
        BY <3>1, <3>2, <3>3
  <2> QED
      BY <2>1
<1>6. ASSUME NEW o \in posts
      PROVE  /\ Fits(outs[o].lines) \/ Len(outs[o].lines) = 1
             /\ \A l \in DOMAIN outs[o].lines : Times(outs[o].lines[l], EngagedEvent) = 1
             /\ o + 1 \in posts
                  /\ sharedSignature(outs[o + 1].query) = sharedSignature(outs[o].query)
                => ~Fits(Append(outs[o].lines, outs[o + 1].lines[1]))
  <2>1. o \in 1..Len(outs) /\ outs[o].method = "POST"
      BY <1>2
  <2>2. PostOK(outs[o])
      BY <1>2, <2>1 DEF WellSplit
  <2>3. ASSUME o + 1 \in posts,
               sharedSignature(outs[o + 1].query) = sharedSignature(outs[o].query)
        PROVE  ~Fits(Append(outs[o].lines, outs[o + 1].lines[1]))
    <3> DEFINE k == o + 1
    <3>1. k \in 1..Len(outs) /\ outs[k].method = "POST" /\ k = o + 1
            /\ sharedSignature(outs[k].query) = sharedSignature(outs[o].query)
        BY <1>2, <2>3
    <3> HIDE DEF k
    <3>2. InTurn(outs[o], outs[k])
        BY <1>2, <2>1, <3>1 DEF WellSplit
    <3>3. ~Fits(Append(outs[o].lines, outs[k].lines[1]))
        BY <2>1, <3>1, <3>2 DEF InTurn
    <3> QED
        BY <3>3 DEF k
  <2> QED
      BY <2>1, <2>2, <2>3 DEF PostOK
<1>7. SplitIsExact(requests, outs)
    BY <1>4, <1>5, <1>6 DEF SplitIsExact, Fits
<1> QED
    BY <1>7 DEF outs

-----------------------------------------------------------------------------
(* A reply's GA4 requests go out as their events, each once, unaltered and *)
(* in order among those that share their parameters, in posts within GA4's *)
(* limits and none closed that had room for the next of its group, for any *)
(* batch and any limits: coalesceGa4 (connectors/ga4/coalesce.js), its     *)
(* grouping by signature, its lines and its split.                         *)
THEOREM EventsGoOutOnce == MappersSpec => []SplitWithinLimits
<1>1. MappersInit => SplitWithinLimits
    BY DEF MappersInit, SplitWithinLimits
<1>2. SplitWithinLimits /\ [MappersNext]_mappersVars => SplitWithinLimits'
  <2> SUFFICES ASSUME SplitWithinLimits, [MappersNext]_mappersVars
               PROVE  SplitWithinLimits'
      OBVIOUS
  <2>1. ASSUME NEW requests \in Batches, Coalesce(requests)
        PROVE  SplitWithinLimits'
    <3>1. requests \in Seq(Ga4Request)
        BY MappersAssumption DEF Ga4Request
    <3>2. SplitIsExact(requests, coalesceGa4(requests))
        BY <3>1, CoalesceExact
    <3>3. call'.requests = requests /\ out' = coalesceGa4(requests)
        BY <2>1 DEF Coalesce
    <3>4. SplitIsExact(call'.requests, out')
        BY <3>2, <3>3
    <3> QED
        BY <3>4 DEF SplitWithinLimits
  <2>2. ASSUME NEW heap, NEW denylist, Govern(heap, denylist)
        PROVE  SplitWithinLimits'
      BY <2>2 DEF Govern, SplitWithinLimits
  <2>3. ASSUME NEW entry, NEW event, NEW request, NEW k, NEW consentDefault, NEW now, NEW cookie,
               Release(entry, event, request, k, consentDefault, now, cookie)
        PROVE  SplitWithinLimits'
      BY <2>3 DEF Release, SplitWithinLimits
  <2>4. ASSUME NEW entry, NEW consent, NEW consentDefault, NEW page, NEW event,
               Serve(entry, consent, consentDefault, page, event)
        PROVE  SplitWithinLimits'
      BY <2>4 DEF Serve, SplitWithinLimits
  <2>5. CASE UNCHANGED mappersVars
      BY <2>5 DEF mappersVars, SplitWithinLimits
  <2> QED
      BY <2>1, <2>2, <2>3, <2>4, <2>5 DEF MappersNext
<1> QED
    BY <1>1, <1>2, PTL DEF MappersSpec
==============================================================================
