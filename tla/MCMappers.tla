----------------------------- MODULE MCMappers -----------------------------
(***************************************************************************)
(* The calls of Mappers for TLC.                                           *)
(***************************************************************************)
EXTENDS Mappers, TLC

(* Requests that share their parameters in either order, one that does not,*)
(* events of three sizes, one larger than a post, and every sequence of up *)
(* to five of them; a post holds two events, of 18 bytes.                  *)
Pair(k, n) == [key |-> k, bytes |-> n]

GaRequests ==
    {<<Pair("tid", 4), Pair("cid", 5), Pair("en", 3)>>,
     <<Pair("cid", 5), Pair("tid", 4), Pair("en", 2)>>,
     <<Pair("tid", 4), Pair("_et", 3), Pair("cid", 5), Pair("en", 2)>>,
     <<Pair("tid", 4), Pair("cid", 5), Pair("en", 3), Pair("ep.a", 20)>>,
     <<Pair("tid", 4), Pair("cid", 6), Pair("en", 3)>>}

GaBatches == UNION {[1..n -> GaRequests] : n \in 1..5}

(* Payloads of up to three objects, two keys each: one name in one spelling*)
(* or in two, one object under two names, a getter that throws.            *)
F(n, s, v) == [name |-> n, spelling |-> s, value |-> v]

Values == {Scalar, Throws, 2, 3}
Tops == {<<F("u", "u", v)>> : v \in Values}
          \cup {<<F("u", "u", v), F("u", "U", w)>> : v, w \in Values}
          \cup {<<F("p", "P", v), F("u", "u", w)>> : v, w \in Values}
Mids == {<<>>, <<F("p", "p", Scalar), F("p", "P", Scalar)>>, <<F("q", "q", Throws), F("p", "p", 3)>>,
         <<F("p", "P", Scalar), F("u", "u", 3)>>}
Leaves == {<<>>, <<F("p", "p", Scalar), F("q", "q", Scalar)>>}

Payloads == {<<top, mid, leaf>> : top \in Tops, mid \in Mids, leaf \in Leaves}

Name(n) == [dotted |-> FALSE, segments |-> <<n>>]
Path(segments) == [dotted |-> TRUE, segments |-> segments]

SiteDenylists ==
    {<<>>, <<Name("p")>>, <<Path(<<"u", "p">>)>>, <<Path(<<"u", "u", "p">>), Name("q")>>,
     <<Path(<<"u">>), Path(<<"u", "p">>), Path(<<"p", "p">>)>>,
     <<Path(<<"u", "p", "q">>), Path(<<"u", "p">>), Name("u")>>}

(* Every connector, as a site would configure it and as it would not.      *)
Blank == [type |-> "none", vendor |-> "none", pixelId |-> Omitted, partnerId |-> Omitted,
    tagId |-> Omitted, measurementId |-> Omitted, conversionId |-> Omitted, rate |-> Omitted,
    weight |-> Omitted, bundleUrl |-> Omitted, datastreamId |-> Omitted, datastream |-> Omitted,
    edgeConfigId |-> Omitted, placements |-> Omitted, endpoint |-> Omitted, endpoints |-> Omitted,
    collectBaseURL |-> Omitted, src |-> Omitted, activityEndpoint |-> Omitted,
    activityType |-> Omitted, cat |-> Omitted]

Box(s, h) == [scope |-> s, selector |-> "div", minHeight |-> h]

Google ==
    {[Blank EXCEPT !.type = "google-ads", !.conversionId = "AW", !.endpoint = "own"],
     [Blank EXCEPT !.type = "floodlight", !.conversionId = "DC", !.endpoint = "own", !.src = "s",
                   !.cat = "c"],
     [Blank EXCEPT !.type = "floodlight", !.conversionId = "DC", !.src = "s",
                   !.activityEndpoint = "own", !.activityType = "t"]}

Ids == {Omitted, "", WrongType, "id"}

SiteEntries == Google
    \cup {[Blank EXCEPT !.type = t, !.conversionId = i] : t \in {"google-ads", "floodlight"}, i \in Ids}
    \cup {[Blank EXCEPT !.type = "ga4", !.endpoints = e] : e \in {Omitted, <<>>, <<"one", "two">>}}
    \cup {[Blank EXCEPT !.type = "ga4-gtag", !.measurementId = i] : i \in Ids}
    \cup {[Blank EXCEPT !.type = "pixel", !.vendor = v, !.pixelId = i, !.tagId = "t",
                        !.partnerId = i] :
             v \in {"none", "meta", "linkedin", "bing"}, i \in {Omitted, "id"}}
    \cup {[Blank EXCEPT !.type = "helix-rum", !.rate = r, !.weight = w, !.collectBaseURL = b] :
             r \in {Omitted, "high"}, w \in {Omitted, 0, 5, WrongType}, b \in {Omitted, "own", BadUrl}}
    \cup {[Blank EXCEPT !.type = "alloy", !.bundleUrl = u, !.edgeConfigId = d, !.placements = p] :
             u, d \in {Omitted, "a"},
             p \in {Omitted, <<Box("hero", 0)>>, <<Box("hero", 1), Box("hero", 2)>>}}

SiteDefaults == [meta |-> "meta", linkedin |-> "linkedin", bing |-> "bing", ga4 |-> "mp",
    activity |-> "activity", alloy |-> "edge"] @@
    ("ga4-gtag" :> "collect" @@ "google-ads" :> "ccm" @@ "floodlight" :> "dc" @@ "helix-rum" :> "rum"
       @@ "pixel" :> "none" @@ "none" :> "none")

(* What a config may say, and every vector in which storage for advertising*)
(* is granted.                                                             *)
SiteConsents == {Omitted, <<>>, [p \in GCD_PURPOSES |-> "denied"], [p \in GCD_PURPOSES |-> "granted"],
    [ad_storage |-> "DENIED", analytics_storage |-> "granted"]}

GrantedLater == {[ad_storage |-> "granted"] @@ v :
    v \in UNION {[D -> {"granted", "denied"}] : D \in SUBSET (GCD_PURPOSES \ {"ad_storage"})}}

Denials == {Omitted, [p \in GCD_PURPOSES |-> "denied"],
            [ad_storage |-> "granted", analytics_storage |-> "denied"]}

At_(c, l, s) == [cookie |-> c, landing |-> l, clientId |-> "cid", sessionId |-> s]

SitePages == {At_("A", [gclid |-> "g"], "sid"), At_("B", NoLanding, Omitted),
              At_("junk", [gclid |-> "g", dclid |-> "d"], "sid")}

SiteEvents == {[type |-> t, payload |-> p] :
    t \in {"page_view", "lead", "cwv", "sign_up"},
    p \in {<<>>, [page_location |-> "url", name |-> "LCP", value |-> "42"]}}
  \cup {[type |-> "purchase", payload |-> p] :
    p \in {[transaction_id |-> "1", currency |-> "EUR", items |-> "i", value |-> "42"],
           [transaction_id |-> "1", currency |-> "EUR", items |-> "i", value |-> "junk"]}}
=============================================================================
