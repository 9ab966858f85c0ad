--------------------------- MODULE MCConsentBoot ---------------------------
(***************************************************************************)
(* Instances of ConsentBoot for TLC: GA4 and an advertising connector.     *)
(***************************************************************************)
EXTENDS ConsentBoot, TLC

OneConnector  == 1 :> {"analytics_storage"}
TwoConnectors == 1 :> {"analytics_storage"} @@ 2 :> {"ad_storage"}

(* "1" is strictly necessary and always active.                            *)
SiteGroups == {"1", "2", "4"}
SiteMap    == "1" :> {} @@ "2" :> {"analytics_storage"} @@ "4" :> {"ad_storage"}
SiteActive == {{"1"}, {"1", "2"}, {"1", "2", "4"}}
=============================================================================
