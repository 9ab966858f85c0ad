----------------------------- MODULE MCAirlock -----------------------------
(***************************************************************************)
(* Instances of Airlock for TLC, after the connectors adapters/eds boots.  *)
(***************************************************************************)
EXTENDS AirlockSeal, TLC

(* Two requests an event: the Measurement Protocol with two trackers, the  *)
(* second one at an endpoint the host did not declare.                     *)
TwoFormsOf == [t \in Types |-> <<"a", "b">>]
TwoDest    == "a" :> "ga4" @@ "b" :> "other"
TwoRemap   == "a" :> NoBeacon @@ "b" :> NoBeacon

(* Floodlight: a page view fans out to two forms, another name maps to     *)
(* nothing. The re-map rebuilds the one and strays with the other.         *)
FloodFormsOf == "view" :> <<"f1", "f2">> @@ "click" :> <<>>
FloodDest    == "f1" :> "ccm" @@ "f2" :> "activity"
StrayRemap   == "f1" :> "ccm" @@ "f2" :> "other"

NoMerge    == [d \in {"ga4", "other", "ccm", "activity"} |-> {d}]
StrayMerge == "ga4" :> {"ga4", "other"} @@ "other" :> {"other"}
UnitBytes  == [t \in Types |-> 1]

(* Consent signals, in the spellings the resolution has to tell apart.     *)
analyticsPending == "analytics_storage" :> "unset"
analyticsGranted == "analytics_storage" :> "granted"
adGranted        == "ad_storage" :> "GRANTED"
adDenied         == "ad_storage" :> "denied"
analyticsUpdates == {analyticsGranted, analyticsPending}
adUpdates        == {adGranted, adDenied}
=============================================================================
