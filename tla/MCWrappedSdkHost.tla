-------------------------- MODULE MCWrappedSdkHost --------------------------
(***************************************************************************)
(* Instances of WrappedSdkHost for TLC.                                    *)
(***************************************************************************)
EXTENDS WrappedSdkHost, TLC

allPending  == <<>>
allGranted  == "analytics_storage" :> "granted" @@ "personalization" :> "granted"
noAnalytics == "analytics_storage" :> "denied"
noPersonal  == "analytics_storage" :> "granted" @@ "personalization" :> "denied"

grantedOnly      == {allGranted}
pendingOrGranted == {allPending, allGranted}

grants      == {allGranted, noAnalytics}
mixed       == {noPersonal, noAnalytics}
=============================================================================
