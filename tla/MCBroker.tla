------------------------------ MODULE MCBroker ------------------------------
(***************************************************************************)
(* Instances of CoalescingBroker for TLC: four chambers minting for one    *)
(* datastream, one for another, and a request that is not a mint.          *)
(***************************************************************************)
EXTENDS BrokerRegister, TLC

CONSTANTS c1, c2, c3, c4, c5, c6

MCCalls   == {c1, c2, c3, c4, c5, c6}
MCMintKey == c1 :> "ds1" @@ c2 :> "ds1" @@ c3 :> "ds1" @@ c4 :> "ds1"
                @@ c5 :> "ds2" @@ c6 :> NoKey
=============================================================================
