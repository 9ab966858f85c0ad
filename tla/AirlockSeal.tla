---------------------------- MODULE AirlockSeal ----------------------------
(***************************************************************************)
(* The runtime implements the seal: the refinement mapping from Airlock to *)
(* EgressSeal.                                                             *)
(***************************************************************************)
EXTENDS Airlock

SealKeys == (-MaxCritical..(MaxPushes - 1)) \X Forms

TimesSent(k) == Cardinality({i \in DOMAIN egressed : k \in egressed[i].keys})

Seal == INSTANCE EgressSeal WITH
            Keys    <- SealKeys,
            open    <- SealVerdict = "send",
            pending <- InTransit \cup Held,
            sends   <- [k \in SealKeys |-> TimesSent(k)]

(* Every run of the runtime is a run of the seal: each fetch carries only  *)
(* what was accepted and not sent before, in a state whose verdict on it   *)
(* is "send", over rings, batches, holds, flushes, crashes and unload.     *)
ImplementsSeal == Seal!Spec
=============================================================================
