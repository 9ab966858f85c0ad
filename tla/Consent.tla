------------------------------ MODULE Consent ------------------------------
(***************************************************************************)
(* The consent vector and the seal's verdict on it (core/consent.js).      *)
(* Nothing here has state: the runtime that owns a vector (core/airlock.js,*)
(* core/wrapped-sdk-host.js) reads it through these two operators only.    *)
(*                                                                         *)
(* A vector is a partial function from purpose names to whatever the host  *)
(* put there; RawSignal holds one representative of every spelling the     *)
(* resolution tells apart.                                                 *)
(***************************************************************************)

CONSENT_PURPOSES == {"analytics_storage", "ad_storage", "ad_user_data",
                     "ad_personalization", "functional", "personalization"}

ConsentState == {"pending", "denied", "granted"}

Verdict == {"send", "hold", "drop"}

RawSignal == {"granted", "GRANTED", "denied", "DENIED", "unset"}

(* Every partial vector over the purposes P with values in S. *)
VectorsOver(P, S) == UNION {[D -> S] : D \in SUBSET P}

ConsentVector == VectorsOver(CONSENT_PURPOSES, RawSignal)

(* An unknown purpose, an absent entry and an unreadable value are all     *)
(* "pending": the resolution fails closed, and it ignores case.            *)
resolveConsent(vector, purpose) ==
    IF purpose \notin CONSENT_PURPOSES \/ purpose \notin DOMAIN vector
    THEN "pending"
    ELSE CASE vector[purpose] \in {"granted", "GRANTED"} -> "granted"
           [] vector[purpose] \in {"denied", "DENIED"}   -> "denied"
           [] OTHER                                      -> "pending"

SomePurposeIs(vector, purposes, state) ==
    \E p \in purposes : resolveConsent(vector, p) = state

(* One verdict for a beacon governed by a set of purposes: the worst wins  *)
(* (send < hold < drop). In a strict regime anything short of a grant is a *)
(* drop; otherwise a pending purpose holds, and a denied one holds only    *)
(* for a connector that opted in.                                          *)
egressVerdict(vector, purposes, strict, holdOnDenied) ==
    CASE strict /\ \E p \in purposes : resolveConsent(vector, p) # "granted"
            -> "drop"
      [] ~strict /\ \/ SomePurposeIs(vector, purposes, "pending")
                    \/ holdOnDenied /\ SomePurposeIs(vector, purposes, "denied")
            -> "hold"
      [] OTHER -> "send"

(* { ...vector, ...update }: entries of the update win. *)
MergeConsent(vector, update) ==
    [p \in DOMAIN vector \cup DOMAIN update |->
        IF p \in DOMAIN update THEN update[p] ELSE vector[p]]
=============================================================================
