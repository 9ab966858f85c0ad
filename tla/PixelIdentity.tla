--------------------------- MODULE PixelIdentity ---------------------------
(***************************************************************************)
(* Advanced matching of the pixel connector: raw identity goes into the    *)
(* chamber (core/pixel-chamber.worker.js), is normalized and hashed there  *)
(* (connectors/pixel/advanced-matching.js), and the hashes come back to    *)
(* the main thread's cache (core/airlock.js), for the beacons of unload.   *)
(*                                                                         *)
(* Each field is hashed on its own, asynchronously, and WebCrypto answers  *)
(* in any order. The messages of either direction stay in order, and a     *)
(* batch is mapped in microtasks, between which no digest arrives.         *)
(***************************************************************************)
EXTENDS Naturals, Sequences

CONSTANTS
    ADVANCED_MATCHING_FIELDS, \* the fields with a normalizer
    OtherFields,   \* other keys a host may pass
    Raw,           \* raw values
    Normalize,     \* [Raw -> normalized]: what every normalizer makes of one
    BootIdentity,  \* identities config.advancedMatching may give the init message
    HostIdentity,  \* identities setIdentity() may be called with
    MaxIdentities, \* bound: setIdentity() calls
    MaxBeacons     \* bound: batches, and critical events

Fields   == ADVANCED_MATCHING_FIELDS \cup OtherFields
Identity == UNION {[fs -> Raw] : fs \in SUBSET Fields}

ASSUME PixelAssumption ==
    /\ ADVANCED_MATCHING_FIELDS \cap OtherFields = {}
    /\ DOMAIN Normalize = Raw
    /\ BootIdentity \subseteq Identity /\ HostIdentity \subseteq Identity
    /\ {MaxIdentities, MaxBeacons} \subseteq Nat

VARIABLES
    subtle,         \* the chamber's realm has SubtleCrypto
    toChamber,      \* messages to the chamber
    hashing,        \* the chamber's digests under way: [field, raw, nth]
    identityHashes, \* the chamber's hashes: [field, hash] with one hash a field
    toMain,         \* messages to the main thread
    identityCache,  \* its hashes
    beacons,        \* ud[...] of the requests the main thread has had to send
    identities, batches, \* counters
    latest,         \* history: field -> the last value the chamber was given
    overtaken       \* history: those whose last value came while an older one was hashing

pixelVars == <<subtle, toChamber, hashing, identityHashes, toMain, identityCache,
               beacons, identities, batches, latest, overtaken>>

(* A hash, or its absence. SHA-256 is one-way and, for what is told apart  *)
(* here, collision free.                                                   *)
Hash   == [hash : {Normalize[r] : r \in Raw}]
NoHash == [none |-> "none"]
Hashes == [ADVANCED_MATCHING_FIELDS -> Hash \cup {NoHash}]

PixelTypeOK ==
    /\ subtle \in BOOLEAN
    /\ \A k \in DOMAIN toChamber : toChamber[k].type \in {"identity", "events"}
    /\ \A h \in hashing : h.field \in Fields /\ h.raw \in Raw /\ h.nth \in Nat
    /\ identityHashes \in Hashes /\ identityCache \in Hashes
    /\ \A k \in DOMAIN toMain :
         \/ toMain[k].type = "identity" /\ toMain[k].field \in ADVANCED_MATCHING_FIELDS
                                        /\ toMain[k].hex \in Hash
         \/ toMain[k].type = "ready" /\ toMain[k].ud \in Hashes
    /\ beacons \subseteq Hashes
    /\ identities \in 0..MaxIdentities /\ batches \in 0..MaxBeacons

NoHashes == [f \in ADVANCED_MATCHING_FIELDS |-> NoHash]

(* createAirlock() posts init, with the boot's own identity if it has one. *)
PixelInit ==
    /\ subtle \in BOOLEAN
    /\ \E raw \in BootIdentity : toChamber = <<[type |-> "identity", raw |-> raw, nth |-> 0]>>
    /\ hashing = {} /\ identityHashes = NoHashes /\ toMain = <<>>
    /\ identityCache = NoHashes /\ beacons = {}
    /\ identities = 0 /\ batches = 0 /\ latest = <<>> /\ overtaken = {}
-----------------------------------------------------------------------------
(* The host.                                                               *)

setIdentity ==
    /\ identities < MaxIdentities
    /\ \E raw \in HostIdentity :
         toChamber' = Append(toChamber,
                        [type |-> "identity", raw |-> raw, nth |-> identities + 1])
    /\ identities' = identities + 1
    /\ UNCHANGED <<subtle, hashing, identityHashes, toMain, identityCache, beacons,
                   batches, latest, overtaken>>

sendEvents ==
    /\ batches < MaxBeacons
    /\ toChamber' = Append(toChamber, [type |-> "events"])
    /\ batches' = batches + 1
    /\ UNCHANGED <<subtle, hashing, identityHashes, toMain, identityCache, beacons,
                   identities, latest, overtaken>>

(* A critical event at unload: mapped, and merged, on the main thread.     *)
pushCritical ==
    /\ batches < MaxBeacons
    /\ batches' = batches + 1
    /\ beacons' = beacons \cup {identityCache}
    /\ UNCHANGED <<subtle, toChamber, hashing, identityHashes, toMain, identityCache,
                   identities, latest, overtaken>>
-----------------------------------------------------------------------------
(* The chamber.                                                            *)

(* ingestIdentity(): a digest is started for each field that has a value.  *)
ingestIdentity ==
    /\ toChamber # <<>> /\ Head(toChamber).type = "identity"
    /\ LET raw == Head(toChamber).raw IN
         /\ hashing' = hashing \cup
              {[field |-> f, raw |-> raw[f], nth |-> Head(toChamber).nth] : f \in DOMAIN raw}
         /\ latest' = [f \in DOMAIN latest \cup DOMAIN raw |->
                         IF f \in DOMAIN raw THEN raw[f] ELSE latest[f]]
         /\ overtaken' = (overtaken \ DOMAIN raw)
              \cup {f \in DOMAIN raw : \E h \in hashing : h.field = f}
    /\ toChamber' = Tail(toChamber)
    /\ UNCHANGED <<subtle, identityHashes, toMain, identityCache, beacons, identities,
                   batches>>

(* A chamber that keeps the first hash of a field.                         *)
KeepFirst(hashes, f, hex) ==
    IF hashes[f] = NoHash THEN [hashes EXCEPT ![f] = hex] ELSE hashes

(* identityHashes[field] = hex                                             *)
Stored(hashes, f, hex) == [hashes EXCEPT ![f] = hex]

(* hashField() answers: nothing for a field without a normalizer, an error *)
(* without SubtleCrypto; else the hash is kept and posted.                 *)
digestSettles ==
    \E h \in hashing :
        /\ hashing' = hashing \ {h}
        /\ IF h.field \in ADVANCED_MATCHING_FIELDS /\ subtle
           THEN LET hex == [hash |-> Normalize[h.raw]] IN
                /\ identityHashes' = Stored(identityHashes, h.field, hex)
                /\ toMain' = Append(toMain,
                               [type |-> "identity", field |-> h.field, hex |-> hex])
           ELSE UNCHANGED <<identityHashes, toMain>>
        /\ UNCHANGED <<subtle, toChamber, identityCache, beacons, identities, batches,
                       latest, overtaken>>

(* An events message: its requests, each with the hashes there are.        *)
routeBatch ==
    /\ toChamber # <<>> /\ Head(toChamber).type = "events"
    /\ toChamber' = Tail(toChamber)
    /\ toMain' = Append(toMain, [type |-> "ready", ud |-> identityHashes])
    /\ UNCHANGED <<subtle, hashing, identityHashes, identityCache, beacons, identities,
                   batches, latest, overtaken>>
-----------------------------------------------------------------------------
(* A cache that is never renewed.                                          *)
CachedOnce(cache, f, hex) == KeepFirst(cache, f, hex)

(* identityCache[field] = hex                                              *)
Cached(cache, f, hex) == [cache EXCEPT ![f] = hex]

(* worker.onmessage of the main thread.                                    *)
onChamberMessage ==
    /\ toMain # <<>>
    /\ toMain' = Tail(toMain)
    /\ LET m == Head(toMain) IN
         IF m.type = "identity"
         THEN identityCache' = Cached(identityCache, m.field, m.hex) /\ UNCHANGED beacons
         ELSE beacons' = beacons \cup {m.ud} /\ UNCHANGED identityCache
    /\ UNCHANGED <<subtle, toChamber, hashing, identityHashes, identities, batches,
                   latest, overtaken>>

PixelNext == \/ setIdentity \/ sendEvents \/ pushCritical
             \/ ingestIdentity \/ digestSettles \/ routeBatch \/ onChamberMessage

PixelSpec == PixelInit /\ [][PixelNext]_pixelVars
-----------------------------------------------------------------------------
(* The main thread's cache once it has handled the first k messages.       *)
CacheAfter(k) ==
    [f \in ADVANCED_MATCHING_FIELDS |->
       LET of == {i \in 1..k : toMain[i].type = "identity" /\ toMain[i].field = f} IN
         IF of = {} THEN identityCache[f]
         ELSE toMain[CHOOSE i \in of : \A j \in of : j <= i].hex]

(* The two caches never part: with what is on its way the main thread's is *)
(* the chamber's, and a batch arrives after the very hashes it was merged  *)
(* with, so no beacon of unload identifies the visitor by less, or by      *)
(* something older, than a beacon the page has already sent.               *)
CachesAgree ==
    /\ CacheAfter(Len(toMain)) = identityHashes
    /\ \A k \in DOMAIN toMain : toMain[k].type = "ready" => toMain[k].ud = CacheAfter(k)

(* The chamber ends up with the last value it was given of each field,     *)
(* whichever of several digests answers first; only a value that came      *)
(* while an older one of the same field was being hashed may lose to it.   *)
LatestIdentityWins ==
    \A f \in DOMAIN latest \ overtaken :
        subtle /\ f \in ADVANCED_MATCHING_FIELDS /\ (\A h \in hashing : h.field # f) =>
            identityHashes[f] = [hash |-> Normalize[latest[f]]]
=============================================================================
