------------------------------ MODULE Mappers ------------------------------
(***************************************************************************)
(* The runtime's pure functions, applied: one call at a time, with what it *)
(* is given and what comes of it. Each call is one the program makes: a    *)
(* reply's GA4 requests to one endpoint (core/airlock.js, deliver), a      *)
(* payload about to cross to a chamber (sendBatch), a held beacon whose    *)
(* purpose was just granted (flushHeldBeacons), a configured connector     *)
(* handed an event (adapters/eds/index.js, composite.push).                *)
(***************************************************************************)
EXTENDS Ga4Coalesce, PayloadGovernance, BootConfig

CONSTANTS
    Batches,          \* sequences of GA4 requests to one endpoint
    Heaps, Denylists, \* payloads are the first object of their heap
    Entries,          \* connectors of a config
    BootConsents,     \* what a config says of consent, Omitted included
    Grants,           \* consent vectors a host sets later
    ConsentDefaults, Pages, MaterialEvents

ASSUME MappersAssumption ==
    /\ Omitted \notin Grants
    /\ Batches \subseteq Seq(Seq(QueryParam))
    /\ \A heap \in Heaps : PayloadOK(heap)
    /\ \A denylist \in Denylists : DenylistOK(denylist)

VARIABLES
    call,  \* the call just made
    out    \* and what came of it

mappersVars == <<call, out>>

MappersInit == call = [of |-> "nothing"] /\ out = <<>>

Coalesce(requests) ==
    /\ call' = [of |-> "coalesce", requests |-> requests]
    /\ out' = coalesceGa4(requests)

Govern(heap, denylist) ==
    /\ call' = [of |-> "govern", heap |-> heap, denylist |-> denylist]
    /\ out' = governPayload(heap, 1, denylist)

(* The k-th beacon of an event, mapped at the boot's consent, was held; the*)
(* consent of now sends it, re-mapped with the page's cookie of now.       *)
Remapped == {entry \in Entries : /\ entry.type \in {"google-ads", "floodlight"}
                                 /\ validateConnectorEntry(entry)}

Sending == {now \in Grants : egressVerdict(now, {"ad_storage"}, FALSE, TRUE) = "send"}

Release(entry, event, request, k, consentDefault, now, cookie) ==
    LET config == ConnectorConfig(entry, consentDefault) IN
      /\ call' = [of |-> "release", request |-> request, consent |-> now,
                  consentDefault |-> consentDefault, cookie |-> cookie]
      /\ out' = IF entry.type = "google-ads" THEN googleAdsRemap(event, config, now, cookie)
                ELSE floodlightRemap(event, config, now, cookie, RemapKey(k))

Serve(entry, consent, consentDefault, page, event) ==
    /\ call' = [of |-> "serve", entry |-> entry, consent |-> consent,
                consentDefault |-> consentDefault, page |-> page, event |-> event]
    /\ out' = IF validateConnectorEntry(entry) /\ ~BootThrows(entry)
              THEN Served(entry, consent, consentDefault, page, event) ELSE <<>>

MappersNext ==
    /\ call.of = "nothing"
    /\ \/ \E requests \in Batches : Coalesce(requests)
       \/ \E heap \in Heaps, denylist \in Denylists : Govern(heap, denylist)
       \/ \E entry \in Remapped, event \in MaterialEvents, page \in Pages,
             consent \in BootConsents, consentDefault \in ConsentDefaults :
            LET requests == Requests(entry, consent, consentDefault, page, event) IN
              \E k \in DOMAIN requests, now \in Sending, later \in Pages :
                Release(entry, event, requests[k], k, consentDefault, now, later.cookie)
       \/ \E entry \in Entries, consent \in BootConsents, consentDefault \in ConsentDefaults,
             page \in Pages, event \in MaterialEvents :
            Serve(entry, consent, consentDefault, page, event)

MappersSpec == MappersInit /\ [][MappersNext]_mappersVars
-----------------------------------------------------------------------------
(* A reply's GA4 requests go out as their events, each once, unaltered and *)
(* in order among those that share their parameters, in posts within GA4's *)
(* limits and no smaller than those ask for: coalesceGa4 and its split.    *)
SplitWithinLimits == call.of = "coalesce" => SplitIsExact(call.requests, out)

(* What crosses to a chamber is the payload without what the denylist      *)
(* denies, in any spelling of the last name, and with all of the rest;     *)
(* nothing the page still holds of it is changed: governPayload and its    *)
(* copies. Excluded are the paths below an ancestor that is spelled twice  *)
(* beside itself: StripsEverySpelling shows that they may cross.           *)
StripsSinglySpelled == call.of = "govern" => StripIsExact(call.heap, 1, call.denylist, out)

(* payload-governance.js:57-58: "a path segment matches the same way at    *)
(* each hop" (case-insensitively), and 193-194: the copy has "every denied *)
(* field/path removed (EVERY case-variant at each matched level, not just  *)
(* the first". So no denied path crosses, however its ancestors are        *)
(* spelled.                                                                *)
StripsEverySpelling == call.of = "govern" => NoSpellingLeft(call.denylist, out)

(* A beacon released from the seal says the consent it is released under,  *)
(* carries the identifier that consent lets it read, and is otherwise the  *)
(* beacon that was held: the remap of Google Ads and Floodlight.           *)
ReleasedAsConsented ==
    call.of = "release" =>
      ReleasedUnder(call.request, out, call.consent, call.consentDefault, call.cookie)

(* A connector whose entry the validation lets through boots, sends only   *)
(* where the host declared, and is routed exactly the events it has        *)
(* something to say about: boot(config) and createComposite.               *)
AcceptedIsServed ==
    call.of = "serve" =>
      ServedAsDeclared(call.entry, call.consent, call.consentDefault, call.page, call.event)
=============================================================================
