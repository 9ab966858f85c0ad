---------------------------- MODULE ConsentBoot ----------------------------
(***************************************************************************)
(* boot(config) and the composite it installs on window.airlock            *)
(* (adapters/eds/index.js), subscribed to OneTrust's consent changes       *)
(* (drivers/consent/onetrust.js), on a page that boots more than once.     *)
(*                                                                         *)
(* boot() awaits each connector, but a connector's boot awaits nothing but *)
(* the document's cookies, which are read and written at once              *)
(* (adapters/eds/cookies.js): the steps of a boot are microtasks of one    *)
(* task. Steps of other boots of that task and the page's own code         *)
(* (dispose, push) may come between them; OneTrust and the user, who come  *)
(* with tasks of their own, may not. OneTrust loads when it likes and,     *)
(* after a change, calls its two surfaces one after the other. A connector *)
(* is what Airlock models; here it is its consent vector, whether its      *)
(* Worker is up and whether it holds beacons.                              *)
(***************************************************************************)
EXTENDS Naturals, FiniteSets, Consent

CONSTANTS
    Connectors,      \* config.connectors is the sequence 1..Connectors
    Interactive,     \* the one whose boot wires the page's interactions (GA4)
    PurposesOf,      \* [1..Connectors -> SUBSET purpose]: egressPurposes
    consentStrict,   \* config.consentStrict: short of a grant, drop
    HoldsDenied,     \* the connectors with holdOnDenied
    MayFail,         \* the connectors whose boot may throw
    Groups,          \* OneTrust's consent groups
    GroupPurposeMap, \* [group -> SUBSET purpose]: config.onetrust.groupPurposeMap
    ActiveSets,      \* values of OnetrustActiveGroups, once resolved
    Unresolved,      \* OneTrust absent, or its surface not a list of groups
    NoBoot,          \* an empty slot, no window.airlock
    MaxBoots,        \* bound: boot() calls
    MaxChanges,      \* bound: OneTrust changes
    MaxClicks        \* bound: interactions

Members   == 1..Connectors
BootIds   == 1..MaxBoots
Surfaces  == {"OnConsentChanged", "OptanonWrapper"}

(* CONSENT_MODE_V2_PURPOSES. *)
CONSENT_MODE_V2_PURPOSES ==
    {"analytics_storage", "ad_storage", "ad_user_data", "ad_personalization"}

ASSUME BootAssumption ==
    /\ {Connectors, MaxBoots, MaxChanges, MaxClicks} \subseteq Nat
    /\ Interactive \in Members
    /\ PurposesOf \in [Members -> SUBSET CONSENT_PURPOSES]
    /\ consentStrict \in BOOLEAN
    /\ HoldsDenied \subseteq Members /\ MayFail \subseteq Members
    /\ GroupPurposeMap \in [Groups -> SUBSET CONSENT_PURPOSES]
    /\ ActiveSets \subseteq (SUBSET Groups) \ {{}}
    /\ Unresolved \notin ActiveSets
    /\ NoBoot \notin BootIds

VARIABLES
    \* ---- OneTrust
    loaded,       \* the SDK, and with it window.OneTrust, is there
    activeGroups, \* window.OnetrustActiveGroups
    toCall,       \* surfaces OneTrust has yet to call after a change
    changes,
    \* ---- onetrust.js, on the host's objects
    wired,        \* surfaces with the one-time trampoline
    activeHandler,\* surface -> the boot whose handler the trampoline calls
    \* ---- boot(), one entry a call
    phase, derivedConsent, booted,
    \* ---- its connectors
    vector,       \* boot -> connector -> consentVector
    up,           \* boot -> connectors whose Worker runs
    held,         \* boot -> connectors with held beacons
    \* ---- the page
    installed,    \* window.airlock
    listener,     \* the boot whose handle the document's listeners feed
    clicks, sent  \* interactions, and those that became a request

onetrust == <<loaded, activeGroups, toCall, changes>>
driver   == <<wired, activeHandler>>
boots    == <<phase, derivedConsent, booted>>
members  == <<vector, up, held>>
page     == <<installed, listener, clicks, sent>>
vars     == <<onetrust, driver, boots, members, page>>

Phase  == {"new", "booting", "live", "failed", "disposed"}
Vector == VectorsOver(CONSENT_MODE_V2_PURPOSES, {"granted", "denied"})

TypeOK ==
    /\ loaded \in BOOLEAN
    /\ activeGroups \in ActiveSets \cup {Unresolved}
    /\ toCall \subseteq Surfaces /\ wired \subseteq Surfaces
    /\ changes \in Nat /\ clicks \in Nat /\ sent \in Nat
    /\ activeHandler \in [Surfaces -> BootIds \cup {NoBoot}]
    /\ phase \in [BootIds -> Phase]
    /\ derivedConsent \in [BootIds -> Vector]
    /\ booted \in [BootIds -> 0..Connectors]
    /\ vector \in [BootIds -> [Members -> Vector]]
    /\ up \in [BootIds -> SUBSET Members] /\ held \in [BootIds -> SUBSET Members]
    /\ {installed, listener} \subseteq BootIds \cup {NoBoot}

Init ==
    /\ loaded = FALSE /\ activeGroups = Unresolved /\ toCall = {} /\ changes = 0
    /\ wired = {} /\ activeHandler = [s \in Surfaces |-> NoBoot]
    /\ phase = [b \in BootIds |-> "new"]
    /\ derivedConsent = [b \in BootIds |-> <<>>]
    /\ booted = [b \in BootIds |-> 0]
    /\ vector = [b \in BootIds |-> [c \in Members |-> <<>>]]
    /\ up = [b \in BootIds |-> {}] /\ held = [b \in BootIds |-> {}]
    /\ installed = NoBoot /\ listener = NoBoot /\ clicks = 0 /\ sent = 0
-----------------------------------------------------------------------------
(* onetrust.js: the purposes some group covers, each granted if one of its *)
(* groups is active; nothing at all while OneTrust is unresolved.          *)
coverageByPurpose ==
    CONSENT_MODE_V2_PURPOSES \cap UNION {GroupPurposeMap[g] : g \in Groups}

mapOnetrustConsent(active) ==
    IF active = Unresolved THEN <<>>
    ELSE [p \in coverageByPurpose |->
            IF \E g \in active : p \in GroupPurposeMap[g] THEN "granted" ELSE "denied"]

(* What boot() and the handlers read now.                                  *)
NowConsent == mapOnetrustConsent(activeGroups)

(* The seal of connector c under vector v.                                 *)
MemberVerdict(v, c) == egressVerdict(v, PurposesOf[c], consentStrict, c \in HoldsDenied)

(* Surfaces a subscription finds. The wrapper is installed on the page's   *)
(* window even before OneTrust is there.                                   *)
Present == IF loaded THEN Surfaces ELSE {"OptanonWrapper"}

(* subscribe(): the surfaces it finds are its own from now on.             *)
TakeOver(handler, b) == [s \in Surfaces |-> IF s \in Present THEN b ELSE handler[s]]

(* An unsubscribe that clears the slot whoever holds it.                   *)
ClearAlways(handler, b) == [s \in Surfaces |-> NoBoot]

(* unsubscribe(): compare and clear.                                       *)
CompareAndClear(handler, b) ==
    [s \in Surfaces |-> IF handler[s] = b THEN NoBoot ELSE handler[s]]
-----------------------------------------------------------------------------
(* A task of its own: no boot is between two of its steps.                 *)
NewTask == \A b \in BootIds : phase[b] # "booting"

(* OneTrust. On loading it calls the wrapper, after a change both surfaces.*)
loadOneTrust ==
    /\ NewTask /\ ~loaded
    /\ loaded' = TRUE
    /\ activeGroups' \in ActiveSets \cup {Unresolved}
    /\ toCall' = {"OptanonWrapper"}
    /\ UNCHANGED <<changes, driver, boots, members, page>>

change ==
    /\ NewTask /\ loaded /\ changes < MaxChanges
    /\ changes' = changes + 1
    /\ activeGroups' \in ActiveSets \ {activeGroups}
    /\ toCall' = Surfaces
    /\ UNCHANGED <<loaded, driver, boots, members, page>>

(* A fan-out that stops at the first connector.                            *)
FirstOnly(b) == {c \in Members : c = 1 /\ booted[b] > 0}

(* composite.setConsent() reaches every connector of the composite.        *)
Reached(b) == 1..booted[b]

setConsent(b, v) ==
    /\ vector' = [vector EXCEPT ![b] =
         [c \in Members |-> IF c \in Reached(b) THEN MergeConsent(@[c], v) ELSE @[c]]]
    /\ held' = [held EXCEPT ![b] =
         {c \in @ : MemberVerdict(vector'[b][c], c) # "send"}]
    /\ UNCHANGED up

(* The trampoline of one surface; the handler reads the groups afresh.     *)
callSurface ==
    /\ NewTask
    /\ \E s \in toCall :
         /\ toCall' = toCall \ {s}
         /\ IF activeHandler[s] = NoBoot THEN UNCHANGED members
            ELSE setConsent(activeHandler[s], NowConsent)
    /\ UNCHANGED <<loaded, activeGroups, changes, driver, boots, page>>
-----------------------------------------------------------------------------
(* boot().                                                                 *)

startBoot(b) ==
    /\ phase[b] = "new" /\ \A a \in 1..(b - 1) : phase[a] # "new"
    /\ phase' = [phase EXCEPT ![b] = "booting"]
    /\ derivedConsent' = [derivedConsent EXCEPT ![b] = NowConsent]
    /\ UNCHANGED <<onetrust, driver, booted, members, page>>

(* The Interactive connector's boot wires the document, once per document. *)
bootConnector(b) ==
    /\ phase[b] = "booting" /\ booted[b] < Connectors
    /\ LET c == booted[b] + 1 IN
         /\ booted' = [booted EXCEPT ![b] = c]
         /\ vector' = [vector EXCEPT ![b][c] = derivedConsent[b]]
         /\ up' = [up EXCEPT ![b] = @ \cup {c}]
         /\ listener' = IF c = Interactive /\ listener = NoBoot THEN b ELSE listener
    /\ UNCHANGED <<onetrust, driver, phase, derivedConsent, held, installed, clicks,
                   sent>>

(* A cleanup that forgets the connectors booted before the one that threw. *)
FailedKeeps(b) == up[b]
FailedUp(b) == {}

(* A later entry throws: what was booted is disposed of, and nothing else  *)
(* is touched.                                                             *)
bootFails(b) ==
    /\ phase[b] = "booting" /\ booted[b] + 1 \in MayFail
    /\ phase' = [phase EXCEPT ![b] = "failed"]
    /\ up' = [up EXCEPT ![b] = FailedUp(b)]
    /\ UNCHANGED <<onetrust, driver, derivedConsent, booted, vector, held, page>>

(* composite.dispose(): the subscription, then every Worker.               *)
Disposed(b) == IF b = NoBoot THEN phase
               ELSE [phase EXCEPT ![b] = "disposed"]
WorkersWithout(b) == IF b = NoBoot THEN up ELSE [up EXCEPT ![b] = {}]

(* createComposite, subscribe, then installOnWindow, which disposes of the *)
(* composite it replaces: one task.                                        *)
finishBoot(b) ==
    /\ phase[b] = "booting" /\ booted[b] = Connectors
    /\ wired' = wired \cup Present
    /\ activeHandler' =
         CompareAndClear(TakeOver(activeHandler, b), installed)
    /\ phase' = [Disposed(installed) EXCEPT ![b] = "live"]
    /\ up' = WorkersWithout(installed)
    /\ installed' = b
    /\ UNCHANGED <<onetrust, derivedConsent, booted, vector, held, listener, clicks,
                   sent>>

(* The host disposes of window.airlock, which stays where it is.           *)
dispose ==
    /\ installed # NoBoot /\ phase[installed] = "live"
    /\ activeHandler' = CompareAndClear(activeHandler, installed)
    /\ phase' = Disposed(installed) /\ up' = WorkersWithout(installed)
    /\ UNCHANGED <<onetrust, wired, derivedConsent, booted, vector, held, page>>
-----------------------------------------------------------------------------
(* Events.                                                                 *)

(* window.airlock.push(): what a connector's chamber maps is sent, held or *)
(* dropped at its seal.                                                    *)
push ==
    /\ installed # NoBoot
    /\ held' = [held EXCEPT ![installed] = @ \cup
         {c \in up[installed] : MemberVerdict(vector[installed][c], c) = "hold"}]
    /\ UNCHANGED <<onetrust, driver, boots, vector, up, page>>

(* A click on an outbound link, or pagehide: pushCritical() of the handle  *)
(* that was wired first, synchronous, without a Worker.                    *)
interact ==
    /\ NewTask /\ listener # NoBoot /\ clicks < MaxClicks
    /\ clicks' = clicks + 1
    /\ sent' = IF MemberVerdict(vector[listener][Interactive], Interactive) = "send"
               THEN sent + 1 ELSE sent
    /\ UNCHANGED <<onetrust, driver, boots, members, installed, listener>>
-----------------------------------------------------------------------------
Next == \/ loadOneTrust \/ change \/ callSurface
        \/ \E b \in BootIds : \/ startBoot(b) \/ bootConnector(b)
                              \/ bootFails(b) \/ finishBoot(b)
        \/ dispose \/ push \/ interact

Spec == Init /\ [][Next]_vars
-----------------------------------------------------------------------------
Live(b) == phase[b] = "live"

(* No Worker is leaked: at most one composite is live, it is the one on    *)
(* window.airlock, and no connector of a failed, replaced or disposed one  *)
(* keeps its Worker.                                                       *)
NoLeak ==
    \A b \in BootIds :
        /\ Live(b) => installed = b
        /\ up[b] # {} => phase[b] \in {"booting", "live"}

(* A disposed or failed composite hears OneTrust no more, and disposing of *)
(* the old one never strands the new (ADR-0028): the live composite holds  *)
(* every surface that some subscription ever wired, or that it could see.  *)
SlotIsLive ==
    \A s \in Surfaces :
        /\ activeHandler[s] # NoBoot => Live(activeHandler[s])
        /\ \A b \in BootIds : Live(b) /\ s = "OptanonWrapper" => activeHandler[s] = b

(* Once OneTrust has called its surfaces, every connector of the live      *)
(* composite has the vector of OneTrust's groups, and none still holds     *)
(* beacons that the vector lets go, however boots overlap and whenever the *)
(* user decides.                                                           *)
Follows(b) ==
    \A c \in Members :
        /\ vector[b][c] = NowConsent
        /\ c \in held[b] => MemberVerdict(NowConsent, c) = "hold"

LiveFollowsOneTrust == \A b \in BootIds : Live(b) /\ toCall = {} => Follows(b)

(* "on revoke, stop future egress for that purpose" (ADR-0007:242): with   *)
(* OneTrust's calls made and a live composite installed, an interaction is *)
(* sent only if OneTrust's vector lets it go.                              *)
Settled ==
    /\ toCall = {} /\ activeGroups # Unresolved
    /\ installed # NoBoot /\ Live(installed)

RevokeStopsEgress ==
    [][Settled /\ sent' # sent => MemberVerdict(NowConsent, Interactive) = "send"]_vars
=============================================================================
