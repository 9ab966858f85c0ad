--------------------------- MODULE WrappedSdkHost ---------------------------
(***************************************************************************)
(* A wrapped vendor SDK: bootAlloy()'s handle (adapters/eds/index.js), the *)
(* host at the seal (core/wrapped-sdk-host.js) and the alloy chamber's     *)
(* boot glue (connectors/alloy/alloy-chamber.worker.js). The vendor's own  *)
(* bundle is external: alloy answers commands, holds events while its      *)
(* consent is pending, and each thing it sends is one intercepted fetch.   *)
(*                                                                         *)
(* An event makes a round trip: tail, driveEvent, chamber, sendEvent,      *)
(* intercepted fetch, the seal, the network or the timer, and back. The    *)
(* two threads and the network interleave freely between the handlers.     *)
(***************************************************************************)
EXTENDS Integers, Sequences, FiniteSets, Consent

CONSTANTS
    BootConsents,    \* the values opts.consent may have
    ConsentWired,    \* opts.consent was given
    ConsentUpdates,  \* the vectors the host passes to setConsent()
    Urls,            \* what the SDK fetches: "edge" is the pinned tenant's
                     \* endpoint, "edgeOtherTenant" the same with another
                     \* tenant, "other" is off the declared endpoints
    Override,        \* configIntegrity.disposition = "override", not "hold"
    BootMayFail,     \* the bundle may fail to load or to confine
    ConfigureMayFail,\* alloy may reject configure
    MaxEvents,       \* bound: push() and pushCritical() calls
    MaxUpdates       \* bound: setConsent() calls

ASSUME HostAssumption ==
    /\ BootConsents \cup ConsentUpdates \subseteq ConsentVector
    /\ BootConsents # {}
    /\ {ConsentWired, Override, BootMayFail, ConfigureMayFail} \subseteq BOOLEAN
    /\ Urls \subseteq {"edge", "edgeOtherTenant", "other"} /\ Urls # {}
    /\ {MaxEvents, MaxUpdates} \subseteq Nat

Events     == 1..MaxEvents
FetchIds   == Nat \ {0}
None       == 0   \* neither an event nor a fetch

VARIABLES
    \* ---- main thread
    pushed,      \* how many events were pushed
    tail,        \* events waiting on the chain for those before them
    queuedEvent, \* driven before the chamber was configured
    onResult,    \* the event whose driveEvent() promise is open
    bootConsent, \* opts.consent, never written again
    configured, consentRef, disposed, updates,
    outcome,     \* event -> how its driveEvent() promise stands
    unanswered,  \* intercepted fetches whose `settled` flag is still false
    \* ---- network
    onNetwork,   \* fetches dispatch() has not settled
    \* ---- chamber and its channels
    toChamber, toMain, boot, chamberVector, drives, fetchSeq,
    \* ---- the vendor bundle
    alloyMode,   \* what alloy does with an event
    commands,    \* setConsent commands alloy has not finished
    commandOut,  \* the fetch of the first of them
    \* ---- history
    dispatched,  \* every request given to the network
    answers,     \* fetch -> responses posted for it; no entry: none
    settledBy,   \* event -> the event whose report settled its promise
    lastCommand  \* value of the newest setConsent command

driver  == <<pushed, tail, queuedEvent, onResult, configured, outcome, settledBy>>
consent == <<bootConsent, consentRef, updates>>
seal    == <<unanswered, onNetwork, dispatched, answers>>
chamber == <<boot, chamberVector, drives, fetchSeq>>
alloy   == <<alloyMode, commands, commandOut, lastCommand>>
vars    == <<driver, consent, disposed, seal, toChamber, toMain, chamber, alloy>>

Init ==
    /\ pushed = 0 /\ tail = <<>> /\ queuedEvent = None /\ onResult = None
    /\ configured = FALSE /\ disposed = FALSE /\ updates = 0
    /\ bootConsent \in BootConsents /\ consentRef = bootConsent
    /\ outcome = [e \in Events |-> "none"]
    /\ settledBy = [e \in Events |-> None]
    /\ unanswered = {} /\ onNetwork = {} /\ dispatched = <<>>
    /\ answers = [id \in {} |-> 0]
    /\ toChamber = <<[type |-> "init", consent |-> bootConsent]>> /\ toMain = <<>>
    /\ boot = "new" /\ chamberVector = bootConsent /\ drives = {} /\ fetchSeq = 0
    /\ alloyMode = "in" /\ commands = <<>> /\ commandOut = None
    /\ lastCommand = "none"
-----------------------------------------------------------------------------
(* The page: the chain of events.                                          *)

(* A terminated Worker takes no more messages.                             *)
ToChamber(m) == toChamber' = IF disposed THEN toChamber ELSE Append(toChamber, m)

push ==
    /\ pushed < MaxEvents
    /\ pushed' = pushed + 1
    /\ tail' = Append(tail, pushed + 1)
    /\ UNCHANGED <<queuedEvent, onResult, configured, outcome, settledBy, consent,
                   disposed, seal, toChamber, toMain, chamber, alloy>>

(* Events chained only to the first one, not each to the one before it.    *)
TailUnchained == \A e \in Events : outcome[e] = "driven" => configured

(* `tail.then(...)`: the promises of all events before it have settled.    *)
TailFree == \A e \in Events : outcome[e] # "driven"

(* The next continuation of the chain calls driveEvent(). Other calls of   *)
(* the page may come first; the code runs it as soon as its task ends.     *)
driveEvent ==
    /\ tail # <<>> /\ TailFree
    /\ tail' = Tail(tail)
    /\ LET e == Head(tail) IN
         IF onResult # None
         THEN /\ outcome' = [outcome EXCEPT ![e] = "refused"]
              /\ UNCHANGED <<onResult, queuedEvent, toChamber>>
         ELSE /\ outcome' = [outcome EXCEPT ![e] = "driven"]
              /\ onResult' = e
              /\ IF configured
                 THEN /\ ToChamber([type |-> "event", event |-> e])
                      /\ UNCHANGED queuedEvent
                 ELSE /\ queuedEvent' = e
                      /\ UNCHANGED toChamber
    /\ UNCHANGED <<pushed, configured, settledBy, consent, disposed, seal, toMain,
                   chamber, alloy>>

(* The seal's live reference first, then the chamber's delegate.           *)
setConsent ==
    /\ ConsentWired /\ updates < MaxUpdates
    /\ updates' = updates + 1
    /\ \E v \in ConsentUpdates :
         /\ consentRef' = MergeConsent(consentRef, v)
         /\ ToChamber([type |-> "setConsent", consent |-> MergeConsent(consentRef, v)])
    /\ UNCHANGED <<driver, bootConsent, disposed, seal, toMain, chamber, alloy>>

dispose ==
    /\ ~disposed
    /\ disposed' = TRUE
    /\ toChamber' = <<>>
    /\ UNCHANGED <<driver, consent, seal, toMain, chamber, alloy>>
-----------------------------------------------------------------------------
(* The host's message handler.                                             *)

MainReceives(type) == /\ toMain # <<>> /\ Head(toMain).type = type
                      /\ toMain' = Tail(toMain)

handleConfigured ==
    /\ MainReceives("configured")
    /\ configured' = TRUE
    /\ queuedEvent' = None
    /\ IF queuedEvent # None
       THEN ToChamber([type |-> "event", event |-> queuedEvent])
       ELSE UNCHANGED toChamber
    /\ UNCHANGED <<pushed, tail, onResult, outcome, settledBy, consent, disposed,
                   seal, chamber, alloy>>

(* `result` resolves and `fatal` rejects the open promise, if there is one.*)
handleReport(type, as) ==
    /\ MainReceives(type)
    /\ IF onResult # None
       THEN /\ outcome' = [outcome EXCEPT ![onResult] = as]
            /\ settledBy' = [settledBy EXCEPT ![onResult] = Head(toMain).event]
            /\ onResult' = None
       ELSE UNCHANGED <<outcome, settledBy, onResult>>
    /\ UNCHANGED <<pushed, tail, queuedEvent, configured, consent, disposed, seal,
                   toChamber, chamber, alloy>>

handleResult == handleReport("result", "resolved")
handleFatal  == handleReport("fatal", "rejected")

(* ALLOY_EGRESS_PURPOSES, only when a consent vector is wired.             *)
EgressPurposes == IF ConsentWired THEN {"analytics_storage", "personalization"} ELSE {}

(* A seal that keeps the vector it was created with.                       *)
BootSealVector == bootConsent

(* The vector the seal reads: the live reference.                          *)
SealVector == consentRef

(* With personalization alone un-granted the seal strips its query and     *)
(* judges the request by the other purposes.                               *)
splitPersonalization ==
    /\ "personalization" \in EgressPurposes
    /\ resolveConsent(SealVector, "personalization") # "granted"

effectivePurposes == IF splitPersonalization
                     THEN EgressPurposes \ {"personalization"} ELSE EgressPurposes

(* Endpoint ceiling, then config integrity, then consent.                  *)
SealHolds(m) ==
    \/ m.url = "other"
    \/ m.url = "edgeOtherTenant" /\ ~Override
    \/ egressVerdict(SealVector, effectivePurposes, TRUE, FALSE) # "send"

SealedRequest(m) ==
    [id  |-> m.id,
     url |-> IF m.url = "edgeOtherTenant" THEN "edge" ELSE m.url,
     personalization |-> m.personalization /\ ~splitPersonalization]

Response(id, ok) == [type |-> "response", id |-> id, ok |-> ok]

PostResponse(id, ok) ==
    /\ ToChamber(Response(id, ok))
    /\ answers' = [i \in DOMAIN answers \cup {id} |->
                      (IF i \in DOMAIN answers THEN answers[i] ELSE 0) + (IF i = id THEN 1 ELSE 0)]

dispatchInterceptedFetch ==
    /\ MainReceives("intercepted-fetch")
    /\ LET m == Head(toMain) IN
         \/ /\ SealHolds(m)
            /\ PostResponse(m.id, FALSE)
            /\ UNCHANGED <<unanswered, onNetwork, dispatched>>
         \/ /\ ~SealHolds(m)
            /\ dispatched' = Append(dispatched, SealedRequest(m))
            /\ unanswered' = unanswered \cup {m.id}
            /\ onNetwork' = onNetwork \cup {m.id}
            /\ UNCHANGED <<toChamber, answers>>
    /\ UNCHANGED <<driver, consent, disposed, chamber, alloy>>

(* A host that answers whenever something settles.                         *)
RespondAlways(id) == TRUE

(* respond(): nothing once the fetch was answered.                         *)
RespondGuard(id) == id \in unanswered

respond(id, ok) ==
    /\ unanswered' = unanswered \ {id}
    /\ IF RespondGuard(id) THEN PostResponse(id, ok)
                           ELSE UNCHANGED <<toChamber, answers>>

(* dispatch() resolves, or rejects, possibly after the timer gave up.      *)
NetworkSettles ==
    /\ \E id \in onNetwork, ok \in BOOLEAN :
         /\ onNetwork' = onNetwork \ {id}
         /\ respond(id, ok)
    /\ UNCHANGED <<driver, consent, disposed, dispatched, toMain, chamber, alloy>>

(* A timer cleared when the request is handed to dispatch().               *)
NeverArmed == {}

(* Timers running: armed with the dispatch, cleared when it settles.       *)
Armed == unanswered

timeout ==
    /\ \E id \in Armed : respond(id, FALSE)
    /\ UNCHANGED <<driver, consent, disposed, onNetwork, dispatched, toMain, chamber,
                   alloy>>
-----------------------------------------------------------------------------
(* The chamber.                                                            *)

ChamberReceives(type) == /\ ~disposed
                         /\ toChamber # <<>> /\ Head(toChamber).type = type
                         /\ toChamber' = Tail(toChamber)

Post(m) == toMain' = Append(toMain, m)

Analytics(v) == IF ConsentWired THEN resolveConsent(v, "analytics_storage")
                                ELSE "none"

(* The mapping that suppressed alloy's queue instead of holding it.        *)
BootDrivesPending(v) == TRUE

(* shapeAlloyBoot(): a resolved vector drives a setConsent command, a      *)
(* pending one leaves the events to alloy's own queue.                     *)
DrivesConsent(v) == Analytics(v) \in {"granted", "denied"}

CommandFor(v) == IF Analytics(v) = "granted" THEN "y" ELSE "n"

Command(v, fromBoot) == [value |-> CommandFor(v), fromBoot |-> fromBoot]

(* boot() up to `await host.init(caps)`, or its catch.                     *)
chamberBoot ==
    /\ ChamberReceives("init")
    /\ chamberVector' = Head(toChamber).consent
    /\ alloyMode' = IF Analytics(Head(toChamber).consent) = "pending"
                    THEN "pending" ELSE "in"
    /\ \/ /\ boot' = "configuring"
          /\ UNCHANGED toMain
       \/ /\ BootMayFail
          /\ boot' = "failed"
          /\ Post([type |-> "fatal", event |-> None])
    /\ UNCHANGED <<driver, consent, disposed, seal, drives, fetchSeq, commands,
                   commandOut, lastCommand>>

Configured == /\ boot' = "ready"
              /\ Post([type |-> "configured"])

(* configure settles: boot() drives the consent it was started with, if    *)
(* that is resolved, and reports once alloy is done with it.               *)
configureSettles ==
    /\ ~disposed /\ boot = "configuring"
    /\ \/ /\ DrivesConsent(bootConsent)
          /\ boot' = "consenting"
          /\ commands' = Append(commands, Command(bootConsent, TRUE))
          /\ lastCommand' = CommandFor(bootConsent)
          /\ UNCHANGED <<toMain, alloyMode>>
       \/ /\ ~DrivesConsent(bootConsent)
          /\ Configured
          /\ UNCHANGED <<commands, lastCommand, alloyMode>>
       \/ /\ ConfigureMayFail
          /\ Configured
          /\ alloyMode' = "broken"
          /\ commands' = <<>>
          /\ UNCHANGED lastCommand
    /\ UNCHANGED <<driver, consent, disposed, seal, toChamber, chamberVector, drives,
                   fetchSeq, commandOut>>

(* applyConsent(): merge, then tell alloy if the result is resolved.       *)
applyConsent ==
    /\ ChamberReceives("setConsent")
    /\ chamberVector' = MergeConsent(chamberVector, Head(toChamber).consent)
    /\ IF DrivesConsent(chamberVector')
       THEN /\ lastCommand' = CommandFor(chamberVector')
            /\ commands' = IF alloyMode = "broken" THEN commands
                           ELSE Append(commands, Command(chamberVector', FALSE))
       ELSE UNCHANGED <<lastCommand, commands>>
    /\ UNCHANGED <<driver, consent, disposed, seal, toMain, boot, drives, fetchSeq,
                   alloyMode, commandOut>>

drive ==
    /\ ChamberReceives("event")
    /\ drives' = drives \cup {[event |-> Head(toChamber).event, fetch |-> None]}
    /\ UNCHANGED <<driver, consent, disposed, seal, toMain, boot, chamberVector,
                   fetchSeq, alloy>>

(* An id taken before the counter moves.                                   *)
IdBefore == fetchSeq

NextFetchId == fetchSeq + 1

(* The chamber's self.fetch(): every request goes to the main thread.      *)
interceptedFetch(personalization) ==
    /\ fetchSeq' = fetchSeq + 1
    /\ \E u \in Urls :
         Post([type |-> "intercepted-fetch", id |-> NextFetchId, url |-> u,
               personalization |-> personalization])

(* drive() reports: `result`, or `fatal` if reporting it threw.            *)
Report(e) == \E t \in {"result", "fatal"} : Post([type |-> t, event |-> e])
-----------------------------------------------------------------------------
(* The vendor bundle, as the chamber sees it.                              *)

alloySendsCommand ==
    /\ ~disposed /\ boot \in {"consenting", "ready"} /\ alloyMode # "broken"
    /\ commands # <<>> /\ commandOut = None
    /\ commandOut' = NextFetchId
    /\ interceptedFetch(FALSE)
    /\ UNCHANGED <<driver, consent, disposed, seal, toChamber, boot, chamberVector,
                   drives, alloyMode, commands, lastCommand>>

(* sendEvent, with consent settled.                                        *)
alloySendsEvent ==
    /\ ~disposed /\ alloyMode = "in" /\ commands = <<>>
    /\ \E d \in drives :
         /\ d.fetch = None
         /\ drives' = (drives \ {d}) \cup {[d EXCEPT !.fetch = NextFetchId]}
    /\ interceptedFetch(TRUE)
    /\ UNCHANGED <<driver, consent, disposed, seal, toChamber, boot, chamberVector,
                   alloy>>

(* sendEvent without consent, or after a failed configure.                 *)
alloyDeclines ==
    /\ ~disposed /\ alloyMode \in {"out", "broken"} /\ commands = <<>>
    /\ \E d \in drives : /\ d.fetch = None
                         /\ drives' = drives \ {d}
                         /\ Report(d.event)
    /\ UNCHANGED <<driver, consent, disposed, seal, toChamber, boot, chamberVector,
                   fetchSeq, alloy>>

(* resolveInterceptedFetch() for a setConsent command. alloy adopts the    *)
(* value if the request got through, and may or may not if it did not.     *)
commandAnswered ==
    /\ ChamberReceives("response")
    /\ Head(toChamber).id = commandOut
    /\ \E ok \in {Head(toChamber).ok, TRUE} :
         alloyMode' = IF ~ok THEN alloyMode
                      ELSE IF Head(commands).value = "y" THEN "in" ELSE "out"
    /\ commands' = Tail(commands)
    /\ commandOut' = None
    /\ IF Head(commands).fromBoot THEN Configured ELSE UNCHANGED <<boot, toMain>>
    /\ UNCHANGED <<driver, consent, disposed, seal, chamberVector, drives, fetchSeq,
                   lastCommand>>

(* resolveInterceptedFetch() for an event, or for nobody.                  *)
eventAnswered ==
    /\ ChamberReceives("response")
    /\ LET id == Head(toChamber).id IN
         /\ id # commandOut
         /\ drives' = {d \in drives : d.fetch # id}
         /\ IF drives' = drives THEN UNCHANGED toMain
            ELSE \E d \in drives \ drives' : Report(d.event)
    /\ UNCHANGED <<driver, consent, disposed, seal, boot, chamberVector, fetchSeq,
                   alloy>>
-----------------------------------------------------------------------------
Next == \/ push \/ driveEvent \/ setConsent \/ dispose
        \/ handleConfigured \/ handleResult \/ handleFatal
        \/ dispatchInterceptedFetch \/ NetworkSettles \/ timeout
        \/ chamberBoot \/ configureSettles \/ applyConsent \/ drive
        \/ alloySendsCommand \/ alloySendsEvent \/ alloyDeclines
        \/ commandAnswered \/ eventAnswered

Spec == Init /\ [][Next]_vars

(* Both event loops run what is queued, timers fire, and alloy goes on     *)
(* with what it can do. The network need not answer, and nobody has to     *)
(* push, to change consent or to dispose.                                  *)
Fairness ==
    /\ WF_vars(driveEvent)
    /\ WF_vars(handleConfigured \/ handleResult \/ handleFatal
                \/ dispatchInterceptedFetch)
    /\ WF_vars(timeout)
    /\ WF_vars(chamberBoot \/ applyConsent \/ drive \/ commandAnswered
                \/ eventAnswered)
    /\ WF_vars(configureSettles)
    /\ WF_vars(alloySendsCommand \/ alloySendsEvent \/ alloyDeclines)

FairSpec == Spec /\ Fairness
-----------------------------------------------------------------------------
Outcome == {"none", "driven", "resolved", "rejected", "refused"}
Settled(e) == outcome[e] \in {"resolved", "rejected", "refused"}

(* The state's types, and the single slot and the channels in step.        *)
TypeOK ==
    /\ pushed \in 0..MaxEvents /\ updates \in 0..MaxUpdates
    /\ tail \in Seq(Events)
    /\ {queuedEvent, onResult} \subseteq Events \cup {None}
    /\ configured \in BOOLEAN /\ disposed \in BOOLEAN
    /\ {bootConsent, consentRef, chamberVector} \subseteq ConsentVector
    /\ outcome \in [Events -> Outcome]
    /\ settledBy \in [Events -> Events \cup {None}]
    /\ unanswered \subseteq onNetwork /\ onNetwork \subseteq FetchIds
    /\ fetchSeq \in Nat
    /\ boot \in {"new", "configuring", "consenting", "ready", "failed"}
    /\ drives \subseteq [event : Events, fetch : FetchIds \cup {None}]
    /\ alloyMode \in {"in", "pending", "out", "broken"}
    /\ commands \in Seq([value : {"y", "n"}, fromBoot : BOOLEAN])
    /\ commandOut \in FetchIds \cup {None}
    /\ lastCommand \in {"none", "y", "n"}
    /\ dispatched \in Seq([id : FetchIds, url : {"edge"}, personalization : BOOLEAN])
    /\ DOMAIN answers \subseteq FetchIds /\ \A id \in DOMAIN answers : answers[id] \in Nat

(* The chamber gets one answer for each intercepted fetch: a late network  *)
(* answer never follows the timer's, nor the timer's the network's.        *)
AnsweredOnce == \A id \in DOMAIN answers : answers[id] <= 1

(* Events take the single slot in turn: the re-entry guard never refuses   *)
(* one, an event settles after every event pushed before it, and what      *)
(* settles it is its own report (or the report that the boot failed).      *)
EventsInTurn ==
    \A e \in Events :
        /\ outcome[e] # "refused"
        /\ Settled(e) => \A d \in 1..(e - 1) : Settled(d)
        /\ outcome[e] = "resolved" => settledBy[e] = e
        /\ outcome[e] = "rejected" => settledBy[e] \in {e, None}

(* A request leaves only in a state where the vector the page last set     *)
(* grants analytics, and with the personalization query only if it grants  *)
(* that too: a revocation that overtakes an event on its way from the      *)
(* chamber still stops it.                                                 *)
SealIsLive ==
    [][ConsentWired => \A i \in DOMAIN dispatched' \ DOMAIN dispatched :
          /\ resolveConsent(consentRef, "analytics_storage") = "granted"
          /\ dispatched'[i].personalization =>
                resolveConsent(consentRef, "personalization") = "granted"]_vars

(* Booted with consent pending, alloy was last told what the page last set *)
(* as soon as no update is on its way, and told nothing while it was never *)
(* resolved: its queue is neither flushed nor suppressed by anything else. *)
ConsentReachesAlloy ==
    (/\ boot = "ready" /\ ~disposed /\ Analytics(bootConsent) = "pending"
     /\ \A i \in DOMAIN toChamber : toChamber[i].type # "setConsent") =>
        /\ chamberVector = consentRef
        /\ DrivesConsent(consentRef) => lastCommand = CommandFor(consentRef)
        /\ updates = 0 => lastCommand = "none"

(* Once alloy no longer holds events for consent, every event settles even *)
(* if the network never answers, unless the handle is disposed of.         *)
NotPending == \/ DrivesConsent(bootConsent)
              \/ boot = "ready" /\ alloyMode # "pending"

EventsSettle ==
    \A e \in Events :
        (pushed >= e /\ NotPending) ~> (Settled(e) \/ disposed)

(* "Keep the chain alive past a per-event fatal" (the tail of bootAlloy()):*)
(* once a fatal has rejected an event, the events after it settle too.     *)
ChainOutlivesFatal ==
    \A e \in Events :
        (pushed >= e /\ \E d \in Events : outcome[d] = "rejected") ~>
            (Settled(e) \/ disposed)
=============================================================================
