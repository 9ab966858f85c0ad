# airlock: models, checks and proofs

airlock runs marketing and analytics tags off the page's main thread: each tag
is a *connector* in a Worker, and everything it wants to send passes a *seal*
on the main thread that enforces consent, an endpoint ceiling and a keepalive
budget. This directory models the parts of it where order, concurrency and
failure decide whether that promise holds, checks them with TLC and proves the
central properties with TLAPS.

Paths are relative to the repository root.

## 1. The system

### Components and their state

| component | code | state | operations |
|---|---|---|---|
| airlock runtime | `core/airlock.js`, `core/egress.js` | consent vector, log and ring of pushed events, idle callback armed or not, held beacons, keepalive bytes used, listeners | push, pushCritical, setConsent, drain, flushNow, reply from the chamber, hide / show / pagehide, dispose |
| event chamber | `core/chamber.worker.js`, `core/connector-host.js` | the batch in hand | map each event of a batch, post one reply |
| connector chambers | `core/*-chamber.worker.js` | as the event chamber | the same, each with its own connector bundled |
| consent resolution | `core/consent.js` | none | resolve a vector, judge a request |
| coalescing broker | `core/coalescing-broker.js` | per datastream: the mint in flight, the response retained | intercepted fetch: pass, answer, hold, mint |
| wrapped SDK host | `core/wrapped-sdk-host.js`, `bootAlloy` in `adapters/eds/index.js` | event slot, queued event, chain of events, live consent, timers of intercepted fetches | push, setConsent, dispose, messages from the chamber, network and timer |
| alloy chamber | `connectors/alloy/alloy-chamber.worker.js`, `consent.js` | boot phase, consent vector, fetches waiting for an answer | boot, drive, applyConsent, intercepted fetch |
| alloy bundle | external | consent state, command queue | sendEvent, setConsent |
| connectors | `connectors/*` | mostly none | map an event to requests, re-map, coalesce |
| GA4 cookies | `connectors/ga4/cookies.js` | session and count in cookies | read, modify, write |
| pixel chamber | `core/pixel-chamber.worker.js`, `connectors/pixel` | hashed identity | merge identity, hash, map |
| OneTrust driver | `drivers/consent/onetrust.js` | the active-handler slot | read groups, subscribe, unsubscribe |
| boot and composite | `adapters/eds/index.js` | connectors booted, DOM listeners wired | boot, fan-out of push and consent, dispose |
| personalization boxes | `adapters/eds/dom.js`, `reserve-personalization.js`, `decisions-exposure.js` | reserved boxes and their timers, exposures seen | reserve, fill, release, time out, report |
| worker DOM | `core/worker-dom`, `core/dom-chamber-host.js`, `dom-apply.js`, `core/scheduler.js` | the mirror and its record, node table, batches being applied | run a tag's task, drain, apply in slices, yield |
| tag suppressor | `adapters/eds/tag-suppressor.js` | which natives are patched | install, uninstall |
| payload filters | `core/payload-governance.js`, `cookie-scope.js`, `endpoint-ceiling.js`, `config-integrity.js` | none | judge or strip a payload, a cookie, a URL |
| inspector | `core/inspector` | a ring of diagnostics | record, query |

### How they interact

```
 page --push/pushCritical/setConsent--> airlock runtime (main thread)
          ring --idle--> postMessage --> chamber (Worker): map
          reply <------ postMessage ----+
          reply --> consent --> ceiling --> coalesce --> ceiling --> fetch()
                       \--> held --(setConsent grants)--> re-map/re-send --> fetch()
 unload: ring, sorted --> synchronous gate --> keepalive fetch()

 page --push--> bootAlloy's chain --> wrapped SDK host --> alloy chamber --> alloy
          alloy's fetch --> ceiling, tenant pin, consent --> [broker] --> network
          answer or timer --> alloy --> report --> next event of the chain
```

A main-thread handler runs to completion; between handlers anything may come
in: another message, an idle callback, a consent change, the page being hidden.
Chamber and main thread are concurrent and joined by two FIFO channels. The
network settles in any order, or never. A chamber may fail and is not restarted.

### What is hard, and what makes each part correct

* **Runtime.** An event crosses five queues (ring, inbox, outbox, held list,
  flush list) while consent changes, the page is hidden and messages that throw
  end loops half way. Correct: each beacon-to-be has one fate and leaves at most
  once, only under the verdict of the moment it leaves, in order, within the
  ceiling; nothing disappears unreported; the ring never strands.
* **Broker.** Several chambers mint for one identity at once, and a mint may
  fail with others waiting. Correct: one mint per key reaches the network,
  all callers of a key get one identity, a failed mint fails only those who
  waited for it, and nobody waits for ever.
* **Wrapped SDK.** One slot for the open event, a timer racing the network, a
  boot that may fail in two ways, consent that changes on both threads. Correct:
  events settle in turn and by their own reports, each fetch is answered once,
  the seal judges by the newest vector, alloy hears every update in order.
* **Boot and OneTrust.** `boot()` awaits each connector while another `boot()` may
  overtake it and a connector may throw; OneTrust loads late, changes, and calls two
  surfaces; the document stays wired to the first boot. Correct: no Worker
  outlives its composite, only the live composite holds OneTrust's slots, all its
  connectors follow OneTrust, a revoke stops egress.
* **Boxes.** Reserved and hidden before any connector boots, filled by decisions
  that come late, twice or for nothing, shown by a timer. Correct: no box stays
  hidden, and an exposure is reported once, of what was shown.
* **Identity.** Digests settle in any order while further values and batches come.
  Correct: the last value given wins, and the host's cache is never behind a batch.
* **Worker DOM.** Batches are applied in slices that yield. Correct: the page
  becomes what the tag's calls make of it, in order.
* **Tag suppressor.** Patches natives that other scripts patch too. Correct: it
  suppresses all and only what it should, and takes nobody's wrapper out.
* **Visitor cookies.** Read, awaited and written back. Correct: boots that do not
  overlap tell one visitor's story.
* **Mappers and filters.** Pure, but with limits, aliasing, consent and two sides that
  must agree on an endpoint.

`hazards` in `PROJECT.json` lists each at its line.

## 2. Modules

| module | what it is |
|---|---|
| `Consent` | `resolveConsent`, `egressVerdict` and the merge of two vectors, as operators |
| `Airlock` | one `createAirlock()` instance with its chamber and synchronous dispatcher |
| `EgressSeal` | abstract: accepted beacons are sent at most once, and only while the seal is open |
| `AirlockSeal` | the refinement mapping from `Airlock` to `EgressSeal` |
| `CoalescingBroker` | `createCoalescingBroker()` |
| `MintRegister` | abstract: per key a register written once, calls that read it or fail |
| `BrokerRegister` | the refinement mapping from `CoalescingBroker` to `MintRegister` |
| `WrappedSdkHost` | `bootAlloy()`'s handle, the host at the seal and the alloy chamber, around an external alloy |
| `ConsentBoot` | `boot(config)`, the composite on `window.airlock` and the OneTrust driver |
| `Boxes` | placements, handles, decisions, backstops and exposures |
| `PixelIdentity` | a pixel instance's identity, from the host to its hashes and back |
| `WorkerDom` | a tag's DOM in a Worker and its batches on the page |
| `TagSuppressor` | the patched methods, other scripts' wrappers, matchers |
| `Ga4Session` | boots that share the visitor's analytics cookies |
| `Page` | the five above as scenes of one specification |
| `Ga4Coalesce`, `PayloadGovernance`, `Connectors`, `BootConfig` | the pure parts, as operators |
| `Mappers` | the calls the program makes of them |
| `MCAirlock`, `MCBroker`, `MCWrappedSdkHost`, `MCConsentBoot`, `MCPage`, `MCMappers` | constants of the instances TLC checks |
| `AirlockProofs`, `AirlockFateProofs`, `BrokerProofs`, `WrappedSdkHostProofs`, `ConsentBootProofs`, `BoxesPixelProofs`, `PageProofs`, `MappersProofs` | theorems and proofs |

### Airlock

State is named after the code: `consentVector`, `heldBeacons`, `log`, `ring`,
`scheduled`, `disposed`, `used` (the dispatcher's keepalive bytes),
`dispatched`. The descriptors, requests and held items carry what the code's
objects carry as far as a property can tell them apart: a `seq`, a type or form
and a destination. `<<seq, form>>` is a *key*: one beacon-to-be of one event.

Handlers are atomic in the code, but their loops call the network and may
throw, so a loop is one iteration a step: `readyTodo` and `groups` are the two
phases of `worker.onmessage`, `flushTodo` the flush inside `setConsent`,
`syncTodo` and `tracker` the unload flush and its inner loop over trackers.
While one runs (`~Idle`) no other main-thread handler starts; the chamber goes
on. Actions: `push`, `pushCritical`, `setConsent`, `flushNow`, `dispose` (the
host), `Hide`, `Show`, `PageHide`, `WorkerFails` (the browser), `StartBatch`,
`RouteEvent`, `PostReady` (the chamber), `drain`, `onmessage`, `GateRequest`,
`DispatchGroup`, `FlushHeld`, `SyncDispatch`, `FetchSettles`,
`flushNowContinues` (the main thread's tasks and loops).

Connectors are constants: `FormsOf` says to which requests an event maps,
`RemapDest` what the re-map hook returns, `CoalescedDest` where the coalesce
hook sends what it merged (any partition of a group is admitted),
`Malformed` which names make the mapper throw, `Uncloneable` which payloads
`postMessage()` refuses. `egressed`, `reported` and `abandoned` are history.

### CoalescingBroker

One run of `handleInterceptedFetch()` between two awaits is one action:
`Passthrough`, `LateSuppressed`, `HoldInFlight` and `FirstMint` are the four
ways a call starts, `PassthroughSettles`, `MintResolves`, `MintRejects` and
`HeldResumes` the ways it ends. `inFlight` and `completed` are the two maps; a
call is named by a constant and so is the identity the server mints for it.

### WrappedSdkHost

Main thread: `push`, `driveEvent`, `setConsent`, `dispose`,
`handleConfigured`, `handleResult`, `handleFatal`, `dispatchInterceptedFetch`,
`timeout`. Network: `NetworkSettles`. Chamber: `chamberBoot`,
`configureSettles`, `applyConsent`, `drive`. Alloy as the chamber sees it:
`alloySendsCommand`, `alloySendsEvent`, `alloyDeclines`, `commandAnswered`,
`eventAnswered`; whether alloy adopts a consent value whose request failed is
left open, since the repository does not fix it.

### ConsentBoot

`boot()` is cut at its awaits: `startBoot` (up to the first connector),
`bootConnector` (one iteration), `bootFails` (the catch block) and `finishBoot`
(createComposite, subscribe, installOnWindow). All that a connector's boot awaits are
cookie capabilities that read and write `document.cookie` at once
(`adapters/eds/cookies.js:30-46`), so these steps are microtasks of one task. Between
them come the steps of other boots of that task and the page's own code (`dispose`,
`push`); `loadOneTrust`, `change`, `callSurface` and `interact` come with a task of
their own and wait until no boot is under way (`NewTask`). Up to `MaxBoots` calls
run, each after the other has started. The driver's state is what it writes on the
host's objects: which surfaces have the trampoline (`wired`) and whose handler it
calls (`activeHandler`). OneTrust is external: `loadOneTrust`, `change`, and
`callSurface`, one surface at a time. `dispose` is the host's, `push` and
`interact` are events of the page; `interact` goes to the handle the document was
wired to first (`listener`). A connector, which is an `Airlock`, is reduced to its
vector, its Worker and whether it holds beacons.

### The scenes of Page

The five parts below share no state, so their product would say no more than each
alone: `Page` lets one of them move in each behaviour.

* `Boxes`: `reservePersonalization` (before paint, the `reservedPlacements` map,
  with `reveal` scheduled), `bootAlloy` (a new exposure reporter), `deliver` and
  `decide` (a message, one decision of it at a time), `release` (the host's) and
  `backstop` (the timer). Boxes are elements a selector matches, and two scopes may
  share one; a handle's `revealed` is its closure's flag. A page's Trusted Types may
  refuse writes.
* `PixelIdentity`: `setIdentity` and `sendEvents` on the main thread, `ingestIdentity`
  (one message opens one digest a field that changed), `digestSettles` in any order,
  `routeBatch`, `onChamberMessage`; `pushCritical` merges the main thread's
  cache. Hashes are values of their normalized text.
* `WorkerDom`: a tag's task starts, calls the mirror, ends in a `drain` or a throw;
  its batch is received and applied an op at a time, with a yield where the
  scheduler's slice ends. Refused ops and missing nodes follow `applyOne`. The tag's
  calls are recorded a second time, in their own order, in `inOrder`.
* `TagSuppressor`: per method a stack of wrappers, from the native up. Install,
  uninstall, another script's wrap and restore; insertions, beacons, `fetch` and
  `XMLHttpRequest` between `open()` and `send()`, the latter with the patches in
  place at each.
* `Ga4Session`: a boot's reads and writes of `_ga` and of `_ga_<stream>` are steps of
  their own, between which time passes and other boots read and write.

### Mappers

The functions are operators over small texts and records: `Ga4Coalesce` (the bytes
of a line are those of its parts), `PayloadGovernance` (payloads as heaps of
objects, so that sharing is visible), `Connectors` (a request is endpoint, matrix
segments, query and body), `BootConfig` (`boot(config)` as a function of its
config). `Mappers` makes one call a behaviour, of the kind and with the inputs the
program makes it: `Coalesce`, `Govern`, `Release`, `Serve`.

## 3. Checks

| run | what it asks | instance |
|---|---|---|
| `airlock_floodlight` | `TypeOK`, `AtMostOnce`, `OneFate`, `HeldOnlyWhileBlocked`, `AsyncOrder`, `CeilingRespected`, that the runtime implements `EgressSeal`, and `EveryPushSettles` under fairness | an event of two forms and one of none, hold on denied, a re-map on grant that strays for one form; 2 pushes, 1 pushCritical, 3 consent updates, 1 hide |
| `airlock_ga4` | `NoSilentLoss`, `RingHasDrain`, `CeilingRespected`, `CriticalFirst`, `QuietAfterDispose` | two trackers (one off the ceiling), coalescing that merges and strays, a budget of two bodies, a malformed and an uncloneable payload; 3 pushes, chunks of 2 |
| `broker` | `TypeOK`, `OneIdentity`, `OneMintPerKey`, `HeldSharesFate`, refinement of `MintRegister`, `HeldSettles` | four calls of one datastream, one of another, one that is no mint |
| `sdk` | `TypeOK`, `AnsweredOnce`, `ConsentReachesAlloy`, `EventsInTurn`, `SealIsLive`, `EventsSettle` under fairness | boots with pending and with granted consent, configure may fail, another tenant overridden, an undeclared endpoint; 2 events, 2 updates |
| `boot` | `NoLeak`, `SlotIsLive`, `LiveFollowsOneTrust` | an analytics and an advertising connector, two boots, two changes between three sets of groups, the second connector may throw |
| `page` | `HiddenHasBackstop`, `ExposureFollowsDisplay`; `CachesAgree`, `LatestIdentityWins`; `BatchesInOrder`; `SuppressionHonest`; `SessionsCounted`; and `HiddenSettles` under fairness | two boxes on one element, a scope twice, an invalid one; two identity updates; two tasks of a tag, two nodes; two other wrappers; three boots with a timeout of one unit of time |
| `mappers` | `SplitWithinLimits`, `StripsSinglySpelled`, `ReleasedAsConsented`, `AcceptedIsServed` | batches of up to four requests against limits of 2 events and 18 bytes; payloads that share objects and repeat spellings; every connector and vendor with fields given, missing and wrong |
| `airlock_retained`, `broker_selfheal`, `sdk_fatal`, `boot_revoked`, `mappers_spelling` | each refutes one statement of the documentation or a comment (section 5) | smallest instance that shows it |

**Bounds.** `MaxPushes`, `MaxCritical`, `MaxUpdates`, `MaxHides`, `MaxEvents`
bound what the environment does, never what the code does. Two pushes with a
chunk of one, or three with a chunk of two, give a ring with a rest behind the
chunk in flight; three updates give hold, grant, revoke with a beacon held on
each side; two updates show a revocation and an order of two commands. One hide
shows the flush; a second one finds the same state with a shorter ring. The
budget of two bodies is passed inside one event's fan-out. Four callers of one
key have one mint, two behind it and a late one, and still a second mint after a
failure. Two boots give every overlap of two
(either finishes first, either fails, one replaces the other while OneTrust calls);
two changes give a grant and a revocation on either side of an await.
`Chunk` and `BudgetBytes` are 50 and 64 KiB in the code and arbitrary
in the proofs. In `page`, two boots of the page give a second reporter over the first's handles;
two messages a boot repeat a decision; three identities (one at boot) overtake each
other by pairs; two batches are one being applied and one that comes; three boots
and three units of time give a continuation, a new session and two boots that overlap. In
`mappers` the limits 25 and 60000 are constants so small that four requests pass both,
and a payload is read to a `Depth` of three keys.
`broker`'s and `sdk`'s type invariants are run; those of `ConsentBoot`, `Boxes` and
`PixelIdentity` are proved.

Deadlock checking is off for `Airlock`, `WrappedSdkHost`, `ConsentBoot` and `Page`,
where the page may go away or the host may simply stop, and for `Mappers`, whose
behaviours are one call; the broker is checked for deadlock.

**Fairness.** `Airlock`: the idle callback has a timeout, the event loop
delivers messages, a started loop goes on, fetches settle, a live chamber works;
nothing is assumed of host or user. `WrappedSdkHost`: both event loops, the
timer and alloy proceed; the network is *not* assumed to answer, which is the
point of the timer. `CoalescingBroker`: `dispatch()` settles one way or the
other (it is `fetch()`, or the host's dispatch behind the timer) and
continuations run. `Boxes`: `setTimeout` fires (`backstop`) and a message in hand is
worked off (`decide`); neither alloy nor the host need do anything.

## 4. Proofs

All theorems hold for every value of the constants that the modules' `ASSUME`s
admit, thus for any number of pushes, updates, hides, calls and keys.

`AirlockProofs`:

* `TypeCorrect` (`TypeOK`). The loop over trackers needs the strengthening
  `TrackerInRange` (the index stays within the head's forms), since a fetch
  reads `forms[tracker]`.
* `NothingHeldWithoutReason` (`HeldOnlyWhileBlocked`): inductive with the types.
  The step that matters is `setConsent`: the edge to "send" takes the whole list.
* `RingNeverStrands` (`RingHasDrain`), through `RingFromLog`: what is in the ring
  was pushed, so a batch that failed to clone leaves its mark on the log.
* `CeilingHolds` (`CeilingRespected`), through `GroupsInCeiling`: what survived
  the first check is a group within the ceiling until it is dispatched, and what
  a coalesce or re-map hook moved is checked again.
* `DisposedIsQuiet` (`QuietAfterDispose`), through `Quiet`: once disposed, with
  the chamber gone, no loop over a reply or the ring can be open.
* `CriticalGoFirst` (`CriticalFirst`), through `SyncSorted`: no critical event is queued
  behind another, at the sort and as the queue shrinks.

`AirlockFateProofs` follows every beacon-to-be (a key) through the runtime:

* `FetchedAtMostOnce` (`AtMostOnce`), `FateIsOne` (`OneFate`) and `NothingLostSilently`
  (`NoSilentLoss`), from one inductive invariant, `FateInv`. The queues, the loops in
  progress, the job of the chamber, what is held, sent and reported are eleven *places*;
  `Placement` gives the keys of each. No two places share a key, within a place what its
  reader takes one by one does not overlap, and no key is of an event not yet pushed.
  Every action then is one of three moves, each with its lemma: keys go from one place
  to another or are lost (`Move`), come in with a new number (`Arrive`), or stay.
  Nothing is lost while the chamber is up but what `abandoned` notes (`CoveredStep`).
* `AirlockIsSeal` (`ImplementsSeal`): a step that sends is the seal's Send, one at a time,
  of keys the seal has pending; one that reports or forgets is GiveUp, a new event is
  Accept, the rest stutter. That a fetch leaves only under the verdict "send" needs
  `GateOpen`: a group or a flush in progress was let through by the gate and nothing
  changes consent before it is dispatched.
* `PushOrderKept` (`AsyncOrder`), from `TurnInv`. The places of the worker path form a
  line, from the fetches back to the ring; along it, and within each place, the numbers
  rise. A request held enters behind the earlier ones, and none overtakes a flush, because a flush
  and a reply are never in progress together (`LoopsApart`) and something is held only
  while all that arrives is (`HeldOnlyWhileBlocked`).

`BrokerProofs`: one inductive invariant for all. It says that the registered
call is the first mint of its key (`RegisteredIsFirst`), what is retained was
returned (`RetainedIsReturned`), a settled call is done (`SettledIsDone`), a held
call waits behind a mint of its own key (`HeldBehindMint`), a passthrough is no
mint (`PassthroughIsNoMint`) and every answer of a key is the retained one
(`AnswerIsRetained`). From it `BrokerTypeCorrect`, `NoSplitIdentity`,
`SecondMintNeverLeaves`, `HeldEndsAsItsMint`, and `BrokerIsRegister`: the initial
states map to initial states and every action maps to Write, Read, Fail or a
stutter.

`WrappedSdkHostProofs`: `TInv` types the state and the messages on the two channels,
and says that the init message comes first and that only a boot that failed reports
without an event. On it rest three independent invariants and a step property:

* `FetchAnsweredOnce` (`AnsweredOnce`), through `FetchInv`: an id is on its way to the
  host, or unanswered, or answered once, never two of these, and no larger than the counter.
* `EventsSettleInTurn` (`EventsInTurn`), through `EventInv`: the driven events are a
  prefix of those pushed and only the last may be open (`Chain`); the open one has at
  most one token, in the queue for the boot, in the chamber's channel, with alloy, or
  in a report on its way back (`TokenInv`), so a report always finds the promise it
  is for; and before the chamber is ready nothing was sent (`BootInv`).
* `ConsentFollows` (`ConsentReachesAlloy`), through `ConsentInv`: the vectors on their
  way have growing domains, the last is the page's and the chamber's is contained in
  the first, so that merging one gives exactly it.
* `SealAlwaysLive` (`SealIsLive`): by cases on the steps; only the seal's own one
  hands a request to the network.

`HostTypeCorrect` is the type invariant.

`ConsentBootProofs`: `BootInvariant` is one inductive invariant; `BootTypeCorrect`,
`NoWorkerLeaks`, `SlotNeverStranded` and `LiveFollows` follow from it. It ties a boot's
phase to the connectors it has booted and to its composite, a Worker to a boot that
is under way or installed, and a handler slot to a boot that has finished and was not
disposed of unless a later one took the slot; `dispose` preserves it because the driver
compares before it clears.

`BoxesPixelProofs`, of the boxes: `NoBlankBox` needs that what was hidden was hidden by a handle that was
then given a timer (reserving is one task), that a timer only goes when its handle
reveals, and that revealing shows the element: so another handle's reveal of
the same element never leaves one hidden without a timer. `ExposuresAreDisplays` needs
that what is exposed is in `seen`, and that a key enters `seen` and `exposures` in one step.

Of the identity channel: `CachesNeverPart` is inductive with the types once `CacheAfter` of a longer
queue is related to the shorter one's. `LastIdentityHashed` needs a statement for each
of the three places a value can be, the queue to the chamber, an open digest, the
hashes: the last value of a field is the last of the queue; or, with none queued,
the one the open digests hold; or, with none open, the one hashed.

`PageProofs`, for any other scripts, URLs, boots, clock, nodes and tasks:

* `SuppressorIsHonest` (`SuppressionHonest`): the wrappers of each method are counted
  through every wrapping and unwrapping; `MatchersOK` (nothing to match unless installed)
  is what makes a wrapper of ours that was left behind harmless, and `OpenSeen` what lets
  `send()` be judged on a URL noted at `open()`.
* `SessionsAreCounted` (`SessionsCounted`): as long as no write fell between another's read
  and write, what a boot has read is the jar's (`ReadIsJar`), so the jar's count goes up
  with the sessions begun (`Tallied`, a cardinality), no count or id of a beacon is beyond
  the jar's (`Topped`, `Numbered`), and the clock orders the session ids (`HitsPast`).
* `BatchesAreInOrder` (`BatchesInOrder`), from `DomInv`. `ApplyAll` and `Delivered` fold
  over ops and messages, so their laws (`ApplyHead`, `DeliverHead`, `DeliverLast`) are
  proved by induction over the length, in the form "a nonempty set of naturals has a
  least element" (`LeastOf`, from well-founded induction): `PagesExist` and `PagesAgree`
  say there is one sequence of pages and `ApplyAll` is its last. With them a step takes
  the first op of a batch without changing what the whole will make of the page
  (`TookAlone`), and the end of a task adds the same ops to both sides. That an allowed
  node is never missing rests on where its creation is: on the page, in a batch under way
  or in an earlier message (`NoneMissing`), and in each of these before its uses
  (`MessagesBacked`); tasks reach the page in their order (`InTurn`), so a batch begun never
  replaces one under way, and a batch nobody overlapped is alone (`Lone`).

`MappersProofs`, for any configs, pages, events and consents (behaviours of one step, so
that the work is in the operators and not in an induction):

* `ReleaseSaysConsent` (`ReleasedAsConsented`): `Remaps` says when one beacon is another's
  re-map, over whatever carries their parameters, query or path; `CarriedInPath` shows that
  the path segments of a Floodlight activity carry what a query would, and the three
  requests that hold (Google Ads, Floodlight's collect and activity) are then instances.
  `GcsSays`, `GcdSays`, `NpaSays` are what the consent strings say of a vector.
* `AcceptedConfigServes` (`AcceptedIsServed`): a lemma per type of connector says that what
  it sends lies within the endpoints its entry declares (`SendsInside`), that it sends nothing
  for an event it is not routed (`PassesBy`), and something for one it is (`Answers`);
  `ValidBoots` that validation and boot agree. The proof showed what TLC's instance had left
  out: a `ga4` entry with an empty list of endpoints is accepted and sends nothing.
* `SinglySpelledNeverCrosses` (`StripsSinglySpelled`): what a chamber can read is defined
  level by level (`Reached`), what the code does field by field and ancestor by ancestor; the
  proof brings the two together. While a denylist is gone through, `Governed` holds of the heap
  after each entry: the host's objects lie untouched before the copies (`Kept`), nothing in the
  heap refers to the copy `g` itself (`Sound`), and of `g` only what the entries done so far deny
  can no longer be read, and all of that which is not below an ancestor spelled twice; or a
  getter threw (`Failed`). One entry hits or misses: a hit replaces the ancestors by clones, each
  pointed at the next, and drops from the last what the name spells, so that what is lost is
  exactly the paths through it, by induction over their length; a path the entry denies that is
  not one of these lies below a key with a twin (`SpelledTwice`), and so does one a miss leaves
  behind. Earlier entries only take paths away, so a twin there now was there in the payload.
  Nothing is claimed of the paths below twins: `mappers_spelling` shows one that crosses.
* `EventsGoOutOnce` (`SplitWithinLimits`): the model defines its selections, counts, sums and
  joins as functions on intervals, and their laws are proved once by induction over what is
  appended (`SeqsAll`): `SelJoin`, `SelMap`, `TimesParts`, `SumJoin`, `FlatJoin`, `MapJoin`.
  `LineSays` is what a body line keeps of a request, every per-event parameter as often as it
  was there and one marker; `FitsIs` counts the same bytes line by line or over the whole body.
  A turn of the split preserves `SplitInv`: what is closed and what is open is what was taken so
  far, the closed posts are `Packed` (each fits or is one line, none had room for the first of
  the next), and the open one fits and had no room in the last closed (`TurnCloses`, `TurnStays`,
  `TurnAlone`, `TurnFits`). The groups follow the first of each signature (`HeadsOf`); joined,
  those of one signature are found again as its group (`Gathered`), and two posts of different
  groups owe each other nothing (`SplitJoin`).

They assume that the value that stands for an absent field is none of a field's values
(`OmittedAssumption`, `MappersAssumption`), that a payload is a heap of objects without two
fields of one key and a denylist a sequence of names (`PayloadOK`, `DenylistOK`,
`GovernanceAssumption`), and that the default of `helix-rum`'s base URL parses
(`DefaultsAssumption`; it is a literal in the code); and of GA4 that its limits are positive,
that `en` and `_et` are per-event keys and the injected `_ee` is none (`CoalesceAssumption`).

Only model-checked: liveness (`EveryPushSettles`, `HeldSettles`, `EventsSettle`,
`HiddenSettles`; temporal reasoning under fairness and ENABLED are beyond the prover). No module uses a RECURSIVE operator; what is defined by recursion is a
function on an interval, about which the induction above can be made.

## 5. Where code and documentation disagree

* `airlock_retained`: `docs/architecture.md:188` retains events awaiting consent
  until page unload; hiding the page runs them through a gate that cannot hold
  (`core/airlock.js:656`).
* `broker_selfheal`: `core/coalescing-broker.js:41-48` lets a retry mint past an
  Edge 5xx; a resolved 5xx is retained and replayed.
* `sdk_fatal`: `adapters/eds/index.js:1705` keeps the chain alive past a fatal;
  after the boot's fatal the next event waits for ever for a `configured` phase.

* `boot_revoked`: ADR-0007 stops egress on a revoke, and dispose() is said to tear
  down every listener set; `wireInteractions` wires the document once, to the first
  boot's handle (`adapters/eds/index.js:194`), and after a second boot interactions
  still leave under the disposed handle's last vector.
* `mappers_spelling`: `core/payload-governance.js:56-58` and 193-194 promise that a denied
  path goes in every case variant at each level; `stripDottedPath` follows only the first
  spelling of an ancestor (161). Of a payload with `u` and `U`, denylist `u.p`, where `u` has
  no `p`, `U.p` crosses and nothing is reported as stripped. `StripsSinglySpelled` is what
  holds without that promise.

Comments that overstate, found on the way and not worth a run of their own: `core/airlock.js:168-169` speaks of the ceiling on every
dispatch, while a held beacon that is re-sent skips it, on purpose (819-824);
`CeilingRespected` states what the code does promise. `adapters/eds/dom-apply.js` lists two causes of a missing
node; a batch that overlaps another is a third, which `BatchesInOrder` names.

## 6. Not modelled

In the modelled parts: hooks (re-map, coalesce) that throw; the projection behind
`getState`; cookie write-backs and payload strips of the SDK host except the
personalization query; the chamber's window and cookie shims; how a URL is parsed.
ConsentStrict is checked in the SDK host, whose seal is strict; for `Airlock` it is
covered by the proofs, which hold for both values, and not by a run. In `ConsentBoot`:
`setConsent()` called by the host, a host that calls OneTrust's own API in the very
task of a boot, exposure and block observers, the parsing of OneTrust's group string (a set of groups, or
unresolved). In `Boxes`: a box's height and markers; the key `scope:id` of an exposure
is a pair. In `WorkerDom`: style and class values. In `Connectors`: percent-encoding,
protocol constants, the session flags on a GA4 request (`Ga4Session` has them), the
bundle's own requests. Unbounded by design and therefore without a property: the held
list (`core/airlock.js:497`).

Other components, and why: `cookie-scope.js`, the sanitizer and egress confinement parse
strings or patch globals once, without state a model checker would add to; the
inspector collects and shows diagnostics and influences nothing; the chamber Workers of
single connectors are `core/chamber.worker.js` with another connector bundled; build, rig,
probes, baseline and tests are tooling (about half of the repository's lines).

## 7. How the project grew, and what would come next

The order follows how much of the promise "nothing leaves without consent, nothing
is lost or sent twice" rests on the part: `Airlock` and its seal, the broker and its
register, the wrapped SDK, boot and OneTrust, then the page's parts and the pure
functions, each with a run; proofs of the runtime and the broker first, then boot,
boxes and identity.

Next would be: a composition of two wrapped SDK hosts with the broker (a timed-out mint
that later completes); hooks that throw.
