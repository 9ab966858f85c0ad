------------------------------ MODULE Airlock ------------------------------
(***************************************************************************)
(* One createAirlock() instance (core/airlock.js) with its connector       *)
(* chamber (core/chamber.worker.js, core/connector-host.js) and its        *)
(* synchronous dispatcher (core/egress.js).                                *)
(*                                                                         *)
(* Two threads run concurrently: the page's main thread and the chamber's  *)
(* Worker, joined by two FIFO channels. A main-thread handler runs to      *)
(* completion, but its loop over messages, held beacons or ring entries    *)
(* is modelled one iteration a step, so that the chamber can move in       *)
(* between and a throw can leave the loop half done. While a loop is in    *)
(* progress (~Idle) no other main-thread handler starts.                   *)
(***************************************************************************)
EXTENDS Integers, Sequences, FiniteSets, Consent

CONSTANTS
    Types,           \* event names a page pushes
    UnloadCritical,  \* opts.unloadCritical: the names flushed first at unload
    Malformed,       \* names whose payload makes the connector's mapper throw
    Uncloneable,     \* names whose payload postMessage() cannot clone
    FormsOf,         \* [Types -> Seq(form)]: the requests one event maps to
    Dest,            \* [form -> destination] of a mapped request
    Ceiling,         \* opts.endpoints as destinations; {} turns the ceiling off
    RemapDest,       \* [form -> destination], or NoBeacon where remap declines
    NoBeacon,
    CoalescedDest,   \* [destination -> SUBSET destination]: where the coalesce
                     \* hook may send what it merged for a group
    Coalesce,        \* opts.coalesce is a function
    EgressPurposes,  \* opts.egressPurposes
    ConsentStrict,   \* opts.consentStrict
    HoldOnDenied,    \* opts.holdOnDenied
    RemapWired,      \* opts.remap is a function and requests carry `event`
    BootConsent,     \* opts.consent
    ConsentUpdates,  \* the vectors the host passes to setConsent()
    Budgeted,        \* the dispatcher counts keepalive bytes (no requestMapper)
    Bytes,           \* [Types -> Nat]: size of a mapped body
    BudgetBytes,     \* KEEPALIVE_BUDGET_BYTES (64 KiB in the code)
    Chunk,           \* ring entries drained a cycle (50 in the code)
    NoJob,           \* the chamber maps no batch
    MaxPushes,       \* bound: push() calls
    MaxCritical,     \* bound: pushCritical() calls
    MaxUpdates,      \* bound: setConsent() calls
    MaxHides         \* bound: times the page is hidden

Forms        == DOMAIN Dest
MappedDest   == {Dest[f] : f \in Forms}
Destinations == MappedDest \cup ({RemapDest[f] : f \in Forms} \ {NoBeacon})
                           \cup UNION {CoalescedDest[d] : d \in MappedDest}

ASSUME ConstantsAssumption ==
    /\ UnloadCritical \cup Malformed \cup Uncloneable \subseteq Types
    /\ DOMAIN FormsOf = Types
    /\ \A t \in Types :
          /\ FormsOf[t] \in Seq(Forms)
          /\ \A i, j \in DOMAIN FormsOf[t] : FormsOf[t][i] = FormsOf[t][j] => i = j
    /\ DOMAIN RemapDest = Forms
    /\ MappedDest \subseteq DOMAIN CoalescedDest
    /\ EgressPurposes \subseteq CONSENT_PURPOSES
    /\ BootConsent \in ConsentVector /\ ConsentUpdates \subseteq ConsentVector
    /\ {Coalesce, ConsentStrict, HoldOnDenied, RemapWired, Budgeted}
            \subseteq BOOLEAN
    /\ Bytes \in [Types -> Nat] /\ BudgetBytes \in Nat
    /\ Chunk \in Nat \ {0}
    /\ {MaxPushes, MaxCritical, MaxUpdates, MaxHides} \subseteq Nat

VARIABLES
    \* ---- main thread: state of the instance
    consentVector, heldBeacons, log, ring, scheduled, disposed, used,
    dispatched,    \* fetches of the worker path that have settled
    \* ---- main thread: the loop in progress
    readyTodo,     \* worker.onmessage, phase 1: requests not yet gated
    groups,        \* worker.onmessage, phase 2: what is left to dispatch
    syncTodo,      \* unloadFlush / pushCritical: descriptors left to dispatch
    tracker,       \* critical.dispatch: index of the next request of the head
    flushTodo,     \* setConsent: held beacons left to flush
    flushingNow,   \* flushNow(): the `while (ring.length)` loop is running
    \* ---- chamber and channels
    worker, inbox, job, outbox,
    \* ---- environment
    page, pushedCritical, updates, hides, unsettled,
    \* ---- history
    egressed,      \* every fetch() issued, in order
    reported,      \* keys whose drop was diagnosed or counted
    abandoned      \* events lost with a flush loop or a batch that threw

instance  == <<consentVector, heldBeacons, log, ring, scheduled, disposed, used>>
loop      == <<readyTodo, groups, syncTodo, tracker, flushTodo, flushingNow>>
chamber   == <<worker, inbox, job, outbox>>
bounds    == <<pushedCritical, updates, hides>>
settling  == <<unsettled, dispatched>>
history   == <<egressed, reported, abandoned>>
vars      == <<instance, loop, chamber, page, bounds, settling, history>>
-----------------------------------------------------------------------------
(* Shapes. A push()ed descriptor carries its `seq`; pushCritical() gives   *)
(* none, and the model numbers those events -1, -2, ... so that a key      *)
(* <<seq, form>> names one beacon-to-be of one event.                      *)
Descriptor == [seq : Int, type : Types]
Request    == [seq : Int, form : Forms, dest : MappedDest]
HeldItem   == [seq : Int, form : Forms, dest : MappedDest, remap : BOOLEAN]
Key        == Int \X Forms
Group      == [keys : SUBSET Key, dest : MappedDest]
Via        == {"worker", "resend", "remap", "sync"}
Beacon     == [keys : SUBSET Key, dest : Destinations, via : Via]
Job        == [todo : Seq(Descriptor), ready : Seq(Request),
               dropped : Seq(Descriptor)]
Message    == [ready : Seq(Request), dropped : Seq(Descriptor)]

(* "No batch" is not taken for one.                                        *)
ASSUME NoJobAssumption == NoJob \notin Job

KeyOf(r)   == <<r.seq, r.form>>
FormSet(t) == {FormsOf[t][i] : i \in DOMAIN FormsOf[t]}
KeysOf(d)  == {d.seq} \X FormSet(d.type)
seq        == Len(log)

SealVerdict == egressVerdict(consentVector, EgressPurposes, ConsentStrict,
                             HoldOnDenied)

holdIfOffCeiling(dest) == Ceiling # {} /\ dest \notin Ceiling

canRemap == HoldOnDenied /\ RemapWired

(* No main-thread loop is in progress and the page still runs tasks. *)
LoopDone == /\ readyTodo = <<>> /\ groups = <<>>
            /\ syncTodo = <<>>  /\ flushTodo = <<>> /\ ~flushingNow
Idle     == LoopDone /\ page # "gone"

Emit(keys, dest, via) ==
    egressed' = Append(egressed, [keys |-> keys, dest |-> dest, via |-> via])
-----------------------------------------------------------------------------
InstanceType ==
    /\ consentVector \in ConsentVector
    /\ heldBeacons \in Seq(HeldItem)
    /\ log \in Seq(Descriptor) /\ ring \in Seq(Descriptor)
    /\ scheduled \in BOOLEAN /\ disposed \in BOOLEAN
    /\ used \in Nat

LoopType ==
    /\ readyTodo \in Seq(Request) /\ groups \in Seq(Group)
    /\ syncTodo \in Seq(Descriptor) /\ tracker \in Nat \ {0}
    /\ flushTodo \in Seq(HeldItem) /\ flushingNow \in BOOLEAN

ChamberType ==
    /\ worker \in {"up", "failed", "terminated"}
    /\ inbox \in Seq(Seq(Descriptor))
    /\ job = NoJob \/ job \in Job
    /\ outbox \in Seq(Message)

EnvironmentType ==
    /\ page \in {"visible", "hidden", "gone"}
    /\ pushedCritical \in Nat /\ updates \in Nat /\ hides \in Nat
    /\ unsettled \in Nat /\ dispatched \in Nat

HistoryType ==
    /\ egressed \in Seq(Beacon)
    /\ reported \subseteq Key
    /\ abandoned \subseteq Int

TypeOK == /\ InstanceType /\ LoopType /\ ChamberType
          /\ EnvironmentType /\ HistoryType

Init ==
    /\ consentVector = BootConsent
    /\ heldBeacons = <<>> /\ log = <<>> /\ ring = <<>>
    /\ scheduled = FALSE /\ disposed = FALSE /\ used = 0
    /\ dispatched = 0 /\ unsettled = 0
    /\ readyTodo = <<>> /\ groups = <<>> /\ syncTodo = <<>>
    /\ tracker = 1 /\ flushTodo = <<>> /\ flushingNow = FALSE
    /\ worker = "up" /\ inbox = <<>> /\ job = NoJob /\ outbox = <<>>
    /\ page = "visible"
    /\ pushedCritical = 0 /\ updates = 0 /\ hides = 0
    /\ egressed = <<>> /\ reported = {} /\ abandoned = {}
-----------------------------------------------------------------------------
(* Capture: push() logs, rings and schedules. A nameless event is refused  *)
(* before it changes anything and is not modelled.                         *)
push(t) ==
    /\ Idle /\ seq < MaxPushes
    /\ LET d == [seq |-> seq, type |-> t]
       IN /\ log'  = Append(log, d)
          /\ ring' = Append(ring, d)
    /\ scheduled' = TRUE
    /\ UNCHANGED <<consentVector, heldBeacons, disposed, used, loop, chamber,
                   page, bounds, settling, history>>

(* worker.postMessage({ type: "events" }): a chamber that failed or was    *)
(* terminated takes the batch and never answers. One payload that cannot   *)
(* be cloned makes the call throw, after the batch has left the ring.      *)
Clones(batch) == \A i \in DOMAIN batch : batch[i].type \notin Uncloneable

sendBatch(batch) ==
    /\ inbox' = IF worker = "up" /\ Clones(batch) THEN Append(inbox, batch)
                                                 ELSE inbox
    /\ abandoned' = IF Clones(batch) THEN abandoned
                    ELSE abandoned \cup {batch[i].seq : i \in DOMAIN batch}

FirstChunk == IF Len(ring) < Chunk THEN Len(ring) ELSE Chunk
ThisChunk  == SubSeq(ring, 1, FirstChunk)

NextChunksSkipsOne == SubSeq(ring, FirstChunk + 2, Len(ring))
NextChunks == SubSeq(ring, FirstChunk + 1, Len(ring))

(* The loop goes on, unless the throw cut it short before that.            *)
NeverAgain == FALSE
Again == Clones(ThisChunk) /\ NextChunks # <<>>

(* The idle callback: one chunk a cycle, rescheduled while a rest remains. *)
drain ==
    /\ Idle /\ scheduled
    /\ \/ /\ ring = <<>>
          /\ scheduled' = FALSE
          /\ UNCHANGED <<ring, inbox, abandoned>>
       \/ /\ ring # <<>>
          /\ sendBatch(ThisChunk)
          /\ ring' = NextChunks
          /\ scheduled' = Again
    /\ UNCHANGED <<consentVector, heldBeacons, log, disposed, used, loop,
                   worker, job, outbox, page, bounds, settling, egressed,
                   reported>>

(* flushNow(): every chunk at once; an armed idle callback stays armed.    *)
FlushNowChunk ==
    /\ sendBatch(ThisChunk)
    /\ ring' = NextChunks
    /\ flushingNow' = Again
    /\ UNCHANGED <<consentVector, heldBeacons, log, scheduled, disposed, used,
                   readyTodo, groups, syncTodo, tracker, flushTodo,
                   worker, job, outbox, page, bounds, settling, egressed,
                   reported>>

flushNow == Idle /\ ring # <<>> /\ FlushNowChunk

flushNowContinues == flushingNow /\ FlushNowChunk
-----------------------------------------------------------------------------
(* The chamber: batches are mapped one at a time, one event a step; a      *)
(* mapper that throws loses that event only, and the reply names it.       *)
RequestOf(d, f) == [seq |-> d.seq, form |-> f, dest |-> Dest[f]]

handle(d) == [i \in DOMAIN FormsOf[d.type] |-> RequestOf(d, FormsOf[d.type][i])]

StartBatch ==
    /\ worker = "up" /\ page # "gone" /\ job = NoJob /\ inbox # <<>>
    /\ job' = [todo |-> Head(inbox), ready |-> <<>>, dropped |-> <<>>]
    /\ inbox' = Tail(inbox)
    /\ UNCHANGED <<instance, loop, worker, outbox, page, bounds, settling,
                   history>>

RouteEvent ==
    /\ worker = "up" /\ page # "gone" /\ job # NoJob /\ job.todo # <<>>
    /\ LET d == Head(job.todo)
       IN job' = IF d.type \in Malformed
                 THEN [todo |-> Tail(job.todo), ready |-> job.ready,
                       dropped |-> Append(job.dropped, d)]
                 ELSE [todo |-> Tail(job.todo),
                       ready |-> job.ready \o handle(d),
                       dropped |-> job.dropped]
    /\ UNCHANGED <<instance, loop, worker, inbox, outbox, page, bounds,
                   settling, history>>

PostReady ==
    /\ worker = "up" /\ page # "gone" /\ job # NoJob /\ job.todo = <<>>
    /\ outbox' = Append(outbox, [ready |-> job.ready, dropped |-> job.dropped])
    /\ job' = NoJob
    /\ UNCHANGED <<instance, loop, worker, inbox, page, bounds, settling,
                   history>>

(* The chamber dies (its script failed to load, the browser killed it):    *)
(* worker.onerror only reports it, nothing restarts it. Replies already    *)
(* posted are still delivered.                                             *)
WorkerFails ==
    /\ worker = "up" /\ page # "gone"
    /\ worker' = "failed" /\ inbox' = <<>> /\ job' = NoJob
    /\ UNCHANGED <<instance, loop, outbox, page, bounds, settling, history>>
-----------------------------------------------------------------------------
(* worker.onmessage. Phase 1 gates every request of the reply in order:    *)
(* the consent verdict first, the endpoint ceiling only after a "send".    *)
(* What survives is collected by destination when the connector coalesces, *)
(* one by one when it does not.                                            *)
onmessage ==
    /\ Idle /\ outbox # <<>>
    /\ readyTodo' = Head(outbox).ready
    /\ reported' = reported \cup
           UNION {KeysOf(Head(outbox).dropped[i]) :
                      i \in DOMAIN Head(outbox).dropped}
    /\ outbox' = Tail(outbox)
    /\ UNCHANGED <<instance, groups, syncTodo, tracker, flushTodo, flushingNow,
                   worker, inbox, job, page, bounds, settling, egressed,
                   abandoned>>

(* survivors, grouped by originPath in first-seen order.                   *)
AddSurvivor(r) ==
    \/ \E i \in DOMAIN groups :
          /\ Coalesce /\ groups[i].dest = r.dest
          /\ groups' = [groups EXCEPT ![i].keys = @ \cup {KeyOf(r)}]
    \/ /\ ~Coalesce \/ \A i \in DOMAIN groups : groups[i].dest # r.dest
       /\ groups' = Append(groups, [keys |-> {KeyOf(r)}, dest |-> r.dest])

Refused(r) == \/ SealVerdict = "drop"
              \/ SealVerdict = "send" /\ holdIfOffCeiling(r.dest)

Survives(r) == SealVerdict = "send" /\ ~holdIfOffCeiling(r.dest)

GateRequest ==
    /\ readyTodo # <<>>
    /\ LET r == Head(readyTodo)
       IN \/ /\ Refused(r)
             /\ reported' = reported \cup {KeyOf(r)}
             /\ UNCHANGED <<heldBeacons, groups>>
          \/ /\ SealVerdict = "hold"
             /\ heldBeacons' = Append(heldBeacons,
                    [seq |-> r.seq, form |-> r.form, dest |-> r.dest,
                     remap |-> canRemap])
             /\ UNCHANGED <<reported, groups>>
          \/ /\ Survives(r)
             /\ AddSurvivor(r)
             /\ UNCHANGED <<reported, heldBeacons>>
    /\ readyTodo' = Tail(readyTodo)
    /\ UNCHANGED <<consentVector, log, ring, scheduled, disposed, used,
                   syncTodo, tracker, flushTodo, flushingNow, chamber, page,
                   bounds, settling, egressed, abandoned>>

(* Phase 2: one fetch per survivor. The coalesce hook partitions a group   *)
(* into outputs of its own choice (coalesceGa4 merges what shares a        *)
(* context, within its limits); an output whose destination left the       *)
(* ceiling is held back and never fetched.                                 *)
Outputs(g) ==
    IF Coalesce THEN (SUBSET g.keys \ {{}}) \X CoalescedDest[g.dest]
                ELSE {<<g.keys, g.dest>>}

NoRecheck(dest) == FALSE
Strays(dest) == Coalesce /\ holdIfOffCeiling(dest)

GroupsAfter(K) == IF K = Head(groups).keys THEN Tail(groups)
                  ELSE [groups EXCEPT ![1].keys = @ \ K]

DispatchGroup ==
    /\ readyTodo = <<>> /\ groups # <<>>
    /\ \E out \in Outputs(Head(groups)) :
          /\ \/ /\ Strays(out[2])
                /\ reported' = reported \cup out[1]
                /\ UNCHANGED <<egressed, unsettled>>
             \/ /\ ~Strays(out[2])
                /\ Emit(out[1], out[2], "worker")
                /\ unsettled' = unsettled + 1
                /\ UNCHANGED reported
          /\ groups' = GroupsAfter(out[1])
    /\ UNCHANGED <<instance, readyTodo, syncTodo, tracker, flushTodo,
                   flushingNow, chamber, page, bounds, dispatched, abandoned>>

(* fetch() settles, resolved or rejected: either way it counts, and a      *)
(* rejection is diagnosed but never retried.                               *)
FetchSettles ==
    /\ Idle /\ unsettled > 0
    /\ unsettled' = unsettled - 1 /\ dispatched' = dispatched + 1
    /\ UNCHANGED <<instance, loop, chamber, page, bounds, history>>
-----------------------------------------------------------------------------
(* setConsent: merge, and on the edge to "send" flush everything held.     *)
StaleGrant == EgressPurposes # {} /\ SealVerdict = "send"
Grant == EgressPurposes # {} /\ SealVerdict' = "send"

TakeHeldNoSplice == flushTodo' = heldBeacons /\ UNCHANGED heldBeacons
TakeHeldReversed ==
    /\ flushTodo' = [i \in DOMAIN heldBeacons |->
                        heldBeacons[Len(heldBeacons) + 1 - i]]
    /\ heldBeacons' = <<>>
TakeHeld == flushTodo' = heldBeacons /\ heldBeacons' = <<>>

setConsent(update) ==
    /\ Idle /\ updates < MaxUpdates
    /\ updates' = updates + 1
    /\ consentVector' = MergeConsent(consentVector, update)
    /\ IF Grant THEN TakeHeld ELSE UNCHANGED <<flushTodo, heldBeacons>>
    /\ UNCHANGED <<log, ring, scheduled, disposed, used, readyTodo, groups,
                   syncTodo, tracker, flushingNow, chamber, page,
                   pushedCritical, hides, settling, history>>

(* A flush that trusts what the re-map hook returns.                       *)
LosesUnchecked(b, dest) == b.remap /\ dest = NoBeacon

(* A re-map item is rebuilt under the consent in force now, and may        *)
(* decline or leave the ceiling; a re-send item goes out as it was mapped. *)
FlushLoses(b, dest) == b.remap /\ (dest = NoBeacon \/ holdIfOffCeiling(dest))

FlushHeld ==
    /\ flushTodo # <<>>
    /\ LET b == Head(flushTodo)
           dest == IF b.remap THEN RemapDest[b.form] ELSE b.dest
           lost == FlushLoses(b, dest)
       IN \/ /\ lost
             /\ reported' = reported \cup {KeyOf(b)}
             /\ UNCHANGED <<egressed, unsettled>>
          \/ /\ ~lost
             /\ Emit({KeyOf(b)}, dest, IF b.remap THEN "remap" ELSE "resend")
             /\ unsettled' = unsettled + 1
             /\ UNCHANGED reported
    /\ flushTodo' = Tail(flushTodo)
    /\ UNCHANGED <<instance, readyTodo, groups, syncTodo, tracker, flushingNow,
                   chamber, page, bounds, dispatched, abandoned>>
-----------------------------------------------------------------------------
(* The synchronous path: no worker hop, no hold, no endpoint ceiling.      *)
pushCritical(t) ==
    /\ Idle /\ pushedCritical < MaxCritical
    /\ pushedCritical' = pushedCritical + 1
    /\ syncTodo' = <<[seq |-> -(pushedCritical + 1), type |-> t]>>
    /\ UNCHANGED <<instance, readyTodo, groups, tracker, flushTodo, flushingNow,
                   chamber, page, updates, hides, settling, history>>

(* Array.prototype.sort is stable: critical names first, ring order within.*)
RankReversed(d) == IF d.type \in UnloadCritical THEN 1 ELSE 0
Rank(d) == IF d.type \in UnloadCritical THEN 0 ELSE 1

StableSorts(s) ==
    {p \in [DOMAIN s -> DOMAIN s] :
        \A i, j \in DOMAIN s : i < j =>
            \/ Rank(s[p[i]]) < Rank(s[p[j]])
            \/ Rank(s[p[i]]) = Rank(s[p[j]]) /\ p[i] < p[j]}

unloadFlushKeepsRing ==
    /\ \E p \in StableSorts(ring) : syncTodo' = [i \in DOMAIN ring |-> ring[p[i]]]
    /\ UNCHANGED ring
unloadFlush ==
    /\ \E p \in StableSorts(ring) : syncTodo' = [i \in DOMAIN ring |-> ring[p[i]]]
    /\ ring' = <<>>

NextSyncFromZero == syncTodo' = Tail(syncTodo) /\ tracker' = 0
NextSync == syncTodo' = Tail(syncTodo) /\ tracker' = 1

(* criticalDispatchGated, then critical.dispatch: the loop over trackers.  *)
Ungated == TRUE
criticalGate == SealVerdict = "send"

SyncDrop(d) ==
    /\ ~criticalGate
    /\ reported' = reported \cup KeysOf(d)
    /\ NextSync
    /\ UNCHANGED <<used, egressed, abandoned>>

(* The mapper runs outside any try: its throw ends the whole flush loop.   *)
SyncThrow(d) ==
    /\ criticalGate /\ d.type \in Malformed
    /\ abandoned' = abandoned \cup {syncTodo[i].seq : i \in DOMAIN syncTodo}
    /\ syncTodo' = <<>> /\ tracker' = 1
    /\ UNCHANGED <<used, egressed, reported>>

SyncSend(d) ==
    /\ criticalGate /\ d.type \notin Malformed
    /\ LET forms == FormsOf[d.type]
           over  == Budgeted /\ used + Bytes[d.type] > BudgetBytes
       IN /\ \/ /\ forms = <<>>
                /\ UNCHANGED <<used, egressed, reported>>
             \/ /\ forms # <<>> /\ over
                /\ reported' = reported \cup {<<d.seq, forms[tracker]>>}
                /\ UNCHANGED <<used, egressed>>
             \/ /\ forms # <<>> /\ ~over
                /\ used' = IF Budgeted THEN used + Bytes[d.type] ELSE used
                /\ Emit({<<d.seq, forms[tracker]>>}, Dest[forms[tracker]], "sync")
                /\ UNCHANGED reported
          /\ IF tracker < Len(forms)
             THEN tracker' = tracker + 1 /\ UNCHANGED syncTodo
             ELSE NextSync
    /\ UNCHANGED abandoned

SyncDispatch ==
    /\ syncTodo # <<>>
    /\ LET d == Head(syncTodo) IN SyncDrop(d) \/ SyncThrow(d) \/ SyncSend(d)
    /\ UNCHANGED <<consentVector, heldBeacons, log, ring, scheduled, disposed,
                   readyTodo, groups, flushTodo, flushingNow, chamber, page,
                   bounds, settling>>
-----------------------------------------------------------------------------
(* Page lifecycle. The two listeners exist until dispose() removes them.   *)
ListenersStay == TRUE
Listening == ~disposed

FlushOnLeaving ==
    /\ IF Listening THEN unloadFlush ELSE UNCHANGED <<syncTodo, ring>>
    /\ UNCHANGED <<consentVector, heldBeacons, log, scheduled, disposed, used,
                   readyTodo, groups, tracker, flushTodo, flushingNow, chamber,
                   pushedCritical, updates, settling, history>>

Hide == /\ Idle /\ page = "visible" /\ hides < MaxHides
        /\ page' = "hidden" /\ hides' = hides + 1
        /\ FlushOnLeaving

Show == /\ Idle /\ page = "hidden"
        /\ page' = "visible"
        /\ UNCHANGED <<instance, loop, chamber, bounds, settling, history>>

PageHide == /\ Idle
            /\ page' = "gone" /\ UNCHANGED hides
            /\ FlushOnLeaving

(* Removes the two listeners and terminates the chamber, which discards    *)
(* everything queued in both directions. Nothing else is switched off.     *)
dispose ==
    /\ Idle /\ ~disposed
    /\ disposed' = TRUE
    /\ worker' = "terminated" /\ inbox' = <<>> /\ job' = NoJob /\ outbox' = <<>>
    /\ UNCHANGED <<consentVector, heldBeacons, log, ring, scheduled, used, loop,
                   page, bounds, settling, history>>
-----------------------------------------------------------------------------
Host    == \/ \E t \in Types : push(t) \/ pushCritical(t)
           \/ \E u \in ConsentUpdates : setConsent(u)
           \/ flushNow \/ dispose
Browser == Hide \/ Show \/ PageHide \/ WorkerFails
Chamber == StartBatch \/ RouteEvent \/ PostReady
Main    == \/ drain \/ onmessage \/ FetchSettles
           \/ GateRequest \/ DispatchGroup \/ FlushHeld \/ SyncDispatch
           \/ flushNowContinues

Next == Host \/ Browser \/ Chamber \/ Main

Spec == Init /\ [][Next]_vars

(* requestIdleCallback has a 50 ms timeout, the browser delivers messages  *)
(* and settles fetches, a loop once started runs on, and a chamber that is *)
(* up keeps working. Nothing is assumed of the host, or of the user.       *)
Fairness == /\ WF_vars(drain) /\ WF_vars(onmessage) /\ WF_vars(FetchSettles)
            /\ WF_vars(GateRequest \/ DispatchGroup \/ FlushHeld
                           \/ SyncDispatch \/ flushNowContinues)
            /\ WF_vars(Chamber)

FairSpec == Spec /\ Fairness
-----------------------------------------------------------------------------
(* Where a beacon-to-be is. *)
DescriptorKeys(s) == UNION {KeysOf(s[i]) : i \in DOMAIN s}
RequestKeys(s)    == {KeyOf(s[i]) : i \in DOMAIN s}

MessageKeys(m) == RequestKeys(m.ready) \cup DescriptorKeys(m.dropped)

SyncKeys ==
    IF syncTodo = <<>> THEN {}
    ELSE LET d == Head(syncTodo)
         IN {<<d.seq, FormsOf[d.type][i]>> : i \in tracker..Len(FormsOf[d.type])}
                \cup DescriptorKeys(Tail(syncTodo))

InTransit ==
    DescriptorKeys(ring) \cup SyncKeys
    \cup (UNION {DescriptorKeys(inbox[i]) : i \in DOMAIN inbox})
    \cup (IF job = NoJob THEN {}
          ELSE DescriptorKeys(job.todo) \cup MessageKeys(job))
    \cup (UNION {MessageKeys(outbox[i]) : i \in DOMAIN outbox})
    \cup RequestKeys(readyTodo)
    \cup (UNION {groups[i].keys : i \in DOMAIN groups})
    \cup RequestKeys(flushTodo)

Held      == RequestKeys(heldBeacons)
Sent      == UNION {egressed[i].keys : i \in DOMAIN egressed}
Abandoned == {k \in DescriptorKeys(log) : k[1] \in abandoned}
-----------------------------------------------------------------------------
(* An event's request is fetched at most once, whichever of the worker     *)
(* path, the held-beacon flush, pushCritical and the unload flush carries  *)
(* it: the fast path is the sole sender of what it sends (egress.js:15-19).*)
AtMostOnce ==
    \A i, j \in DOMAIN egressed :
        i # j => egressed[i].keys \cap egressed[j].keys = {}

(* A diagnostic is never wrong about a beacon's fate: what was reported    *)
(* dropped is neither sent nor still under way, and what was sent is not   *)
(* under way or held a second time.                                        *)
OneFate ==
    /\ Sent \cap reported = {}
    /\ (Sent \cup reported) \cap (InTransit \cup Held) = {}
    /\ InTransit \cap Held = {}

(* While the chamber is up, every request of every push()ed event is in    *)
(* transit, held, sent or reported; the holes are an unload flush that a   *)
(* mapper's throw cut short and a batch that could not be cloned.          *)
NoSilentLoss ==
    worker = "up" =>
        DescriptorKeys(log) \subseteq
            InTransit \cup Held \cup Sent \cup reported \cup Abandoned

(* Nothing stays buffered once consent lets it go: beacons are held only   *)
(* while the verdict on them is "hold" (airlock.js:476-530, 778-860).      *)
HeldOnlyWhileBlocked == heldBeacons # <<>> => SealVerdict = "hold"

(* A non-empty ring has its idle callback armed, whichever of drain,       *)
(* flushNow and the unload flush last touched it; only a batch that failed *)
(* to clone can leave a rest that waits for the next push().               *)
CloneFailed == \E i \in DOMAIN log : /\ log[i].type \in Uncloneable
                                    /\ log[i].seq \in abandoned

RingHasDrain == ring # <<>> => scheduled \/ CloneFailed

(* Per destination, the worker path keeps the order of the pushes, also    *)
(* across a hold and its flush; only the synchronous path may overtake, and*)
(* a coalesce hook may regroup what one reply brought.                     *)
AsyncOrder ==
    ~Coalesce => \A i, j \in DOMAIN egressed :
        /\ i < j /\ egressed[i].dest = egressed[j].dest
        /\ egressed[i].via # "sync" /\ egressed[j].via # "sync"
        => \A a \in egressed[i].keys, b \in egressed[j].keys : a[1] <= b[1]

(* What the worker path maps or a connector re-maps or coalesces leaves    *)
(* only for a declared endpoint.                                           *)
CeilingRespected ==
    \A i \in DOMAIN egressed :
        egressed[i].via \in {"worker", "remap"} => ~holdIfOffCeiling(egressed[i].dest)

NewBeacons == {egressed'[i] : i \in (Len(egressed) + 1)..Len(egressed')}

(* At unload the critical names go first: when a fetch for another name    *)
(* goes out, no critical event of the ring is still waiting behind it to   *)
(* find the keepalive budget spent.                                        *)
IsCritical(d) == d.type \in UnloadCritical

CriticalFirst ==
    [][\A b \in NewBeacons :
          b.via = "sync" /\ ~IsCritical(Head(syncTodo)) =>
             \A i \in DOMAIN syncTodo' : ~IsCritical(syncTodo'[i])]_egressed

(* After dispose() only the host itself can still cause egress, through    *)
(* setConsent() or pushCritical(): no ring event, no chamber reply.        *)
QuietAfterDispose ==
    [][disposed => \A b \in NewBeacons :
          \/ b.via \in {"resend", "remap"}
          \/ b.via = "sync" /\ \A k \in b.keys : k[1] < 0]_egressed

(* architecture.md:188 on events held for consent: "Retain until page      *)
(* unload [...]; flush if consent arrives before unload": while the        *)
(* verdict is "hold" a ring event is given up only when the page goes.     *)
RetainedUntilUnload ==
    [][\A k \in reported' \ reported :
          SealVerdict = "hold" /\ k[1] >= 0 => page = "gone"]_reported

(* Every pushed event gets out of transit: sent, held or reported, or      *)
(* swallowed by a dead chamber; only the end of the page excuses it.       *)
EveryPushSettles ==
    \A n \in 0..(MaxPushes - 1) :
        n < seq ~> page = "gone" \/ \A k \in InTransit : k[1] # n
=============================================================================
