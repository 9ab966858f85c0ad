--------------------------- MODULE AirlockProofs ---------------------------
(***************************************************************************)
(* What TLAPS proves of Airlock for every value of its constants: type     *)
(* correctness, and three safety invariants by induction on top of it.     *)
(***************************************************************************)
EXTENDS Airlock, SequenceTheorems, TLAPS

(* A sequence with one entry replaced by another of its type.              *)
LEMMA ReplaceInSeq ==
    ASSUME NEW S, NEW s \in Seq(S), NEW i \in DOMAIN s, NEW e \in S
    PROVE  [s EXCEPT ![i] = e] \in Seq(S)
<1>1. i \in 1..Len(s)
    BY LenProperties
<1> QED
    BY <1>1, ExceptSeq

LEMMA FunctionIsSeq ==
    ASSUME NEW S, NEW n \in Nat, NEW f \in [1..n -> S]
    PROVE  f \in Seq(S)
    BY SeqDef

(* A ring is drained from its front: both parts are rings.                 *)
LEMMA ChunkTypes ==
    ASSUME ring \in Seq(Descriptor)
    PROVE  /\ FirstChunk \in 0..Len(ring)
           /\ ThisChunk \in Seq(Descriptor)
           /\ NextChunks \in Seq(Descriptor)
<1>1. Len(ring) \in Nat /\ Chunk \in Nat
    BY LenProperties, ConstantsAssumption
<1>2. FirstChunk \in 0..Len(ring)
    BY <1>1 DEF FirstChunk
<1>3. \A i \in 1..Len(ring) : ring[i] \in Descriptor
    BY ElementOfSeq
<1>4. \A i \in 1..FirstChunk : ring[i] \in Descriptor
    BY <1>1, <1>2, <1>3
<1>5. ThisChunk \in Seq(Descriptor)
    BY <1>2, <1>4, SubSeqProperties DEF ThisChunk
<1>6. \A i \in (FirstChunk + 1)..Len(ring) : ring[i] \in Descriptor
    BY <1>1, <1>2, <1>3
<1>7. NextChunks \in Seq(Descriptor)
    BY <1>1, <1>2, <1>6, SubSeqProperties DEF NextChunks
<1> QED
    BY <1>2, <1>5, <1>7

(* Merging an update into a consent vector gives a consent vector.         *)
LEMMA MergeConsentType ==
    ASSUME NEW v \in ConsentVector, NEW u \in ConsentVector
    PROVE  MergeConsent(v, u) \in ConsentVector
<1>1. PICK D \in SUBSET CONSENT_PURPOSES : v \in [D -> RawSignal]
    BY DEF ConsentVector, VectorsOver
<1>2. PICK E \in SUBSET CONSENT_PURPOSES : u \in [E -> RawSignal]
    BY DEF ConsentVector, VectorsOver
<1>3. MergeConsent(v, u) \in [D \cup E -> RawSignal]
    BY <1>1, <1>2 DEF MergeConsent
<1> QED
    BY <1>3 DEF ConsentVector, VectorsOver

(* The chamber maps an event to requests.                                  *)
LEMMA HandleType ==
    ASSUME NEW d \in Descriptor
    PROVE  handle(d) \in Seq(Request)
<1> DEFINE n == Len(FormsOf[d.type])
<1>1. FormsOf[d.type] \in Seq(Forms)
    BY ConstantsAssumption DEF Descriptor
<1>2. n \in Nat /\ DOMAIN FormsOf[d.type] = 1..n
    BY <1>1, LenProperties
<1>3. \A f \in Forms : RequestOf(d, f) \in Request
    BY DEF RequestOf, Request, Descriptor, MappedDest
<1>4. \A i \in 1..n : RequestOf(d, FormsOf[d.type][i]) \in Request
    BY <1>1, <1>3, ElementOfSeq
<1>5. handle(d) = [i \in 1..n |-> RequestOf(d, FormsOf[d.type][i])]
    BY <1>2 DEF handle
<1>6. handle(d) \in [1..n -> Request]
    BY <1>4, <1>5
<1> QED
    BY <1>2, <1>6, FunctionIsSeq
-----------------------------------------------------------------------------
(* What an action leaves alone keeps its type.                             *)
LEMMA Unchanged ==
    /\ InstanceType /\ UNCHANGED instance => InstanceType'
    /\ LoopType /\ UNCHANGED loop => LoopType'
    /\ ChamberType /\ UNCHANGED chamber => ChamberType'
    /\ EnvironmentType /\ UNCHANGED <<page, bounds, settling>>
            => EnvironmentType'
    /\ HistoryType /\ UNCHANGED history => HistoryType'
<1>1. InstanceType /\ UNCHANGED instance => InstanceType'
    BY DEF InstanceType, instance
<1>2. LoopType /\ UNCHANGED loop => LoopType'
    BY DEF LoopType, loop
<1>3. ChamberType /\ UNCHANGED chamber => ChamberType'
    BY DEF ChamberType, chamber
<1>4. EnvironmentType /\ UNCHANGED <<page, bounds, settling>>
            => EnvironmentType'
    BY DEF EnvironmentType, bounds, settling
<1>5. HistoryType /\ UNCHANGED history => HistoryType'
    BY DEF HistoryType, history
<1> QED
    BY <1>1, <1>2, <1>3, <1>4, <1>5

LEMMA InitType == Init => TypeOK
<1> SUFFICES ASSUME Init PROVE TypeOK
    OBVIOUS
<1>1. /\ <<>> \in Seq(HeldItem) /\ <<>> \in Seq(Descriptor)
      /\ <<>> \in Seq(Request) /\ <<>> \in Seq(Group)
      /\ <<>> \in Seq(Seq(Descriptor)) /\ <<>> \in Seq(Message)
      /\ <<>> \in Seq(Beacon)
    BY EmptySeq
<1>2. BootConsent \in ConsentVector
    BY ConstantsAssumption
<1>3. InstanceType
    BY <1>1, <1>2 DEF Init, InstanceType
<1>4. LoopType
    <2>1. /\ readyTodo \in Seq(Request) /\ groups \in Seq(Group)
          /\ syncTodo \in Seq(Descriptor) /\ flushTodo \in Seq(HeldItem)
        BY <1>1 DEF Init
    <2>2. tracker \in Nat \ {0}
        BY DEF Init
    <2>3. flushingNow \in BOOLEAN
        BY DEF Init
    <2> QED
        BY <2>1, <2>2, <2>3 DEF LoopType
<1>5. ChamberType
    BY <1>1 DEF Init, ChamberType
<1>6. EnvironmentType
    BY DEF Init, EnvironmentType
<1>7. HistoryType
    BY <1>1 DEF Init, HistoryType
<1> QED
    BY <1>3, <1>4, <1>5, <1>6, <1>7 DEF TypeOK

LEMMA PushType ==
    ASSUME TypeOK, NEW t \in Types, push(t)
    PROVE  TypeOK'
<1>1. [seq |-> seq, type |-> t] \in Descriptor
    BY LenProperties DEF seq, TypeOK, InstanceType, Descriptor
<1>2. log' \in Seq(Descriptor) /\ ring' \in Seq(Descriptor)
    BY <1>1, AppendProperties DEF push, TypeOK, InstanceType
<1>3. scheduled' \in BOOLEAN
    BY DEF push
<1>4. InstanceType'
    BY <1>2, <1>3 DEF push, TypeOK, InstanceType
<1> QED
    BY <1>4, Unchanged DEF push, TypeOK

LEMMA SendBatchType ==
    ASSUME TypeOK, NEW batch \in Seq(Descriptor), sendBatch(batch)
    PROVE  inbox' \in Seq(Seq(Descriptor)) /\ abandoned' \subseteq Int
<1>1. Append(inbox, batch) \in Seq(Seq(Descriptor))
    BY AppendProperties DEF TypeOK, ChamberType
<1>2. \A i \in DOMAIN batch : batch[i] \in Descriptor
    BY ElementOfSeq, LenProperties
<1>3. {batch[i].seq : i \in DOMAIN batch} \subseteq Int
    BY <1>2 DEF Descriptor
<1> QED
    BY <1>1, <1>3 DEF sendBatch, TypeOK, ChamberType, HistoryType

LEMMA DrainType ==
    ASSUME TypeOK, drain
    PROVE  TypeOK'
<1>1. /\ ring' \in Seq(Descriptor) /\ scheduled' \in BOOLEAN
      /\ inbox' \in Seq(Seq(Descriptor)) /\ abandoned' \subseteq Int
    BY ChunkTypes, SendBatchType
       DEF drain, TypeOK, InstanceType, ChamberType, HistoryType, Again
<1>2. InstanceType'
    BY <1>1 DEF drain, TypeOK, InstanceType
<1>3. ChamberType'
    BY <1>1 DEF drain, TypeOK, ChamberType
<1>4. HistoryType'
    BY <1>1 DEF drain, TypeOK, HistoryType
<1> QED
    BY <1>2, <1>3, <1>4, Unchanged DEF drain, TypeOK

LEMMA FlushNowType ==
    ASSUME TypeOK, FlushNowChunk
    PROVE  TypeOK'
<1>1. /\ ring' \in Seq(Descriptor) /\ flushingNow' \in BOOLEAN
      /\ inbox' \in Seq(Seq(Descriptor)) /\ abandoned' \subseteq Int
    BY ChunkTypes, SendBatchType DEF FlushNowChunk, TypeOK, InstanceType, Again
<1>2. InstanceType'
    BY <1>1 DEF FlushNowChunk, TypeOK, InstanceType
<1>3. LoopType'
    BY <1>1 DEF FlushNowChunk, TypeOK, LoopType
<1>4. ChamberType'
    BY <1>1 DEF FlushNowChunk, TypeOK, ChamberType
<1>5. HistoryType'
    BY <1>1 DEF FlushNowChunk, TypeOK, HistoryType
<1> QED
    BY <1>2, <1>3, <1>4, <1>5, Unchanged DEF FlushNowChunk, TypeOK

LEMMA StartBatchType ==
    ASSUME TypeOK, StartBatch
    PROVE  TypeOK'
<1>1. Head(inbox) \in Seq(Descriptor) /\ Tail(inbox) \in Seq(Seq(Descriptor))
    BY HeadTailProperties DEF StartBatch, TypeOK, ChamberType
<1>2. <<>> \in Seq(Request) /\ <<>> \in Seq(Descriptor)
    BY EmptySeq
<1>3. job' \in Job
    BY <1>1, <1>2 DEF StartBatch, Job
<1>4. ChamberType'
    BY <1>1, <1>3 DEF StartBatch, TypeOK, ChamberType
<1> QED
    BY <1>4, Unchanged DEF StartBatch, TypeOK

LEMMA RouteEventType ==
    ASSUME TypeOK, RouteEvent
    PROVE  TypeOK'
<1>1. job \in Job
    BY DEF RouteEvent, TypeOK, ChamberType
<1>2. /\ job.todo \in Seq(Descriptor) /\ job.ready \in Seq(Request)
      /\ job.dropped \in Seq(Descriptor)
    BY <1>1 DEF Job
<1>3. Head(job.todo) \in Descriptor /\ Tail(job.todo) \in Seq(Descriptor)
    BY <1>2, HeadTailProperties DEF RouteEvent
<1>4. Append(job.dropped, Head(job.todo)) \in Seq(Descriptor)
    BY <1>2, <1>3, AppendProperties
<1>5. job.ready \o handle(Head(job.todo)) \in Seq(Request)
    BY <1>2, <1>3, HandleType, ConcatProperties
<1>6. job' \in Job
    BY <1>2, <1>3, <1>4, <1>5 DEF RouteEvent, Job
<1>7. ChamberType'
    BY <1>6 DEF RouteEvent, TypeOK, ChamberType
<1> QED
    BY <1>7, Unchanged DEF RouteEvent, TypeOK

LEMMA PostReadyType ==
    ASSUME TypeOK, PostReady
    PROVE  TypeOK'
<1>1. [ready |-> job.ready, dropped |-> job.dropped] \in Message
    BY DEF PostReady, TypeOK, ChamberType, Job, Message
<1>2. outbox' \in Seq(Message)
    BY <1>1, AppendProperties DEF PostReady, TypeOK, ChamberType
<1>3. ChamberType'
    BY <1>2 DEF PostReady, TypeOK, ChamberType
<1> QED
    BY <1>3, Unchanged DEF PostReady, TypeOK

LEMMA WorkerFailsType ==
    ASSUME TypeOK, WorkerFails
    PROVE  TypeOK'
<1>1. <<>> \in Seq(Seq(Descriptor))
    BY EmptySeq
<1>2. ChamberType'
    BY <1>1 DEF WorkerFails, TypeOK, ChamberType
<1> QED
    BY <1>2, Unchanged DEF WorkerFails, TypeOK

(* The keys of an event are keys.                                          *)
LEMMA KeysOfType ==
    ASSUME NEW d \in Descriptor
    PROVE  KeysOf(d) \subseteq Key
<1>1. FormsOf[d.type] \in Seq(Forms)
    BY ConstantsAssumption DEF Descriptor
<1>2. FormSet(d.type) \subseteq Forms
    BY <1>1, ElementOfSeq, LenProperties DEF FormSet
<1> QED
    BY <1>2 DEF KeysOf, Key, Descriptor

LEMMA OnmessageType ==
    ASSUME TypeOK, onmessage
    PROVE  TypeOK'
<1>1. Head(outbox) \in Message /\ Tail(outbox) \in Seq(Message)
    BY HeadTailProperties DEF onmessage, TypeOK, ChamberType
<1>2. Head(outbox).ready \in Seq(Request) /\ Head(outbox).dropped \in Seq(Descriptor)
    BY <1>1 DEF Message
<1>3. \A i \in DOMAIN Head(outbox).dropped : Head(outbox).dropped[i] \in Descriptor
    BY <1>2, ElementOfSeq, LenProperties
<1>4. UNION {KeysOf(Head(outbox).dropped[i]) : i \in DOMAIN Head(outbox).dropped}
          \subseteq Key
    BY <1>3, KeysOfType
<1>5. HistoryType'
    BY <1>4 DEF onmessage, TypeOK, HistoryType
<1>6. LoopType'
    BY <1>2 DEF onmessage, TypeOK, LoopType
<1>7. ChamberType'
    BY <1>1 DEF onmessage, TypeOK, ChamberType
<1> QED
    BY <1>5, <1>6, <1>7, Unchanged DEF onmessage, TypeOK

LEMMA AddSurvivorType ==
    ASSUME TypeOK, NEW r \in Request, AddSurvivor(r)
    PROVE  groups' \in Seq(Group)
<1>1. KeyOf(r) \in Key /\ r.dest \in MappedDest
    BY DEF KeyOf, Key, Request
<1>2. groups \in Seq(Group)
    BY DEF TypeOK, LoopType
<1>3. ASSUME NEW i \in DOMAIN groups,
             groups' = [groups EXCEPT ![i].keys = @ \cup {KeyOf(r)}]
      PROVE  groups' \in Seq(Group)
    <2>1. groups[i] \in Group
        BY <1>2, ElementOfSeq, LenProperties
    <2>2. [groups[i] EXCEPT !.keys = @ \cup {KeyOf(r)}] \in Group
        BY <2>1, <1>1 DEF Group
    <2> QED
        BY <1>2, <1>3, <2>2, ReplaceInSeq
<1>4. ASSUME groups' = Append(groups, [keys |-> {KeyOf(r)}, dest |-> r.dest])
      PROVE  groups' \in Seq(Group)
    <2>1. [keys |-> {KeyOf(r)}, dest |-> r.dest] \in Group
        BY <1>1 DEF Group
    <2> QED
        BY <1>2, <1>4, <2>1, AppendProperties
<1> QED
    BY <1>3, <1>4 DEF AddSurvivor

LEMMA GateRequestType ==
    ASSUME TypeOK, GateRequest
    PROVE  TypeOK'
<1> DEFINE r    == Head(readyTodo)
           item == [seq |-> r.seq, form |-> r.form, dest |-> r.dest,
                    remap |-> canRemap]
<1>1. r \in Request /\ Tail(readyTodo) \in Seq(Request)
    BY HeadTailProperties DEF GateRequest, TypeOK, LoopType
<1>2. KeyOf(r) \in Key
    BY <1>1 DEF KeyOf, Key, Request
<1>3. canRemap \in BOOLEAN
    BY ConstantsAssumption DEF canRemap
<1>4. item \in HeldItem
    BY <1>1, <1>3 DEF HeldItem, Request
<1>5. Append(heldBeacons, item) \in Seq(HeldItem)
    BY <1>4, AppendProperties DEF TypeOK, InstanceType
<1>6. InstanceType'
    <2>1. heldBeacons' \in Seq(HeldItem)
        BY <1>5 DEF GateRequest, TypeOK, InstanceType
    <2> QED
        BY <2>1 DEF GateRequest, TypeOK, InstanceType
<1>7. LoopType'
    <2>1. groups' \in Seq(Group)
        BY <1>1, AddSurvivorType DEF GateRequest, TypeOK, LoopType
    <2> QED
        BY <1>1, <2>1 DEF GateRequest, TypeOK, LoopType
<1>8. HistoryType'
    <2>1. reported' \subseteq Key
        BY <1>2 DEF GateRequest, TypeOK, HistoryType
    <2> QED
        BY <2>1 DEF GateRequest, TypeOK, HistoryType
<1> QED
    BY <1>6, <1>7, <1>8, Unchanged DEF GateRequest, TypeOK

(* One more fetch.                                                         *)
LEMMA EmitType ==
    ASSUME HistoryType, NEW keys \in SUBSET Key, NEW dest \in Destinations,
           NEW via \in Via, Emit(keys, dest, via)
    PROVE  egressed' \in Seq(Beacon)
<1>1. [keys |-> keys, dest |-> dest, via |-> via] \in Beacon
    BY DEF Beacon
<1> QED
    BY <1>1, AppendProperties DEF Emit, HistoryType

LEMMA DispatchGroupType ==
    ASSUME TypeOK, DispatchGroup
    PROVE  TypeOK'
<1> DEFINE g == Head(groups)
<1>1. groups \in Seq(Group) /\ groups # <<>>
    BY DEF DispatchGroup, TypeOK, LoopType
<1>2. g \in Group /\ Tail(groups) \in Seq(Group)
    BY <1>1, HeadTailProperties
<1>3. PICK out \in Outputs(g) :
          /\ \/ /\ Strays(out[2])
                /\ reported' = reported \cup out[1]
                /\ UNCHANGED <<egressed, unsettled>>
             \/ /\ ~Strays(out[2])
                /\ Emit(out[1], out[2], "worker")
                /\ unsettled' = unsettled + 1
                /\ UNCHANGED reported
          /\ groups' = GroupsAfter(out[1])
    BY DEF DispatchGroup
<1>4. g.keys \subseteq Key /\ g.dest \in MappedDest
    BY <1>2 DEF Group
<1>5. out[1] \subseteq Key /\ out[2] \in Destinations
    BY <1>3, <1>4 DEF Outputs, Destinations
<1>6. groups' \in Seq(Group)
    <2>1. 1 \in DOMAIN groups /\ groups[1] \in Group
        BY <1>1, EmptySeq, LenProperties, ElementOfSeq
    <2>2. [groups[1] EXCEPT !.keys = @ \ out[1]] \in Group
        BY <2>1 DEF Group
    <2>3. [groups EXCEPT ![1].keys = @ \ out[1]] \in Seq(Group)
        BY <1>1, <2>1, <2>2, ReplaceInSeq
    <2> QED
        BY <1>2, <1>3, <2>3 DEF GroupsAfter
<1>7. LoopType'
    BY <1>6 DEF DispatchGroup, TypeOK, LoopType
<1>8. HistoryType'
    <2>1. reported' \subseteq Key
        BY <1>3, <1>5 DEF TypeOK, HistoryType
    <2>2. egressed' \in Seq(Beacon)
        BY <1>3, <1>5, EmitType DEF TypeOK, HistoryType, Via
    <2> QED
        BY <2>1, <2>2 DEF DispatchGroup, TypeOK, HistoryType
<1>9. EnvironmentType'
    BY <1>3 DEF DispatchGroup, TypeOK, EnvironmentType, bounds
<1> QED
    BY <1>7, <1>8, <1>9, Unchanged DEF DispatchGroup, TypeOK

LEMMA FetchSettlesType ==
    ASSUME TypeOK, FetchSettles
    PROVE  TypeOK'
<1>1. EnvironmentType'
    BY DEF FetchSettles, TypeOK, EnvironmentType, bounds
<1> QED
    BY <1>1, Unchanged DEF FetchSettles, TypeOK

LEMMA SetConsentType ==
    ASSUME TypeOK, NEW u \in ConsentUpdates, setConsent(u)
    PROVE  TypeOK'
<1>1. consentVector' \in ConsentVector
    BY ConstantsAssumption, MergeConsentType
       DEF setConsent, TypeOK, InstanceType
<1>2. <<>> \in Seq(HeldItem)
    BY EmptySeq
<1>3. heldBeacons' \in Seq(HeldItem) /\ flushTodo' \in Seq(HeldItem)
    BY <1>2 DEF setConsent, TakeHeld, TypeOK, InstanceType, LoopType
<1>4. InstanceType'
    BY <1>1, <1>3 DEF setConsent, TypeOK, InstanceType
<1>5. LoopType'
    BY <1>3 DEF setConsent, TypeOK, LoopType
<1>6. EnvironmentType'
    BY DEF setConsent, TypeOK, EnvironmentType, settling
<1> QED
    BY <1>4, <1>5, <1>6, Unchanged DEF setConsent, TypeOK

LEMMA FlushHeldType ==
    ASSUME TypeOK, FlushHeld
    PROVE  TypeOK'
<1> DEFINE b    == Head(flushTodo)
           dest == IF b.remap THEN RemapDest[b.form] ELSE b.dest
           lost == b.remap /\ (dest = NoBeacon \/ holdIfOffCeiling(dest))
           via  == IF b.remap THEN "remap" ELSE "resend"
<1>1. b \in HeldItem /\ Tail(flushTodo) \in Seq(HeldItem)
    BY HeadTailProperties DEF FlushHeld, TypeOK, LoopType
<1>2. KeyOf(b) \in Key
    BY <1>1 DEF KeyOf, Key, HeldItem
<1>3. \/ lost /\ reported' = reported \cup {KeyOf(b)}
                /\ UNCHANGED <<egressed, unsettled>>
      \/ ~lost /\ Emit({KeyOf(b)}, dest, via)
                /\ unsettled' = unsettled + 1 /\ UNCHANGED reported
    BY DEF FlushHeld, FlushLoses
<1>4. ~lost => dest \in Destinations
    BY <1>1 DEF HeldItem, Destinations
<1>5. via \in Via
    BY DEF Via
<1>6. HistoryType'
    <2>1. reported' \subseteq Key
        BY <1>2, <1>3 DEF TypeOK, HistoryType
    <2>2. CASE lost
        BY <1>3, <2>1, <2>2 DEF FlushHeld, TypeOK, HistoryType
    <2>3. CASE ~lost
        <3>1. Emit({KeyOf(b)}, dest, via)
            BY <1>3, <2>3
        <3>2. egressed' \in Seq(Beacon)
            BY <1>2, <1>4, <1>5, <2>3, <3>1, EmitType DEF TypeOK
        <3> QED
            BY <2>1, <3>2 DEF FlushHeld, TypeOK, HistoryType
    <2> QED
        BY <2>2, <2>3
<1>7. EnvironmentType'
    BY <1>3 DEF FlushHeld, TypeOK, EnvironmentType, bounds
<1>8. LoopType'
    BY <1>1 DEF FlushHeld, TypeOK, LoopType
<1> QED
    BY <1>6, <1>7, <1>8, Unchanged DEF FlushHeld, TypeOK

LEMMA PushCriticalType ==
    ASSUME TypeOK, NEW t \in Types, pushCritical(t)
    PROVE  TypeOK'
<1> DEFINE d == [seq |-> -(pushedCritical + 1), type |-> t]
<1>1. d \in Descriptor
    BY DEF TypeOK, EnvironmentType, Descriptor
<1>2. <<d>> \in Seq(Descriptor)
    BY <1>1
<1>3. LoopType'
    BY <1>2 DEF pushCritical, TypeOK, LoopType
<1>4. EnvironmentType'
    BY DEF pushCritical, TypeOK, EnvironmentType, settling
<1> QED
    BY <1>3, <1>4, Unchanged DEF pushCritical, TypeOK

(* The unload flush sorts the ring into a sequence of the same events.     *)
LEMMA UnloadFlushType ==
    ASSUME TypeOK, unloadFlush
    PROVE  syncTodo' \in Seq(Descriptor) /\ ring' \in Seq(Descriptor)
<1>1. PICK p \in StableSorts(ring) : syncTodo' = [i \in DOMAIN ring |-> ring[p[i]]]
    BY DEF unloadFlush
<1>2. ring \in Seq(Descriptor)
    BY DEF TypeOK, InstanceType
<1>3. Len(ring) \in Nat /\ DOMAIN ring = 1..Len(ring)
    BY <1>2, LenProperties
<1>4. p \in [DOMAIN ring -> DOMAIN ring]
    BY DEF StableSorts
<1>5. \A i \in DOMAIN ring : ring[p[i]] \in Descriptor
    BY <1>2, <1>3, <1>4, ElementOfSeq
<1>6. syncTodo' \in [1..Len(ring) -> Descriptor]
    BY <1>1, <1>3, <1>5
<1>7. syncTodo' \in Seq(Descriptor)
    BY <1>3, <1>6, FunctionIsSeq
<1>8. ring' \in Seq(Descriptor)
    BY EmptySeq DEF unloadFlush
<1> QED
    BY <1>7, <1>8

LEMMA FlushOnLeavingType ==
    ASSUME TypeOK, FlushOnLeaving, page' \in {"visible", "hidden", "gone"},
           hides' \in Nat
    PROVE  TypeOK'
<1>1. syncTodo' \in Seq(Descriptor) /\ ring' \in Seq(Descriptor)
    BY UnloadFlushType DEF FlushOnLeaving, TypeOK, InstanceType, LoopType
<1>2. InstanceType'
    BY <1>1 DEF FlushOnLeaving, TypeOK, InstanceType
<1>3. LoopType'
    BY <1>1 DEF FlushOnLeaving, TypeOK, LoopType
<1>4. EnvironmentType'
    BY DEF FlushOnLeaving, TypeOK, EnvironmentType, settling
<1> QED
    BY <1>2, <1>3, <1>4, Unchanged DEF FlushOnLeaving, TypeOK

LEMMA HideType ==
    ASSUME TypeOK, Hide
    PROVE  TypeOK'
<1>1. page' \in {"visible", "hidden", "gone"} /\ hides' \in Nat
    BY DEF Hide, TypeOK, EnvironmentType
<1> QED
    BY <1>1, FlushOnLeavingType DEF Hide

LEMMA ShowType ==
    ASSUME TypeOK, Show
    PROVE  TypeOK'
<1>1. EnvironmentType'
    BY DEF Show, TypeOK, EnvironmentType, bounds, settling
<1> QED
    BY <1>1, Unchanged DEF Show, TypeOK

LEMMA PageHideType ==
    ASSUME TypeOK, PageHide
    PROVE  TypeOK'
<1>1. page' \in {"visible", "hidden", "gone"} /\ hides' \in Nat
    BY DEF PageHide, TypeOK, EnvironmentType
<1> QED
    BY <1>1, FlushOnLeavingType DEF PageHide

LEMMA DisposeType ==
    ASSUME TypeOK, dispose
    PROVE  TypeOK'
<1>1. <<>> \in Seq(Seq(Descriptor)) /\ <<>> \in Seq(Message)
    BY EmptySeq
<1>2. ChamberType'
    BY <1>1 DEF dispose, TypeOK, ChamberType
<1>3. disposed' \in BOOLEAN
    BY DEF dispose
<1>4. InstanceType'
    BY <1>3 DEF dispose, TypeOK, InstanceType
<1> QED
    BY <1>2, <1>4, Unchanged DEF dispose, TypeOK

(* The tracker index never runs past the requests of the event in work:    *)
(* what makes the type of the next synchronous fetch inductive.            *)
TrackerInRange ==
    \/ tracker = 1
    \/ syncTodo # <<>> /\ tracker <= Len(FormsOf[Head(syncTodo).type])

LEMMA SyncSendType ==
    ASSUME TypeOK, TrackerInRange, NEW d \in Descriptor, d = Head(syncTodo),
           SyncSend(d)
    PROVE  /\ egressed' \in Seq(Beacon) /\ reported' \subseteq Key
           /\ used' \in Nat
<1> DEFINE forms == FormsOf[d.type]
           n     == Len(forms)
           f     == forms[tracker]
<1>1. forms \in Seq(Forms) /\ Bytes[d.type] \in Nat
    BY ConstantsAssumption DEF Descriptor
<1>2. tracker \in Nat \ {0} /\ used \in Nat /\ reported \subseteq Key
          /\ egressed \in Seq(Beacon)
    BY DEF TypeOK, LoopType, InstanceType, HistoryType
<1>3. n \in Nat /\ (forms # <<>> => n > 0)
    BY <1>1, LenProperties, EmptySeq
<1>4. CASE forms = <<>>
    BY <1>2, <1>4 DEF SyncSend
<1>5. CASE forms # <<>>
    <2>1. tracker \in 1..n
        BY <1>2, <1>3, <1>5 DEF TrackerInRange
    <2>2. f \in Forms
        BY <1>1, <2>1, ElementOfSeq
    <2>3. <<d.seq, f>> \in Key /\ Dest[f] \in Destinations
        BY <2>2 DEF Key, Descriptor, Destinations, MappedDest
    <2>4. "sync" \in Via
        BY DEF Via
    <2>5. \/ reported' = reported \cup {<<d.seq, f>>} /\ UNCHANGED <<used, egressed>>
          \/ /\ used' = IF Budgeted THEN used + Bytes[d.type] ELSE used
             /\ Emit({<<d.seq, f>>}, Dest[f], "sync")
             /\ UNCHANGED reported
        BY <1>5 DEF SyncSend
    <2>6. used' \in Nat
        BY <1>1, <1>2, <2>5
    <2>7. reported' \subseteq Key
        BY <1>2, <2>3, <2>5
    <2>8. egressed' \in Seq(Beacon)
        BY <1>2, <2>3, <2>4, <2>5, EmitType DEF TypeOK
    <2> QED
        BY <2>6, <2>7, <2>8
<1> QED
    BY <1>4, <1>5

LEMMA SyncDispatchType ==
    ASSUME TypeOK, TrackerInRange, SyncDispatch
    PROVE  TypeOK'
<1> DEFINE d == Head(syncTodo)
<1>1. syncTodo \in Seq(Descriptor) /\ syncTodo # <<>> /\ tracker \in Nat \ {0}
    BY DEF SyncDispatch, TypeOK, LoopType
<1>2. d \in Descriptor /\ Tail(syncTodo) \in Seq(Descriptor)
    BY <1>1, HeadTailProperties
<1>3. SyncDrop(d) \/ SyncThrow(d) \/ SyncSend(d)
    BY DEF SyncDispatch
<1>4. NextSync => syncTodo' \in Seq(Descriptor) /\ tracker' \in Nat \ {0}
    BY <1>2 DEF NextSync
<1>5. syncTodo' \in Seq(Descriptor) /\ tracker' \in Nat \ {0}
    <2>1. CASE SyncDrop(d)
        BY <1>4, <2>1 DEF SyncDrop
    <2>2. CASE SyncThrow(d)
        BY <2>2, EmptySeq DEF SyncThrow
    <2>3. CASE SyncSend(d)
        BY <1>1, <1>4, <2>3 DEF SyncSend
    <2> QED
        BY <1>3, <2>1, <2>2, <2>3
<1>6. LoopType'
    BY <1>5 DEF SyncDispatch, TypeOK, LoopType
<1>7. /\ used' \in Nat /\ egressed' \in Seq(Beacon)
      /\ reported' \subseteq Key /\ abandoned' \subseteq Int
    <2>1. CASE SyncDrop(d)
        BY <1>2, <2>1, KeysOfType
           DEF SyncDrop, TypeOK, InstanceType, HistoryType
    <2>2. CASE SyncThrow(d)
        <3>1. \A i \in DOMAIN syncTodo : syncTodo[i] \in Descriptor
            BY <1>1, ElementOfSeq, LenProperties
        <3>2. {syncTodo[i].seq : i \in DOMAIN syncTodo} \subseteq Int
            BY <3>1 DEF Descriptor
        <3> QED
            BY <2>2, <3>2 DEF SyncThrow, TypeOK, InstanceType, HistoryType
    <2>3. CASE SyncSend(d)
        <3>1. abandoned' \subseteq Int
            BY <2>3 DEF SyncSend, TypeOK, HistoryType
        <3> QED
            BY <1>2, <2>3, <3>1, SyncSendType
    <2> QED
        BY <1>3, <2>1, <2>2, <2>3
<1>8. InstanceType'
    BY <1>7 DEF SyncDispatch, TypeOK, InstanceType
<1>9. HistoryType'
    BY <1>7 DEF HistoryType
<1> QED
    BY <1>6, <1>8, <1>9, Unchanged DEF SyncDispatch, TypeOK

(* Every step keeps the tracker in range: a loop over syncTodo starts at   *)
(* request 1 and resets the index whenever it moves to the next event.     *)
LEMMA TrackerStep ==
    ASSUME TypeOK, TrackerInRange, [Next]_vars
    PROVE  TrackerInRange'
<1>1. CASE UNCHANGED <<syncTodo, tracker>>
    BY <1>1 DEF TrackerInRange
<1>2. CASE Idle /\ UNCHANGED tracker
    BY <1>2 DEF Idle, LoopDone, TrackerInRange
<1>3. CASE SyncDispatch
    <2> DEFINE d == Head(syncTodo)
    <2>1. SyncDrop(d) \/ SyncThrow(d) \/ SyncSend(d)
        BY <1>3 DEF SyncDispatch
    <2>2. tracker' = 1 => TrackerInRange'
        BY DEF TrackerInRange
    <2>3. CASE SyncDrop(d) \/ SyncThrow(d)
        BY <2>2, <2>3 DEF SyncDrop, SyncThrow, NextSync
    <2>4. CASE SyncSend(d)
        <3>1. CASE NextSync
            BY <2>2, <3>1 DEF NextSync
        <3>2. CASE /\ tracker < Len(FormsOf[d.type])
                   /\ tracker' = tracker + 1 /\ UNCHANGED syncTodo
            <4>1. FormsOf[d.type] \in Seq(Forms)
                <5>1. d \in Descriptor
                    BY <1>3, HeadTailProperties DEF SyncDispatch, TypeOK, LoopType
                <5> QED
                    BY <5>1, ConstantsAssumption DEF Descriptor
            <4>2. Len(FormsOf[d.type]) \in Nat /\ tracker \in Nat
                BY <4>1, LenProperties DEF TypeOK, LoopType
            <4>3. tracker' <= Len(FormsOf[d.type])
                BY <3>2, <4>2
            <4>4. syncTodo' # <<>> /\ Head(syncTodo') = d
                BY <1>3, <3>2 DEF SyncDispatch
            <4> QED
                BY <4>3, <4>4 DEF TrackerInRange
        <3> QED
            BY <2>4, <3>1, <3>2 DEF SyncSend
    <2> QED
        BY <2>1, <2>3, <2>4
<1>4. \/ UNCHANGED <<syncTodo, tracker>>
      \/ Idle /\ UNCHANGED tracker
      \/ SyncDispatch
    BY DEF Next, Host, Browser, Chamber, Main, vars, loop, push, pushCritical,
           setConsent, flushNow, dispose, Hide, Show, PageHide, WorkerFails,
           FlushOnLeaving, StartBatch, RouteEvent, PostReady, drain, onmessage,
           FetchSettles, GateRequest, DispatchGroup, FlushHeld,
           flushNowContinues, FlushNowChunk
<1> QED
    BY <1>1, <1>2, <1>3, <1>4
-----------------------------------------------------------------------------
TypeInv == TypeOK /\ TrackerInRange

LEMMA TypeStep ==
    ASSUME TypeInv, [Next]_vars
    PROVE  TypeInv'
<1>1. TypeOK /\ TrackerInRange
    BY DEF TypeInv
<1>2. TrackerInRange'
    BY <1>1, TrackerStep
<1> SUFFICES TypeOK'
    BY <1>2 DEF TypeInv
<1>3. CASE UNCHANGED vars
    BY <1>1, <1>3, Unchanged DEF vars, TypeOK
<1>4. CASE Host
    BY <1>1, <1>4, PushType, PushCriticalType, SetConsentType, FlushNowType,
       DisposeType DEF Host, flushNow
<1>5. CASE Browser
    BY <1>1, <1>5, HideType, ShowType, PageHideType, WorkerFailsType DEF Browser
<1>6. CASE Chamber
    BY <1>1, <1>6, StartBatchType, RouteEventType, PostReadyType DEF Chamber
<1>7. CASE Main
    BY <1>1, <1>7, DrainType, OnmessageType, FetchSettlesType, GateRequestType,
       DispatchGroupType, FlushHeldType, SyncDispatchType, FlushNowType
       DEF Main, flushNowContinues
<1> QED
    BY <1>3, <1>4, <1>5, <1>6, <1>7 DEF Next

LEMMA TypeInvariant == Spec => []TypeInv
<1>1. Init => TypeInv
    BY InitType DEF Init, TypeInv, TrackerInRange
<1>2. TypeInv /\ [Next]_vars => TypeInv'
    BY TypeStep
<1> QED
    BY <1>1, <1>2, PTL DEF Spec

(* Type correctness: after any number of pushes, consent changes, hides    *)
(* and crashes, every queue of airlock.js holds what its readers expect.   *)
THEOREM TypeCorrect == Spec => []TypeOK
<1>1. TypeInv => TypeOK
    BY DEF TypeInv
<1> QED
    BY <1>1, TypeInvariant, PTL
-----------------------------------------------------------------------------
(* Consent: what the verdict can be when something is held.                *)
LEMMA HoldImplies ==
    SealVerdict = "hold" => ~ConsentStrict /\ EgressPurposes # {}
    BY DEF SealVerdict, egressVerdict, SomePurposeIs

LEMMA LenientVerdict ==
    ~ConsentStrict => SealVerdict \in {"send", "hold"}
    BY DEF SealVerdict, egressVerdict

(* A step that touches neither the held beacons nor the consent vector     *)
(* cannot disturb the relation between them.                               *)
LEMMA HeldUntouched ==
    ASSUME HeldOnlyWhileBlocked, UNCHANGED <<heldBeacons, consentVector>>
    PROVE  HeldOnlyWhileBlocked'
    BY DEF HeldOnlyWhileBlocked, SealVerdict

LEMMA HeldStep ==
    ASSUME HeldOnlyWhileBlocked, [Next]_vars
    PROVE  HeldOnlyWhileBlocked'
<1>1. CASE UNCHANGED <<heldBeacons, consentVector>>
    BY <1>1, HeldUntouched
<1>2. CASE GateRequest
    <2>1. UNCHANGED consentVector
        BY <1>2 DEF GateRequest
    <2>2. SealVerdict = "hold" \/ UNCHANGED heldBeacons
        BY <1>2 DEF GateRequest
    <2> QED
        BY <2>1, <2>2 DEF HeldOnlyWhileBlocked, SealVerdict
<1>3. ASSUME NEW u \in ConsentUpdates, setConsent(u)
      PROVE  HeldOnlyWhileBlocked'
    <2>1. CASE Grant
        BY <1>3, <2>1 DEF setConsent, TakeHeld, HeldOnlyWhileBlocked
    <2>2. CASE ~Grant /\ heldBeacons # <<>>
        <3>1. SealVerdict = "hold"
            BY <2>2 DEF HeldOnlyWhileBlocked
        <3>2. ~ConsentStrict /\ EgressPurposes # {}
            BY <3>1, HoldImplies
        <3>3. SealVerdict' \in {"send", "hold"}
            BY <3>2 DEF SealVerdict, egressVerdict
        <3>4. SealVerdict' = "hold"
            BY <2>2, <3>2, <3>3 DEF Grant
        <3> QED
            BY <3>4 DEF HeldOnlyWhileBlocked
    <2>3. CASE ~Grant /\ heldBeacons = <<>>
        BY <1>3, <2>3 DEF setConsent, HeldOnlyWhileBlocked
    <2> QED
        BY <2>1, <2>2, <2>3
<1>4. \/ UNCHANGED <<heldBeacons, consentVector>>
      \/ GateRequest
      \/ \E u \in ConsentUpdates : setConsent(u)
    BY DEF Next, Host, Browser, Chamber, Main, vars, instance, push,
           pushCritical, flushNow, dispose, Hide, Show, PageHide, WorkerFails,
           FlushOnLeaving, StartBatch, RouteEvent, PostReady, drain, onmessage,
           FetchSettles, DispatchGroup, FlushHeld, flushNowContinues,
           FlushNowChunk, SyncDispatch, SyncDrop, SyncThrow, SyncSend
<1> QED
    BY <1>1, <1>2, <1>3, <1>4

(* Nothing stays buffered once consent lets it go, for every regime and    *)
(* every sequence of updates (airlock.js:476-530, 778-860).                *)
THEOREM NothingHeldWithoutReason == Spec => []HeldOnlyWhileBlocked
<1>1. Init => HeldOnlyWhileBlocked
    BY DEF Init, HeldOnlyWhileBlocked
<1>2. HeldOnlyWhileBlocked /\ [Next]_vars => HeldOnlyWhileBlocked'
    BY HeldStep
<1> QED
    BY <1>1, <1>2, PTL DEF Spec
-----------------------------------------------------------------------------
(* The ring only holds events of the log: a batch that throws therefore    *)
(* names a logged event that could not be cloned.                          *)
RingFromLog ==
    \A i \in DOMAIN ring : \E j \in DOMAIN log : log[j] = ring[i]

DrainInv == RingFromLog /\ RingHasDrain

LEMMA ChunkEntries ==
    ASSUME TypeOK
    PROVE  /\ \A i \in DOMAIN ThisChunk : i \in DOMAIN ring /\ ThisChunk[i] = ring[i]
           /\ \A i \in DOMAIN NextChunks : \E k \in DOMAIN ring : NextChunks[i] = ring[k]
           /\ ring = <<>> => NextChunks = <<>>
<1> DEFINE n == Len(ring)
           c == FirstChunk
<1>1. ring \in Seq(Descriptor)
    BY DEF TypeOK, InstanceType
<1>2. n \in Nat /\ DOMAIN ring = 1..n /\ c \in 0..n
    BY <1>1, LenProperties, ChunkTypes
<1>3. \A i \in 1..n : ring[i] \in Descriptor
    BY <1>1, ElementOfSeq
<1>4. Len(ThisChunk) = c /\ \A i \in 1..c : ThisChunk[i] = ring[i]
    <2>1. \A i \in 1..c : ring[i] \in Descriptor
        BY <1>2, <1>3
    <2>2. /\ Len(ThisChunk) = IF 1 <= c THEN c - 1 + 1 ELSE 0
          /\ \A i \in 1..(c - 1 + 1) : ThisChunk[i] = ring[1 + i - 1]
        BY <1>2, <2>1, SubSeqProperties DEF ThisChunk
    <2> QED
        BY <1>2, <2>2
<1>5. /\ Len(NextChunks) = n - c
      /\ \A i \in 1..(n - c) : NextChunks[i] = ring[c + i]
    <2>1. \A i \in (c + 1)..n : ring[i] \in Descriptor
        BY <1>2, <1>3
    <2>2. /\ Len(NextChunks) = IF c + 1 <= n THEN n - (c + 1) + 1 ELSE 0
          /\ \A i \in 1..(n - (c + 1) + 1) : NextChunks[i] = ring[c + 1 + i - 1]
        <3>1. c + 1 \in Int /\ n \in Int
            BY <1>2
        <3> QED
            BY <2>1, <3>1, SubSeqProperties DEF NextChunks
    <2>3. Len(NextChunks) = n - c
        <3>1. c \in Nat /\ n \in Nat /\ c <= n
            BY <1>2
        <3>2. CASE c + 1 <= n
            BY <2>2, <3>1, <3>2
        <3>3. CASE ~(c + 1 <= n)
            BY <2>2, <3>1, <3>3
        <3> QED
            BY <3>2, <3>3
    <2>4. ASSUME NEW i \in 1..(n - c) PROVE NextChunks[i] = ring[c + i]
        <3>1. i \in 1..(n - (c + 1) + 1) /\ c + 1 + i - 1 = c + i
            BY <1>2
        <3> QED
            BY <2>2, <3>1
    <2> QED
        BY <2>3, <2>4
<1>6. DOMAIN ThisChunk = 1..c /\ DOMAIN NextChunks = 1..(n - c)
    BY <1>1, <1>4, <1>5, ChunkTypes, LenProperties
<1>7. ASSUME ring = <<>> PROVE NextChunks = <<>>
    <2>1. Len(<<>>) = 0
        BY <1>1, EmptySeq
    <2>2. Len(NextChunks) = 0
        BY <1>2, <1>5, <1>7, <2>1
    <2> QED
        BY <1>1, <2>2, ChunkTypes, EmptySeq
<1>8. \A i \in DOMAIN ThisChunk : i \in DOMAIN ring /\ ThisChunk[i] = ring[i]
    <2> TAKE i \in DOMAIN ThisChunk
    <2>1. i \in 1..c
        BY <1>6
    <2>2. i \in 1..n
        BY <1>2, <2>1
    <2> QED
        BY <1>2, <1>4, <2>1, <2>2
<1>9. \A i \in DOMAIN NextChunks : \E k \in DOMAIN ring : NextChunks[i] = ring[k]
    <2> TAKE i \in DOMAIN NextChunks
    <2>1. i \in 1..(n - c)
        BY <1>6
    <2>2. c + i \in 1..n
        BY <1>2, <2>1
    <2>3. NextChunks[i] = ring[c + i]
        BY <1>5, <2>1
    <2> QED
        BY <1>2, <2>2, <2>3
<1> QED
    BY <1>7, <1>8, <1>9

(* Once a batch failed to clone, the log keeps the proof of it.            *)
LEMMA CloneFailedStays ==
    ASSUME TypeOK, CloneFailed, abandoned \subseteq abandoned',
           \/ UNCHANGED log
           \/ \E d \in Descriptor : log' = Append(log, d)
    PROVE  CloneFailed'
<1>1. PICK i \in DOMAIN log : /\ log[i].type \in Uncloneable
                             /\ log[i].seq \in abandoned
    BY DEF CloneFailed
<1>2. CASE UNCHANGED log
    BY <1>1, <1>2 DEF CloneFailed
<1>3. ASSUME NEW d \in Descriptor, log' = Append(log, d)
      PROVE  CloneFailed'
    <2>1. log \in Seq(Descriptor)
        BY DEF TypeOK, InstanceType
    <2>2. i \in 1..Len(log) /\ Len(log) \in Nat
        BY <1>1, <2>1, LenProperties
    <2>3. log' \in Seq(Descriptor) /\ Len(log') = Len(log) + 1 /\ log'[i] = log[i]
        BY <1>3, <2>1, <2>2, AppendProperties
    <2>4. i \in DOMAIN log'
        BY <2>2, <2>3, LenProperties
    <2> QED
        BY <1>1, <2>3, <2>4 DEF CloneFailed
<1> QED
    BY <1>2, <1>3

(* sendBatch() throws only for an event of the batch, and notes its loss.  *)
LEMMA SendBatchNotes ==
    ASSUME TypeOK, RingFromLog, sendBatch(ThisChunk), UNCHANGED log
    PROVE  /\ abandoned \subseteq abandoned'
           /\ ~Clones(ThisChunk) => CloneFailed'
<1>1. abandoned \subseteq abandoned'
    BY DEF sendBatch
<1>2. ASSUME ~Clones(ThisChunk) PROVE CloneFailed'
    <2>1. PICK i \in DOMAIN ThisChunk : ThisChunk[i].type \in Uncloneable
        BY <1>2 DEF Clones
    <2>2. ThisChunk[i].seq \in abandoned'
        BY <1>2, <2>1 DEF sendBatch
    <2>3. PICK j \in DOMAIN log : log[j] = ThisChunk[i]
        BY <2>1, ChunkEntries DEF RingFromLog
    <2> QED
        BY <2>1, <2>2, <2>3 DEF CloneFailed
<1> QED
    BY <1>1, <1>2

LEMMA PushKeepsDrain ==
    ASSUME TypeOK, DrainInv, NEW t \in Types, push(t)
    PROVE  DrainInv'
<1> DEFINE d == [seq |-> seq, type |-> t]
<1>1. d \in Descriptor
    BY LenProperties DEF seq, TypeOK, InstanceType, Descriptor
<1>2. log \in Seq(Descriptor) /\ ring \in Seq(Descriptor)
    BY DEF TypeOK, InstanceType
<1>3. log' = Append(log, d) /\ ring' = Append(ring, d)
    BY DEF push
<1>4. /\ DOMAIN log = 1..Len(log) /\ DOMAIN log' = 1..(Len(log) + 1)
      /\ Len(log) \in Nat
      /\ \A i \in 1..Len(log) : log'[i] = log[i]
      /\ log'[Len(log) + 1] = d
    BY <1>1, <1>2, <1>3, AppendProperties, LenProperties
<1>5. /\ DOMAIN ring = 1..Len(ring) /\ DOMAIN ring' = 1..(Len(ring) + 1)
      /\ Len(ring) \in Nat
      /\ \A i \in 1..Len(ring) : ring'[i] = ring[i]
      /\ ring'[Len(ring) + 1] = d
    BY <1>1, <1>2, <1>3, AppendProperties, LenProperties
<1>6. ASSUME NEW i \in DOMAIN ring' PROVE \E j \in DOMAIN log' : log'[j] = ring'[i]
    <2>1. CASE i \in 1..Len(ring)
        <3>1. PICK j \in DOMAIN log : log[j] = ring[i]
            BY <1>5, <2>1 DEF DrainInv, RingFromLog
        <3> QED
            BY <1>4, <1>5, <2>1, <3>1
    <2>2. CASE i = Len(ring) + 1
        BY <1>4, <1>5, <2>2
    <2> QED
        BY <1>5, <1>6, <2>1, <2>2
<1>7. scheduled'
    BY DEF push
<1> QED
    BY <1>6, <1>7 DEF DrainInv, RingFromLog, RingHasDrain

LEMMA DrainKeepsDrain ==
    ASSUME TypeOK, DrainInv, drain
    PROVE  DrainInv'
<1>1. UNCHANGED log
    BY DEF drain
<1>2. RingFromLog /\ RingHasDrain
    BY DEF DrainInv
<1>3. CASE ring = <<>> /\ UNCHANGED ring
    BY <1>1, <1>2, <1>3 DEF DrainInv, RingFromLog, RingHasDrain
<1>4. CASE /\ sendBatch(ThisChunk) /\ ring' = NextChunks /\ scheduled' = Again
    <2>1. RingFromLog'
        BY <1>1, <1>2, <1>4, ChunkEntries DEF RingFromLog
    <2>2. CASE Clones(ThisChunk)
        BY <1>4, <2>1, <2>2 DEF DrainInv, RingHasDrain, Again
    <2>3. CASE ~Clones(ThisChunk)
        BY <1>1, <1>2, <1>4, <2>1, <2>3, SendBatchNotes DEF DrainInv, RingHasDrain
    <2> QED
        BY <2>2, <2>3
<1> QED
    BY <1>3, <1>4 DEF drain

LEMMA FlushNowKeepsDrain ==
    ASSUME TypeOK, DrainInv, FlushNowChunk
    PROVE  DrainInv'
<1>1. /\ UNCHANGED <<log, scheduled>>
      /\ sendBatch(ThisChunk) /\ ring' = NextChunks
    BY DEF FlushNowChunk
<1>2. RingFromLog /\ RingHasDrain
    BY DEF DrainInv
<1>3. RingFromLog'
    BY <1>1, <1>2, ChunkEntries DEF RingFromLog
<1>4. abandoned \subseteq abandoned'
    BY <1>1, <1>2, SendBatchNotes
<1>5. ASSUME ring' # <<>> PROVE (scheduled \/ CloneFailed)'
    <2>1. ring # <<>>
        BY <1>1, <1>5, ChunkEntries
    <2>2. scheduled \/ CloneFailed
        BY <1>2, <2>1 DEF RingHasDrain
    <2> QED
        BY <1>1, <1>4, <2>2, CloneFailedStays
<1> QED
    BY <1>3, <1>5 DEF DrainInv, RingHasDrain

(* A step that leaves log and idle callback alone, keeps or empties the    *)
(* ring, and forgets no abandoned event.                                   *)
LEMMA OtherKeepsDrain ==
    ASSUME TypeOK, DrainInv, UNCHANGED <<log, scheduled>>,
           UNCHANGED ring \/ ring' = <<>>, abandoned \subseteq abandoned'
    PROVE  DrainInv'
<1>1. RingFromLog /\ RingHasDrain
    BY DEF DrainInv
<1>2. CASE ring' = <<>>
    BY <1>2 DEF DrainInv, RingFromLog, RingHasDrain
<1>3. CASE UNCHANGED ring
    <2>1. RingFromLog'
        BY <1>1, <1>3 DEF RingFromLog
    <2>2. CloneFailed => CloneFailed'
        BY CloneFailedStays
    <2>3. RingHasDrain'
        BY <1>1, <1>3, <2>2 DEF RingHasDrain
    <2> QED
        BY <2>1, <2>3 DEF DrainInv
<1> QED
    BY <1>2, <1>3

LEMMA DrainInvStep ==
    ASSUME TypeOK, DrainInv, [Next]_vars
    PROVE  DrainInv'
<1>1. ASSUME NEW t \in Types, push(t) PROVE DrainInv'
    BY <1>1, PushKeepsDrain
<1>2. CASE drain
    BY <1>2, DrainKeepsDrain
<1>3. CASE FlushNowChunk
    BY <1>3, FlushNowKeepsDrain
<1>4. CASE /\ UNCHANGED <<log, scheduled>>
           /\ UNCHANGED ring \/ ring' = <<>>
           /\ abandoned \subseteq abandoned'
    BY <1>4, OtherKeepsDrain
<1>5. CASE SyncDispatch
    <2>1. abandoned \subseteq abandoned'
        BY <1>5 DEF SyncDispatch, SyncDrop, SyncThrow, SyncSend
    <2> QED
        BY <1>5, <2>1, OtherKeepsDrain DEF SyncDispatch
<1>6. CASE Hide \/ PageHide
    BY <1>6, <1>4 DEF Hide, PageHide, FlushOnLeaving, unloadFlush, history
<1>7. \/ \E t \in Types : push(t)
      \/ drain \/ FlushNowChunk \/ SyncDispatch \/ Hide \/ PageHide
      \/ UNCHANGED <<log, scheduled, ring, abandoned>>
    BY DEF Next, Host, Browser, Chamber, Main, vars, instance, history,
           pushCritical, setConsent, flushNow, dispose, Show, WorkerFails,
           StartBatch, RouteEvent, PostReady, onmessage, FetchSettles,
           GateRequest, DispatchGroup, FlushHeld, flushNowContinues
<1> QED
    BY <1>1, <1>2, <1>3, <1>4, <1>5, <1>6, <1>7

(* No event waits in a ring that nobody is going to drain, unless a batch  *)
(* could not be cloned (airlock.js:616-653, 718-724).                      *)
THEOREM RingNeverStrands == Spec => []RingHasDrain
<1>1. Init => TypeInv /\ DrainInv
    BY InitType DEF Init, TypeInv, TrackerInRange, DrainInv, RingFromLog,
       RingHasDrain
<1>2. TypeInv /\ DrainInv /\ [Next]_vars => (TypeInv /\ DrainInv)'
    BY TypeStep, DrainInvStep DEF TypeInv
<1>3. TypeInv /\ DrainInv => RingHasDrain
    BY DEF DrainInv
<1> QED
    BY <1>1, <1>2, <1>3, PTL DEF Spec
-----------------------------------------------------------------------------
(* The ceiling: only requests inside it survive phase 1, so what phase 2   *)
(* dispatches without a coalesce hook needs no second look.                *)
GroupsInCeiling == \A i \in DOMAIN groups : ~holdIfOffCeiling(groups[i].dest)

CeilingInv == GroupsInCeiling /\ CeilingRespected

(* A fetch that is synchronous, a re-send, or inside the ceiling keeps     *)
(* CeilingRespected.                                                       *)
LEMMA EmitKeepsCeiling ==
    ASSUME TypeOK, CeilingRespected,
           NEW keys \in SUBSET Key, NEW dest \in Destinations, NEW via \in Via,
           Emit(keys, dest, via),
           via \in {"worker", "remap"} => ~holdIfOffCeiling(dest)
    PROVE  CeilingRespected'
<1> DEFINE e == [keys |-> keys, dest |-> dest, via |-> via]
<1>1. e \in Beacon
    BY DEF Beacon
<1>2. egressed \in Seq(Beacon)
    BY DEF TypeOK, HistoryType
<1>3. /\ DOMAIN egressed = 1..Len(egressed) /\ Len(egressed) \in Nat
      /\ DOMAIN egressed' = 1..(Len(egressed) + 1)
      /\ \A i \in 1..Len(egressed) : egressed'[i] = egressed[i]
      /\ egressed'[Len(egressed) + 1] = e
    BY <1>1, <1>2, AppendProperties, LenProperties DEF Emit
<1>4. ASSUME NEW i \in DOMAIN egressed', egressed'[i].via \in {"worker", "remap"}
      PROVE  ~holdIfOffCeiling(egressed'[i].dest)
    <2>1. CASE i \in 1..Len(egressed)
        BY <1>3, <1>4, <2>1 DEF CeilingRespected
    <2>2. CASE i = Len(egressed) + 1
        BY <1>3, <1>4, <2>2
    <2> QED
        BY <1>3, <2>1, <2>2
<1> QED
    BY <1>4 DEF CeilingRespected, holdIfOffCeiling

LEMMA CeilingUntouched ==
    ASSUME CeilingInv, UNCHANGED <<groups, egressed>>
    PROVE  CeilingInv'
    BY DEF CeilingInv, GroupsInCeiling, CeilingRespected, holdIfOffCeiling

LEMMA GateKeepsCeiling ==
    ASSUME TypeOK, CeilingInv, GateRequest
    PROVE  CeilingInv'
<1> DEFINE r == Head(readyTodo)
<1>1. CASE UNCHANGED groups
    BY <1>1, CeilingUntouched DEF GateRequest
<1>2. CASE Survives(r) /\ AddSurvivor(r)
    <2>1. r \in Request
        BY HeadTailProperties DEF GateRequest, TypeOK, LoopType
    <2>2. ~holdIfOffCeiling(r.dest)
        BY <1>2 DEF Survives
    <2>3. groups \in Seq(Group)
        BY DEF TypeOK, LoopType
    <2>4. /\ DOMAIN groups = 1..Len(groups) /\ Len(groups) \in Nat
          /\ \A i \in DOMAIN groups : groups[i] \in Group
        BY <2>3, LenProperties, ElementOfSeq
    <2>5. ASSUME NEW i \in DOMAIN groups,
                 groups' = [groups EXCEPT ![i].keys = @ \cup {KeyOf(r)}]
          PROVE  GroupsInCeiling'
        <3>1. /\ DOMAIN groups' = DOMAIN groups
              /\ \A j \in DOMAIN groups : groups'[j].dest = groups[j].dest
            BY <2>4, <2>5 DEF Group
        <3> QED
            BY <3>1 DEF CeilingInv, GroupsInCeiling, holdIfOffCeiling
    <2>6. ASSUME groups' = Append(groups, [keys |-> {KeyOf(r)}, dest |-> r.dest])
          PROVE  GroupsInCeiling'
        <3> DEFINE g == [keys |-> {KeyOf(r)}, dest |-> r.dest]
        <3>1. g \in Group
            BY <2>1 DEF Group, KeyOf, Key, Request
        <3>2. /\ DOMAIN groups' = 1..(Len(groups) + 1)
              /\ \A j \in 1..Len(groups) : groups'[j] = groups[j]
              /\ groups'[Len(groups) + 1] = g
            BY <2>3, <2>6, <3>1, AppendProperties, LenProperties
        <3>3. ASSUME NEW j \in DOMAIN groups'
              PROVE  ~holdIfOffCeiling(groups'[j].dest)
            <4>1. CASE j \in 1..Len(groups)
                BY <2>4, <3>2, <4>1 DEF CeilingInv, GroupsInCeiling
            <4>2. CASE j = Len(groups) + 1
                BY <2>2, <3>2, <4>2
            <4> QED
                BY <2>4, <3>2, <4>1, <4>2
        <3> QED
            BY <3>3 DEF GroupsInCeiling, holdIfOffCeiling
    <2>7. GroupsInCeiling'
        BY <1>2, <2>5, <2>6 DEF AddSurvivor
    <2>8. CeilingRespected'
        BY DEF GateRequest, CeilingInv, CeilingRespected, holdIfOffCeiling
    <2> QED
        BY <2>7, <2>8 DEF CeilingInv
<1> QED
    BY <1>1, <1>2 DEF GateRequest

LEMMA DispatchKeepsCeiling ==
    ASSUME TypeOK, CeilingInv, DispatchGroup
    PROVE  CeilingInv'
<1> DEFINE g == Head(groups)
<1>1. groups \in Seq(Group) /\ groups # <<>>
    BY DEF DispatchGroup, TypeOK, LoopType
<1>2. /\ Len(groups) \in Nat \ {0} /\ DOMAIN groups = 1..Len(groups)
      /\ g = groups[1] /\ g \in Group /\ Tail(groups) \in Seq(Group)
      /\ Len(Tail(groups)) = Len(groups) - 1
      /\ \A i \in 1..Len(Tail(groups)) : Tail(groups)[i] = groups[i + 1]
    BY <1>1, EmptySeq, LenProperties, HeadTailProperties
<1>3. PICK out \in Outputs(g) :
          /\ \/ /\ Strays(out[2])
                /\ UNCHANGED egressed
             \/ /\ ~Strays(out[2])
                /\ Emit(out[1], out[2], "worker")
          /\ groups' = GroupsAfter(out[1])
    BY DEF DispatchGroup
<1>4. out[1] \in SUBSET Key /\ out[2] \in Destinations
    BY <1>2, <1>3 DEF Outputs, Destinations, Group
<1>5. ~holdIfOffCeiling(g.dest)
    BY <1>2 DEF CeilingInv, GroupsInCeiling
<1>6. ~Strays(out[2]) => ~holdIfOffCeiling(out[2])
    BY <1>3, <1>5 DEF Strays, Outputs
<1>7. CeilingRespected'
    <2>1. CASE UNCHANGED egressed
        BY <2>1 DEF CeilingInv, CeilingRespected, holdIfOffCeiling
    <2>2. CASE ~Strays(out[2]) /\ Emit(out[1], out[2], "worker")
        <3>1. "worker" \in Via /\ ~holdIfOffCeiling(out[2])
            BY <1>6, <2>2 DEF Via
        <3> QED
            BY <1>4, <2>2, <3>1, EmitKeepsCeiling DEF CeilingInv
    <2> QED
        BY <1>3, <2>1, <2>2
<1>8. GroupsInCeiling'
    <2>1. CASE groups' = Tail(groups)
        <3>1. DOMAIN groups' = 1..(Len(groups) - 1)
            BY <1>2, <2>1, LenProperties
        <3>2. \A i \in DOMAIN groups' :
                  i + 1 \in DOMAIN groups /\ groups'[i] = groups[i + 1]
            BY <1>2, <2>1, <3>1
        <3> QED
            BY <3>2 DEF CeilingInv, GroupsInCeiling, holdIfOffCeiling
    <2>2. CASE groups' = [groups EXCEPT ![1].keys = @ \ out[1]]
        <3>1. \A i \in DOMAIN groups : groups[i] \in Group
            BY <1>1, <1>2, ElementOfSeq
        <3>2. /\ DOMAIN groups' = DOMAIN groups
              /\ \A i \in DOMAIN groups : groups'[i].dest = groups[i].dest
            BY <2>2, <3>1 DEF Group
        <3> QED
            BY <3>2 DEF CeilingInv, GroupsInCeiling, holdIfOffCeiling
    <2> QED
        BY <1>3, <2>1, <2>2 DEF GroupsAfter
<1> QED
    BY <1>7, <1>8 DEF CeilingInv

LEMMA FlushKeepsCeiling ==
    ASSUME TypeOK, CeilingInv, FlushHeld
    PROVE  CeilingInv'
<1> DEFINE b    == Head(flushTodo)
           dest == IF b.remap THEN RemapDest[b.form] ELSE b.dest
           lost == b.remap /\ (dest = NoBeacon \/ holdIfOffCeiling(dest))
           via  == IF b.remap THEN "remap" ELSE "resend"
<1>1. b \in HeldItem
    BY HeadTailProperties DEF FlushHeld, TypeOK, LoopType
<1>2. UNCHANGED groups
    BY DEF FlushHeld
<1>3. \/ UNCHANGED egressed
      \/ ~lost /\ Emit({KeyOf(b)}, dest, via)
    BY DEF FlushHeld, FlushLoses
<1>4. CASE UNCHANGED egressed
    BY <1>2, <1>4, CeilingUntouched
<1>5. CASE ~lost /\ Emit({KeyOf(b)}, dest, via)
    <2>1. {KeyOf(b)} \in SUBSET Key
        BY <1>1 DEF KeyOf, Key, HeldItem
    <2>2. dest \in Destinations
        BY <1>1, <1>5 DEF HeldItem, Destinations
    <2>3. via \in Via
        BY DEF Via
    <2>4. via \in {"worker", "remap"} => ~holdIfOffCeiling(dest)
        BY <1>5
    <2>5. CeilingRespected'
        BY <1>5, <2>1, <2>2, <2>3, <2>4, EmitKeepsCeiling DEF CeilingInv
    <2> QED
        BY <1>2, <2>5 DEF CeilingInv, GroupsInCeiling, holdIfOffCeiling
<1> QED
    BY <1>3, <1>4, <1>5

LEMMA SyncKeepsCeiling ==
    ASSUME TypeOK, TrackerInRange, CeilingInv, SyncDispatch
    PROVE  CeilingInv'
<1> DEFINE d     == Head(syncTodo)
           forms == FormsOf[d.type]
           f     == forms[tracker]
<1>1. d \in Descriptor
    BY HeadTailProperties DEF SyncDispatch, TypeOK, LoopType
<1>2. UNCHANGED groups
    BY DEF SyncDispatch
<1>3. \/ UNCHANGED egressed
      \/ forms # <<>> /\ Emit({<<d.seq, f>>}, Dest[f], "sync")
    BY DEF SyncDispatch, SyncDrop, SyncThrow, SyncSend
<1>4. CASE UNCHANGED egressed
    BY <1>2, <1>4, CeilingUntouched
<1>5. CASE forms # <<>> /\ Emit({<<d.seq, f>>}, Dest[f], "sync")
    <2>1. forms \in Seq(Forms)
        BY <1>1, ConstantsAssumption DEF Descriptor
    <2>2. Len(forms) \in Nat \ {0} /\ tracker \in Nat \ {0}
        BY <1>5, <2>1, EmptySeq DEF TypeOK, LoopType
    <2>3. tracker \in 1..Len(forms)
        BY <2>2 DEF TrackerInRange
    <2>4. f \in Forms
        BY <2>1, <2>3, ElementOfSeq
    <2>5. {<<d.seq, f>>} \in SUBSET Key /\ Dest[f] \in Destinations
        BY <1>1, <2>4 DEF Key, Descriptor, Destinations, MappedDest
    <2>6. "sync" \in Via /\ "sync" \notin {"worker", "remap"}
        BY DEF Via
    <2>7. CeilingRespected'
        BY <1>5, <2>5, <2>6, EmitKeepsCeiling DEF CeilingInv
    <2> QED
        BY <1>2, <2>7 DEF CeilingInv, GroupsInCeiling, holdIfOffCeiling
<1> QED
    BY <1>3, <1>4, <1>5

LEMMA CeilingStep ==
    ASSUME TypeOK, TrackerInRange, CeilingInv, [Next]_vars
    PROVE  CeilingInv'
<1>1. CASE UNCHANGED <<groups, egressed>>
    BY <1>1, CeilingUntouched
<1>2. \/ UNCHANGED <<groups, egressed>>
      \/ GateRequest \/ DispatchGroup \/ FlushHeld \/ SyncDispatch
    BY DEF Next, Host, Browser, Chamber, Main, vars, loop, history, push,
           pushCritical, setConsent, flushNow, dispose, Hide, Show, PageHide,
           WorkerFails, FlushOnLeaving, StartBatch, RouteEvent, PostReady, drain,
           onmessage, FetchSettles, flushNowContinues, FlushNowChunk
<1> QED
    BY <1>1, <1>2, GateKeepsCeiling, DispatchKeepsCeiling, FlushKeepsCeiling,
       SyncKeepsCeiling

(* What the worker path maps, coalesces or re-maps leaves only for a       *)
(* declared endpoint, whatever the hooks return (airlock.js:540-581,       *)
(* 826-838).                                                               *)
THEOREM CeilingHolds == Spec => []CeilingRespected
<1>1. Init => TypeInv /\ CeilingInv
    BY InitType DEF Init, TypeInv, TrackerInRange, CeilingInv, GroupsInCeiling,
       CeilingRespected
<1>2. TypeInv /\ CeilingInv /\ [Next]_vars => (TypeInv /\ CeilingInv)'
    BY TypeStep, CeilingStep DEF TypeInv
<1>3. TypeInv /\ CeilingInv => CeilingRespected
    BY DEF CeilingInv
<1> QED
    BY <1>1, <1>2, <1>3, PTL DEF Spec
-----------------------------------------------------------------------------
(* dispose() runs between two tasks, so no loop is left half done, and it  *)
(* empties both channels; from then on only the host starts a loop.        *)
Quiet ==
    disposed =>
        /\ worker = "terminated" /\ job = NoJob /\ outbox = <<>>
        /\ readyTodo = <<>> /\ groups = <<>>
        /\ \A i \in DOMAIN syncTodo : syncTodo[i].seq < 0

LEMMA QuietStep ==
    ASSUME TypeOK, Quiet, [Next]_vars
    PROVE  Quiet'
<1>1. CASE ~disposed'
    BY <1>1 DEF Quiet
<1>2. CASE dispose
    BY <1>2 DEF dispose, Idle, LoopDone, loop, Quiet
<1>3. CASE disposed /\ disposed'
    <2>1. /\ worker = "terminated" /\ job = NoJob /\ outbox = <<>>
          /\ readyTodo = <<>> /\ groups = <<>>
          /\ \A i \in DOMAIN syncTodo : syncTodo[i].seq < 0
        BY <1>3 DEF Quiet
    <2>2. /\ UNCHANGED <<worker, job, outbox, readyTodo, groups>>
          /\ \/ UNCHANGED syncTodo
             \/ \E t \in Types : pushCritical(t)
             \/ SyncDispatch
        BY <1>3, <2>1 DEF Next, Host, Browser, Chamber, Main, vars, instance,
           loop, chamber, push, setConsent, flushNow, dispose, pushCritical,
           Hide, Show, PageHide, WorkerFails, FlushOnLeaving, Listening,
           StartBatch, RouteEvent, PostReady, drain, sendBatch, onmessage,
           FetchSettles, GateRequest, DispatchGroup, FlushHeld,
           flushNowContinues, FlushNowChunk, SyncDispatch
    <2>3. \A i \in DOMAIN syncTodo' : syncTodo'[i].seq < 0
        <3>1. CASE UNCHANGED syncTodo
            BY <2>1, <3>1
        <3>2. ASSUME NEW t \in Types, pushCritical(t)
              PROVE  \A i \in DOMAIN syncTodo' : syncTodo'[i].seq < 0
            <4>1. pushedCritical \in Nat
                BY DEF TypeOK, EnvironmentType
            <4>2. syncTodo' = <<[seq |-> -(pushedCritical + 1), type |-> t]>>
                BY <3>2 DEF pushCritical
            <4> QED
                BY <4>1, <4>2
        <3>3. CASE SyncDispatch
            <4>1. syncTodo \in Seq(Descriptor) /\ syncTodo # <<>>
                BY <3>3 DEF SyncDispatch, TypeOK, LoopType
            <4>2. /\ Len(syncTodo) \in Nat /\ DOMAIN syncTodo = 1..Len(syncTodo)
                  /\ Tail(syncTodo) \in Seq(Descriptor)
                  /\ DOMAIN Tail(syncTodo) = 1..(Len(syncTodo) - 1)
                  /\ \A i \in 1..(Len(syncTodo) - 1) :
                        Tail(syncTodo)[i] = syncTodo[i + 1]
                BY <4>1, LenProperties, HeadTailProperties
            <4>3. \/ UNCHANGED syncTodo \/ syncTodo' = <<>>
                  \/ syncTodo' = Tail(syncTodo)
                BY <3>3 DEF SyncDispatch, SyncDrop, SyncThrow, SyncSend, NextSync
            <4>4. CASE syncTodo' = Tail(syncTodo)
                <5>1. ASSUME NEW i \in 1..(Len(syncTodo) - 1)
                      PROVE  Tail(syncTodo)[i].seq < 0
                    <6>1. i + 1 \in DOMAIN syncTodo
                        BY <4>2
                    <6> QED
                        BY <2>1, <4>2, <6>1
                <5> QED
                    BY <4>2, <4>4, <5>1
            <4> QED
                BY <2>1, <4>3, <4>4
        <3> QED
            BY <2>2, <3>1, <3>2, <3>3
    <2> QED
        BY <2>1, <2>2, <2>3 DEF Quiet
<1>4. ~disposed' \/ dispose \/ (disposed /\ disposed')
    BY DEF Next, Host, Browser, Chamber, Main, vars, instance, push,
           pushCritical, setConsent, flushNow, Hide, Show, PageHide, WorkerFails,
           FlushOnLeaving, StartBatch, RouteEvent, PostReady, drain, onmessage,
           FetchSettles, GateRequest, DispatchGroup, FlushHeld,
           flushNowContinues, FlushNowChunk, SyncDispatch, TypeOK, InstanceType
<1> QED
    BY <1>1, <1>2, <1>3, <1>4

(* A fetch adds exactly one beacon.                                        *)
LEMMA OneNewBeacon ==
    ASSUME TypeOK, NEW keys, NEW dest, NEW via, Emit(keys, dest, via),
           egressed' \in Seq(Beacon)
    PROVE  NewBeacons = {[keys |-> keys, dest |-> dest, via |-> via]}
<1> DEFINE e == [keys |-> keys, dest |-> dest, via |-> via]
           n == Len(egressed)
<1>1. egressed \in Seq(Beacon) /\ n \in Nat
    BY LenProperties DEF TypeOK, HistoryType
<1>2. Len(egressed') = n + 1 /\ egressed'[n + 1] = e
    BY <1>1 DEF Emit
<1>3. (n + 1)..Len(egressed') = {n + 1}
    BY <1>1, <1>2
<1> QED
    BY <1>2, <1>3 DEF NewBeacons

LEMMA QuietEgress ==
    ASSUME TypeInv, Quiet, [Next]_vars, egressed' # egressed, disposed
    PROVE  \A b \in NewBeacons :
              \/ b.via \in {"resend", "remap"}
              \/ b.via = "sync" /\ \A k \in b.keys : k[1] < 0
<1>1. egressed' \in Seq(Beacon) /\ TypeOK
    BY TypeStep DEF TypeInv, TypeOK, HistoryType
<1>2. DispatchGroup \/ FlushHeld \/ SyncDispatch
    BY DEF Next, Host, Browser, Chamber, Main, vars, history, push,
           pushCritical, setConsent, flushNow, dispose, Hide, Show, PageHide,
           WorkerFails, FlushOnLeaving, StartBatch, RouteEvent, PostReady,
           drain, onmessage, FetchSettles, GateRequest, flushNowContinues,
           FlushNowChunk
<1>3. ~DispatchGroup
    BY DEF Quiet, DispatchGroup
<1>4. CASE FlushHeld
    <2> DEFINE b    == Head(flushTodo)
               dest == IF b.remap THEN RemapDest[b.form] ELSE b.dest
               via  == IF b.remap THEN "remap" ELSE "resend"
    <2>1. Emit({KeyOf(b)}, dest, via)
        BY <1>4 DEF FlushHeld
    <2>2. NewBeacons = {[keys |-> {KeyOf(b)}, dest |-> dest, via |-> via]}
        BY <1>1, <2>1, OneNewBeacon
    <2> QED
        BY <2>2
<1>5. CASE SyncDispatch
    <2> DEFINE d == Head(syncTodo)
               f == FormsOf[d.type][tracker]
    <2>1. Emit({<<d.seq, f>>}, Dest[f], "sync")
        BY <1>5 DEF SyncDispatch, SyncDrop, SyncThrow, SyncSend
    <2>2. d.seq < 0
        <3>1. syncTodo \in Seq(Descriptor) /\ syncTodo # <<>>
            BY <1>1, <1>5 DEF SyncDispatch, TypeOK, LoopType
        <3>2. 1 \in DOMAIN syncTodo /\ d = syncTodo[1]
            BY <3>1, EmptySeq, LenProperties, HeadTailProperties
        <3> QED
            BY <3>2 DEF Quiet
    <2>3. NewBeacons = {[keys |-> {<<d.seq, f>>}, dest |-> Dest[f], via |-> "sync"]}
        BY <1>1, <2>1, OneNewBeacon
    <2> QED
        BY <2>2, <2>3
<1> QED
    BY <1>2, <1>3, <1>4, <1>5

(* dispose() (airlock.js:690-699) leaves the host the only source of       *)
(* egress: what a torn-down instance still sends it was told to send.      *)
THEOREM DisposedIsQuiet == Spec => QuietAfterDispose
<1>1. Init => TypeInv /\ Quiet
    BY InitType DEF Init, TypeInv, TrackerInRange, Quiet
<1>2. TypeInv /\ Quiet /\ [Next]_vars => (TypeInv /\ Quiet)'
    BY TypeStep, QuietStep DEF TypeInv
<1>3. TypeInv /\ Quiet /\ [Next]_vars =>
         [disposed => \A b \in NewBeacons :
             \/ b.via \in {"resend", "remap"}
             \/ b.via = "sync" /\ \A k \in b.keys : k[1] < 0]_egressed
    BY QuietEgress
<1> QED
    BY <1>1, <1>2, <1>3, PTL DEF Spec, QuietAfterDispose
-----------------------------------------------------------------------------
(* What unloadFlush sorted stays sorted: no critical event is queued behind*)
(* another. A throw empties the queue, every other step takes its head.    *)
SyncSorted ==
    \A i, j \in DOMAIN syncTodo :
        i < j /\ IsCritical(syncTodo[j]) => IsCritical(syncTodo[i])

LEMMA SortedFlush ==
    ASSUME TypeOK, unloadFlush
    PROVE  SyncSorted'
<1>1. PICK p \in StableSorts(ring) : syncTodo' = [i \in DOMAIN ring |-> ring[p[i]]]
    BY DEF unloadFlush
<1>2. ASSUME NEW i \in DOMAIN ring, NEW j \in DOMAIN ring, i < j,
             IsCritical(ring[p[j]])
      PROVE  IsCritical(ring[p[i]])
    <2>1. \/ Rank(ring[p[i]]) < Rank(ring[p[j]])
          \/ (Rank(ring[p[i]]) = Rank(ring[p[j]]) /\ p[i] < p[j])
        BY <1>2 DEF StableSorts
    <2>2. Rank(ring[p[j]]) = 0
        BY <1>2 DEF Rank, IsCritical
    <2>3. Rank(ring[p[i]]) \in {0, 1}
        BY DEF Rank
    <2>4. Rank(ring[p[i]]) # 1
        BY <2>1, <2>2
    <2> QED
        BY <2>4 DEF Rank, IsCritical
<1> QED
    BY <1>1, <1>2 DEF SyncSorted

LEMMA SyncTodoShrinks ==
    ASSUME TypeOK, SyncDispatch
    PROVE  /\ \/ UNCHANGED syncTodo \/ syncTodo' = <<>> \/ syncTodo' = Tail(syncTodo)
           /\ \A i \in DOMAIN syncTodo' :
                 \E k \in {0, 1} : /\ i + k \in DOMAIN syncTodo
                                   /\ syncTodo'[i] = syncTodo[i + k]
<1>1. syncTodo \in Seq(Descriptor) /\ syncTodo # <<>>
    BY DEF SyncDispatch, TypeOK, LoopType
<1>2. /\ Len(syncTodo) \in Nat /\ DOMAIN syncTodo = 1..Len(syncTodo)
      /\ DOMAIN Tail(syncTodo) = 1..(Len(syncTodo) - 1)
      /\ \A i \in 1..(Len(syncTodo) - 1) : Tail(syncTodo)[i] = syncTodo[i + 1]
    BY <1>1, LenProperties, HeadTailProperties
<1>3. UNCHANGED syncTodo \/ syncTodo' = <<>> \/ syncTodo' = Tail(syncTodo)
    BY DEF SyncDispatch, SyncDrop, SyncThrow, SyncSend, NextSync
<1>4. CASE UNCHANGED syncTodo
    <2>1. \A i \in DOMAIN syncTodo' : /\ i + 0 \in DOMAIN syncTodo
                                      /\ syncTodo'[i] = syncTodo[i + 0]
        BY <1>2, <1>4
    <2> QED
        BY <1>3, <2>1
<1>5. CASE syncTodo' = <<>>
    BY <1>3, <1>5
<1>6. CASE syncTodo' = Tail(syncTodo)
    <2>1. \A i \in DOMAIN syncTodo' : /\ i + 1 \in DOMAIN syncTodo
                                      /\ syncTodo'[i] = syncTodo[i + 1]
        BY <1>2, <1>6
    <2> QED
        BY <1>3, <2>1
<1> QED
    BY <1>3, <1>4, <1>5, <1>6

LEMMA SortedStep ==
    ASSUME TypeOK, SyncSorted, [Next]_vars
    PROVE  SyncSorted'
<1>1. CASE UNCHANGED syncTodo
    BY <1>1 DEF SyncSorted
<1>2. CASE SyncDispatch
    <2>1. CASE syncTodo' = <<>>
        BY <2>1 DEF SyncSorted
    <2>2. CASE syncTodo' = Tail(syncTodo)
        <3>1. syncTodo \in Seq(Descriptor) /\ syncTodo # <<>>
            BY <1>2 DEF SyncDispatch, TypeOK, LoopType
        <3>2. /\ Len(syncTodo) \in Nat /\ DOMAIN syncTodo = 1..Len(syncTodo)
              /\ DOMAIN Tail(syncTodo) = 1..(Len(syncTodo) - 1)
              /\ \A i \in 1..(Len(syncTodo) - 1) : Tail(syncTodo)[i] = syncTodo[i + 1]
            BY <3>1, LenProperties, HeadTailProperties
        <3>3. ASSUME NEW i \in 1..(Len(syncTodo) - 1), NEW j \in 1..(Len(syncTodo) - 1),
                     i < j, IsCritical(Tail(syncTodo)[j])
              PROVE  IsCritical(Tail(syncTodo)[i])
            <4>1. i + 1 \in DOMAIN syncTodo /\ j + 1 \in DOMAIN syncTodo /\ i + 1 < j + 1
                BY <3>2, <3>3
            <4>2. IsCritical(syncTodo[j + 1])
                BY <3>2, <3>3
            <4>3. IsCritical(syncTodo[i + 1])
                BY <4>1, <4>2 DEF SyncSorted
            <4> QED
                BY <3>2, <4>3
        <3> QED
            BY <2>2, <3>2, <3>3 DEF SyncSorted
    <2> QED
        BY <1>1, <1>2, <2>1, <2>2, SyncTodoShrinks
<1>3. ASSUME NEW t \in Types, pushCritical(t)
      PROVE  SyncSorted'
    BY <1>3 DEF pushCritical, SyncSorted
<1>4. CASE FlushOnLeaving
    BY <1>1, <1>4, SortedFlush DEF FlushOnLeaving
<1>5. \/ UNCHANGED syncTodo \/ SyncDispatch \/ FlushOnLeaving
      \/ \E t \in Types : pushCritical(t)
    BY DEF Next, Host, Browser, Chamber, Main, vars, loop, push, setConsent,
           flushNow, dispose, Hide, Show, PageHide, WorkerFails, StartBatch,
           RouteEvent, PostReady, drain, onmessage, FetchSettles, GateRequest,
           DispatchGroup, FlushHeld, flushNowContinues, FlushNowChunk
<1> QED
    BY <1>1, <1>2, <1>3, <1>4, <1>5

LEMMA CriticalEgress ==
    ASSUME TypeInv, SyncSorted, [Next]_vars, egressed' # egressed
    PROVE  \A b \in NewBeacons :
              b.via = "sync" /\ ~IsCritical(Head(syncTodo)) =>
                 \A i \in DOMAIN syncTodo' : ~IsCritical(syncTodo'[i])
<1>1. egressed' \in Seq(Beacon) /\ TypeOK
    BY TypeStep DEF TypeInv, TypeOK, HistoryType
<1>2. DispatchGroup \/ FlushHeld \/ SyncDispatch
    BY DEF Next, Host, Browser, Chamber, Main, vars, history, push,
           pushCritical, setConsent, flushNow, dispose, Hide, Show, PageHide,
           WorkerFails, FlushOnLeaving, StartBatch, RouteEvent, PostReady,
           drain, onmessage, FetchSettles, GateRequest, flushNowContinues,
           FlushNowChunk
<1>3. CASE DispatchGroup
    <2>1. PICK out \in Outputs(Head(groups)) : Emit(out[1], out[2], "worker")
        BY <1>3 DEF DispatchGroup
    <2>2. NewBeacons = {[keys |-> out[1], dest |-> out[2], via |-> "worker"]}
        BY <1>1, <2>1, OneNewBeacon
    <2> QED
        BY <2>2
<1>4. CASE FlushHeld
    <2> DEFINE b    == Head(flushTodo)
               dest == IF b.remap THEN RemapDest[b.form] ELSE b.dest
               via  == IF b.remap THEN "remap" ELSE "resend"
    <2>1. Emit({KeyOf(b)}, dest, via)
        BY <1>4 DEF FlushHeld
    <2>2. NewBeacons = {[keys |-> {KeyOf(b)}, dest |-> dest, via |-> via]}
        BY <1>1, <2>1, OneNewBeacon
    <2> QED
        BY <2>2
<1>5. CASE SyncDispatch
    <2> SUFFICES ASSUME ~IsCritical(Head(syncTodo)), NEW i \in DOMAIN syncTodo',
                        IsCritical(syncTodo'[i])
                 PROVE  FALSE
        OBVIOUS
    <2>1. PICK k \in {0, 1} : i + k \in DOMAIN syncTodo /\ syncTodo'[i] = syncTodo[i + k]
        BY <1>1, <1>5, SyncTodoShrinks
    <2>2. syncTodo \in Seq(Descriptor) /\ syncTodo # <<>>
        BY <1>1, <1>5 DEF SyncDispatch, TypeOK, LoopType
    <2>3. /\ 1 \in DOMAIN syncTodo /\ Head(syncTodo) = syncTodo[1]
          /\ DOMAIN syncTodo = 1..Len(syncTodo) /\ Len(syncTodo) \in Nat
        BY <2>2, EmptySeq, LenProperties, HeadTailProperties
    <2>4. IsCritical(syncTodo[i + k]) /\ i + k \in 1..Len(syncTodo)
        BY <2>1, <2>3
    <2>5. i + k # 1
        BY <2>3, <2>4
    <2>6. 1 < i + k
        BY <2>3, <2>4, <2>5
    <2>7. IsCritical(syncTodo[1])
        BY <2>1, <2>3, <2>4, <2>6 DEF SyncSorted
    <2> QED
        BY <2>3, <2>7
<1> QED
    BY <1>2, <1>3, <1>4, <1>5

(* The unload flush (airlock.js:644) spends the keepalive budget on the    *)
(* critical names first: no fetch for another name goes out while one of   *)
(* theirs still waits.                                                     *)
THEOREM CriticalGoFirst == Spec => CriticalFirst
<1>1. Init => TypeInv /\ SyncSorted
    BY InitType DEF Init, TypeInv, TrackerInRange, SyncSorted
<1>2. TypeInv /\ SyncSorted /\ [Next]_vars => (TypeInv /\ SyncSorted)'
    BY TypeStep, SortedStep DEF TypeInv
<1>3. TypeInv /\ SyncSorted /\ [Next]_vars =>
         [\A b \in NewBeacons :
             b.via = "sync" /\ ~IsCritical(Head(syncTodo)) =>
                \A i \in DOMAIN syncTodo' : ~IsCritical(syncTodo'[i])]_egressed
    BY CriticalEgress
<1> QED
    BY <1>1, <1>2, <1>3, PTL DEF Spec, CriticalFirst
=============================================================================
