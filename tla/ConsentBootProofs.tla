------------------------- MODULE ConsentBootProofs -------------------------
(***************************************************************************)
(* What TLAPS proves of boot() and OneTrust's changes, for any connectors, *)
(* any groups and any number of boots, changes and interactions.           *)
(***************************************************************************)
EXTENDS ConsentBoot, TLAPS

(* window.airlock is a composite whose boot finished.                      *)
InstalledIsDone == installed # NoBoot => phase[installed] \in {"live", "disposed"}

(* A connector's vector is of the boot, and only of purposes that OneTrust *)
(* says something of by now; a live composite has all of its connectors.   *)
VectorsOfBoot ==
    \A b \in BootIds :
        /\ DOMAIN derivedConsent[b] \subseteq DOMAIN NowConsent
        /\ \A c \in Members : DOMAIN vector[b][c] \subseteq DOMAIN NowConsent
        /\ phase[b] = "new" => booted[b] = 0
        /\ phase[b] = "booting" =>
             \A c \in Members : c <= booted[b] => vector[b][c] = derivedConsent[b]
        /\ phase[b] \in {"live", "disposed"} => booted[b] = Connectors

(* Beacons are held by composites that are installed, and what is held is  *)
(* held by the connector's vector.                                         *)
HeldByVector ==
    \A b \in BootIds :
        /\ phase[b] \in {"new", "booting", "failed"} => held[b] = {}
        /\ \A c \in held[b] : MemberVerdict(vector[b][c], c) = "hold"

(* A boot under way has read the vector of now, for OneTrust cannot change *)
(* before it ends; a live composite with an older one has a call to come.  *)
CallsToCome ==
    /\ toCall # {} => loaded
    /\ activeGroups # Unresolved => loaded
    /\ \A b \in BootIds :
        /\ phase[b] = "booting" => derivedConsent[b] = NowConsent
        /\ Live(b) => \/ \A c \in Members : vector[b][c] = NowConsent
                      \/ \E s \in toCall : activeHandler[s] = b

IInv == /\ TypeOK /\ InstalledIsDone /\ VectorsOfBoot /\ HeldByVector
        /\ CallsToCome /\ NoLeak /\ SlotIsLive
-----------------------------------------------------------------------------
LEMMA EmptyVector == <<>> \in Vector
<1>1. <<>> \in [{} -> {"granted", "denied"}]
    OBVIOUS
<1> QED
    BY <1>1 DEF Vector, VectorsOver

LEMMA VectorIs ==
    ASSUME NEW v
    PROVE  v \in Vector <=> \E D \in SUBSET CONSENT_MODE_V2_PURPOSES : v \in [D -> {"granted", "denied"}]
    BY DEF Vector, VectorsOver

(* OneTrust's vector, once resolved, is of the covered purposes.           *)
LEMMA NowIs ==
    /\ NowConsent \in Vector
    /\ DOMAIN NowConsent = IF activeGroups = Unresolved THEN {} ELSE coverageByPurpose
<1>1. coverageByPurpose \in SUBSET CONSENT_MODE_V2_PURPOSES
    BY DEF coverageByPurpose
<1>2. CASE activeGroups = Unresolved
    BY <1>2, EmptyVector DEF NowConsent, mapOnetrustConsent
<1>3. CASE activeGroups # Unresolved
  <2>1. NowConsent = [p \in coverageByPurpose |->
            IF \E g \in activeGroups : p \in GroupPurposeMap[g] THEN "granted" ELSE "denied"]
      BY <1>3 DEF NowConsent, mapOnetrustConsent
  <2>2. NowConsent \in [coverageByPurpose -> {"granted", "denied"}]
      BY <2>1
  <2> QED
      BY <1>1, <1>3, <2>1, <2>2, VectorIs
<1> QED
    BY <1>2, <1>3

LEMMA MergeIs ==
    ASSUME NEW v \in Vector, NEW u \in Vector
    PROVE  /\ MergeConsent(v, u) \in Vector
           /\ DOMAIN MergeConsent(v, u) = DOMAIN v \cup DOMAIN u
           /\ DOMAIN v \subseteq DOMAIN u => MergeConsent(v, u) = u
<1>1. PICK D \in SUBSET CONSENT_MODE_V2_PURPOSES : v \in [D -> {"granted", "denied"}]
    BY VectorIs
<1>2. PICK U \in SUBSET CONSENT_MODE_V2_PURPOSES : u \in [U -> {"granted", "denied"}]
    BY VectorIs
<1>3. MergeConsent(v, u) = [p \in D \cup U |-> IF p \in U THEN u[p] ELSE v[p]]
    BY <1>1, <1>2 DEF MergeConsent
<1>4. MergeConsent(v, u) \in [D \cup U -> {"granted", "denied"}]
    BY <1>1, <1>2, <1>3
<1>5. D \cup U \in SUBSET CONSENT_MODE_V2_PURPOSES
    OBVIOUS
<1>6. MergeConsent(v, u) \in Vector
    BY <1>4, <1>5, VectorIs
<1>7. ASSUME D \subseteq U PROVE MergeConsent(v, u) = u
  <2>1. D \cup U = U
      BY <1>7
  <2>2. MergeConsent(v, u) = [p \in U |-> u[p]]
      BY <1>3, <2>1
  <2> QED
      BY <1>2, <2>2
<1> QED
    BY <1>1, <1>2, <1>3, <1>6, <1>7

(* Where short of a grant does not drop, the seal holds or sends.          *)
LEMMA VerdictIs ==
    ASSUME NEW v, NEW c
    PROVE  /\ MemberVerdict(v, c) = "hold" => ~consentStrict
           /\ ~consentStrict => MemberVerdict(v, c) \in {"hold", "send"}
    BY DEF MemberVerdict, egressVerdict

LEMMA NowIsNext ==
    DOMAIN NowConsent' = IF activeGroups' = Unresolved THEN {} ELSE coverageByPurpose'
<1>1. CASE activeGroups' = Unresolved
    BY <1>1 DEF NowConsent, mapOnetrustConsent
<1>2. CASE activeGroups' # Unresolved
    BY <1>2 DEF NowConsent, mapOnetrustConsent, coverageByPurpose
<1> QED
    BY <1>1, <1>2

LEMMA InitIInv == Init => IInv
<1> SUFFICES ASSUME Init PROVE IInv
    OBVIOUS
<1> USE BootAssumption DEF Init
<1>1. TypeOK
  <2>1. /\ derivedConsent \in [BootIds -> Vector]
        /\ vector \in [BootIds -> [Members -> Vector]]
      BY EmptyVector
  <2>2. booted \in [BootIds -> 0..Connectors]
      OBVIOUS
  <2> QED
      BY <2>1, <2>2 DEF TypeOK, Phase
<1>2. InstalledIsDone /\ NoLeak /\ SlotIsLive
    BY DEF InstalledIsDone, NoLeak, SlotIsLive, Live
<1>3. VectorsOfBoot /\ HeldByVector
    BY DEF VectorsOfBoot, HeldByVector
<1>4. CallsToCome
    BY DEF CallsToCome, Live
<1> QED
    BY <1>1, <1>2, <1>3, <1>4 DEF IInv

LEMMA NowSame == ASSUME UNCHANGED activeGroups PROVE NowConsent' = NowConsent
    BY DEF NowConsent, mapOnetrustConsent
-----------------------------------------------------------------------------
(* OneTrust has a surface that every live composite holds to call.         *)
LEMMA OneTrustKeepsIInv == IInv /\ (loadOneTrust \/ change) => IInv'
<1> SUFFICES ASSUME IInv, loadOneTrust \/ change PROVE IInv'
    OBVIOUS
<1> USE BootAssumption DEF IInv
<1>1. /\ UNCHANGED <<wired, activeHandler, phase, derivedConsent, booted, vector, up, held,
                     installed, listener, clicks, sent>>
      /\ loaded' = TRUE /\ "OptanonWrapper" \in toCall' /\ toCall' \subseteq Surfaces
      /\ activeGroups' \in ActiveSets \cup {Unresolved} /\ changes' \in Nat
    BY DEF loadOneTrust, change, driver, boots, members, page, TypeOK, Surfaces
<1>2. TypeOK'
    BY <1>1 DEF TypeOK
<1>3. InstalledIsDone' /\ HeldByVector' /\ VectorsOfBoot'
  <2>1. activeGroups = Unresolved \/ activeGroups' # Unresolved
      BY DEF loadOneTrust, change, CallsToCome
  <2>2. coverageByPurpose' = coverageByPurpose
      BY DEF coverageByPurpose
  <2>3. DOMAIN NowConsent \subseteq DOMAIN NowConsent'
      BY <2>1, <2>2, NowIs, NowIsNext
  <2> QED
      BY <1>1, <2>3 DEF InstalledIsDone, VectorsOfBoot, HeldByVector
<1>4. NoLeak' /\ SlotIsLive'
    BY <1>1 DEF NoLeak, SlotIsLive, Live
<1>5. CallsToCome'
  <2>0. \A b \in BootIds : phase[b] # "booting"
      BY DEF loadOneTrust, change, NewTask
  <2>1. ASSUME NEW b \in BootIds, phase[b] = "live" PROVE activeHandler["OptanonWrapper"] = b
      BY <2>1 DEF SlotIsLive, Live, Surfaces
  <2> QED
      BY <1>1, <2>0, <2>1 DEF CallsToCome, Live
<1> QED
    BY <1>2, <1>3, <1>4, <1>5

LEMMA StartKeepsIInv == ASSUME IInv, NEW b \in BootIds, startBoot(b) PROVE IInv'
<1> USE BootAssumption DEF IInv
<1>1. /\ phase[b] = "new" /\ phase' = [phase EXCEPT ![b] = "booting"]
      /\ derivedConsent' = [derivedConsent EXCEPT ![b] = NowConsent]
      /\ UNCHANGED <<loaded, activeGroups, toCall, changes, wired, activeHandler, booted, vector,
                     up, held, installed, listener, clicks, sent>>
    BY DEF startBoot, onetrust, driver, members, page
<1>2. NowConsent' = NowConsent
    BY <1>1, NowSame
<1>3. TypeOK'
    BY <1>1, NowIs DEF TypeOK, Phase
<1>4. InstalledIsDone'
    BY <1>1 DEF InstalledIsDone, TypeOK
<1>5. HeldByVector'
    BY <1>1 DEF HeldByVector, TypeOK
<1>6. NoLeak' /\ SlotIsLive'
    BY <1>1 DEF NoLeak, SlotIsLive, Live, TypeOK
<1>7. CallsToCome'
    BY <1>1, <1>2 DEF CallsToCome, Live, TypeOK
<1>8. VectorsOfBoot'
  <2>1. \A c \in Members : ~(c <= booted[b])
      BY <1>1 DEF VectorsOfBoot, Members
  <2> QED
      BY <1>1, <2>1, <1>2, NowIs, NowSame DEF VectorsOfBoot, TypeOK
<1> QED
    BY <1>3, <1>4, <1>5, <1>6, <1>7, <1>8

LEMMA BootConnectorKeepsIInv == ASSUME IInv, NEW b \in BootIds, bootConnector(b) PROVE IInv'
<1> USE BootAssumption DEF IInv
<1> DEFINE c == booted[b] + 1
<1>1. /\ phase[b] = "booting" /\ booted[b] < Connectors
      /\ booted' = [booted EXCEPT ![b] = c]
      /\ vector' = [vector EXCEPT ![b][c] = derivedConsent[b]]
      /\ up' = [up EXCEPT ![b] = @ \cup {c}]
      /\ listener' = IF c = Interactive /\ listener = NoBoot THEN b ELSE listener
      /\ UNCHANGED <<loaded, activeGroups, toCall, changes, wired, activeHandler, phase,
                     derivedConsent, held, installed, clicks, sent>>
    BY DEF bootConnector, onetrust, driver
<1>2. c \in Members /\ booted[b] \in 0..Connectors /\ c \in 0..Connectors
    BY <1>1 DEF TypeOK, Members
<1>3. /\ vector' \in [BootIds -> [Members -> Vector]]
      /\ \A a \in BootIds, d \in Members :
           vector'[a][d] = IF a = b /\ d = c THEN derivedConsent[b] ELSE vector[a][d]
    BY <1>1, <1>2 DEF TypeOK
<1> HIDE DEF c
<1>4. TypeOK'
    BY <1>1, <1>2, <1>3 DEF TypeOK
<1>5. InstalledIsDone'
    BY <1>1 DEF InstalledIsDone
<1>6. VectorsOfBoot'
  <2>1. \A d \in Members : d <= c => d <= booted[b] \/ d = c
      BY <1>2 DEF c, Members
  <2> QED
      BY <1>1, <1>3, <2>1, NowSame DEF VectorsOfBoot, TypeOK
<1>7. HeldByVector'
    BY <1>1, <1>3 DEF HeldByVector, TypeOK
<1>8. NoLeak' /\ SlotIsLive'
    BY <1>1 DEF NoLeak, SlotIsLive, Live, TypeOK
<1>9. CallsToCome'
    BY <1>1, <1>3, NowSame DEF CallsToCome, Live
<1> QED
    BY <1>4, <1>5, <1>6, <1>7, <1>8, <1>9

LEMMA BootFailsKeepsIInv == ASSUME IInv, NEW b \in BootIds, bootFails(b) PROVE IInv'
<1> USE BootAssumption DEF IInv
<1>1. /\ phase[b] = "booting" /\ phase' = [phase EXCEPT ![b] = "failed"]
      /\ up' = [up EXCEPT ![b] = {}]
      /\ UNCHANGED <<loaded, activeGroups, toCall, changes, wired, activeHandler, derivedConsent,
                     booted, vector, held, installed, listener, clicks, sent>>
    BY DEF bootFails, FailedUp, onetrust, driver, page
<1>2. TypeOK'
    BY <1>1 DEF TypeOK, Phase
<1>3. InstalledIsDone' /\ NoLeak' /\ SlotIsLive'
    BY <1>1 DEF InstalledIsDone, NoLeak, SlotIsLive, Live, TypeOK
<1>4. VectorsOfBoot' /\ HeldByVector'
    BY <1>1, NowSame DEF VectorsOfBoot, HeldByVector, TypeOK
<1>5. CallsToCome'
    BY <1>1, NowSame DEF CallsToCome, Live, TypeOK
<1> QED
    BY <1>2, <1>3, <1>4, <1>5

(* The composite that is replaced lets go of its surfaces, and the new one *)
(* has taken every surface there is.                                       *)
LEMMA FinishKeepsIInv == ASSUME IInv, NEW b \in BootIds, finishBoot(b) PROVE IInv'
<1> USE BootAssumption DEF IInv
<1>1. /\ phase[b] = "booting" /\ booted[b] = Connectors
      /\ wired' = wired \cup Present /\ installed' = b
      /\ activeHandler' = CompareAndClear(TakeOver(activeHandler, b), installed)
      /\ phase' = [Disposed(installed) EXCEPT ![b] = "live"]
      /\ up' = WorkersWithout(installed)
      /\ UNCHANGED <<loaded, activeGroups, toCall, changes, derivedConsent, booted, vector, held,
                     listener, clicks, sent>>
    BY DEF finishBoot, onetrust
<1>2. installed # b /\ installed \in BootIds \cup {NoBoot}
    BY <1>1 DEF InstalledIsDone, TypeOK
<1>3. /\ phase' \in [BootIds -> Phase] /\ phase'[b] = "live"
      /\ \A a \in BootIds : a # b =>
           phase'[a] = IF a = installed THEN "disposed" ELSE phase[a]
    BY <1>1, <1>2 DEF Disposed, TypeOK, Phase
<1>4. /\ activeHandler' \in [Surfaces -> BootIds \cup {NoBoot}]
      /\ \A s \in Present : activeHandler'[s] = b
      /\ \A s \in Surfaces \ Present :
           activeHandler'[s] = IF activeHandler[s] = installed THEN NoBoot ELSE activeHandler[s]
    BY <1>1, <1>2 DEF CompareAndClear, TakeOver, Present, Surfaces, TypeOK
<1>5. /\ up' \in [BootIds -> SUBSET Members]
      /\ \A a \in BootIds : up'[a] = IF a = installed THEN {} ELSE up[a]
    BY <1>1 DEF WorkersWithout, TypeOK
<1>6. /\ "OptanonWrapper" \in Present /\ Present \subseteq Surfaces
      /\ loaded => Present = Surfaces
    BY DEF Present, Surfaces
<1>7. TypeOK'
    BY <1>1, <1>3, <1>4, <1>5, <1>6 DEF TypeOK
<1>8. InstalledIsDone'
    BY <1>1, <1>3 DEF InstalledIsDone
<1>9. NoLeak'
    BY <1>1, <1>2, <1>3, <1>5 DEF NoLeak, Live
<1>10. SlotIsLive'
  <2>1. \A a \in BootIds : Live(a)' => a = b
      BY <1>1, <1>3 DEF NoLeak, Live
  <2>2. ASSUME NEW s \in Surfaces, activeHandler'[s] # NoBoot PROVE activeHandler'[s] = b
    <3>1. CASE s \in Present
        BY <1>4, <3>1
    <3>2. CASE s \notin Present
        BY <1>2, <1>4, <2>2, <3>2 DEF SlotIsLive, NoLeak, Live, TypeOK
    <3> QED
        BY <3>1, <3>2
  <2>3. \A s \in Surfaces : activeHandler'[s] # NoBoot => Live(activeHandler[s])'
      BY <1>3, <2>2 DEF Live
  <2> QED
      BY <1>4, <1>6, <2>1, <2>3 DEF SlotIsLive
<1>11. VectorsOfBoot'
    BY <1>1, <1>2, <1>3, NowSame DEF VectorsOfBoot, InstalledIsDone
<1>12. HeldByVector'
    BY <1>1, <1>2, <1>3 DEF HeldByVector
<1>13. CallsToCome'
  <2>1. NowConsent' = NowConsent
      BY <1>1, NowSame
  <2>2. \A c \in Members : vector[b][c] = NowConsent
    <3>1. derivedConsent[b] = NowConsent
        BY <1>1 DEF CallsToCome
    <3>2. \A c \in Members : c <= booted[b]
        BY <1>1 DEF Members
    <3> QED
        BY <1>1, <3>1, <3>2 DEF VectorsOfBoot
  <2>3. \A a \in BootIds : a # b => ~Live(a)'
      BY <1>1, <1>3 DEF NoLeak, Live
  <2> QED
      BY <1>1, <1>3, <2>1, <2>2, <2>3 DEF CallsToCome, Live
<1> QED
    BY <1>7, <1>8, <1>9, <1>10, <1>11, <1>12, <1>13

(* A surface's call brings the live composite up to date.                  *)
LEMMA CallKeepsIInv ==
    ASSUME IInv, NEW s \in toCall,
           toCall' = toCall \ {s},
           IF activeHandler[s] = NoBoot THEN UNCHANGED members
           ELSE setConsent(activeHandler[s], NowConsent),
           UNCHANGED <<loaded, activeGroups, changes, driver, boots, page>>
    PROVE  IInv'
<1> USE BootAssumption DEF IInv
<1> DEFINE h == activeHandler[s]
<1>1. UNCHANGED <<loaded, activeGroups, changes, wired, activeHandler, phase, derivedConsent,
                  booted, installed, listener, clicks, sent, up>>
    BY DEF driver, boots, page, members, setConsent
<1>2. NowConsent' = NowConsent
    BY <1>1, NowSame
<1>3. s \in Surfaces /\ h \in BootIds \cup {NoBoot} /\ toCall' \subseteq toCall
    BY DEF TypeOK
<1>4. h # NoBoot => h \in BootIds /\ phase[h] = "live" /\ booted[h] = Connectors
    BY <1>3 DEF SlotIsLive, Live, VectorsOfBoot
<1>5. ASSUME NEW c \in Members, h # NoBoot
      PROVE  /\ MergeConsent(vector[h][c], NowConsent) \in Vector
             /\ MergeConsent(vector[h][c], NowConsent) = NowConsent
  <2>1. vector[h][c] \in Vector /\ DOMAIN vector[h][c] \subseteq DOMAIN NowConsent
      BY <1>4, <1>5 DEF TypeOK, VectorsOfBoot
  <2>2. NowConsent \in Vector
      BY NowIs
  <2> HIDE DEF h
  <2> DEFINE v == vector[h][c]  u == NowConsent
  <2>3. v \in Vector /\ u \in Vector
      BY <2>1, <2>2
  <2> HIDE DEF v, u
  <2>4. /\ MergeConsent(v, u) \in Vector
        /\ DOMAIN MergeConsent(v, u) = DOMAIN v \cup DOMAIN u
        /\ DOMAIN v \subseteq DOMAIN u => MergeConsent(v, u) = u
      BY <2>3, MergeIs
  <2> QED
      BY <2>1, <2>2, <2>4 DEF v, u
<1>6. vector' = [b \in BootIds |-> [c \in Members |->
                  IF b = h THEN MergeConsent(vector[b][c], NowConsent) ELSE vector[b][c]]]
  <2>1. CASE h = NoBoot
      BY <2>1 DEF members, TypeOK
  <2>2. CASE h # NoBoot
    <3>1. Reached(h) = Members
        BY <1>4, <2>2 DEF Reached, Members
    <3> QED
        BY <2>2, <3>1, <1>4 DEF setConsent, TypeOK
  <2> QED
      BY <2>1, <2>2
<1>7. held' = [b \in BootIds |->
                IF b = h THEN {c \in held[b] : MemberVerdict(vector'[b][c], c) # "send"}
                ELSE held[b]]
  <2>1. CASE h = NoBoot
      BY <2>1 DEF members, TypeOK
  <2>2. CASE h # NoBoot
      BY <2>2, <1>4 DEF setConsent, TypeOK
  <2> QED
      BY <2>1, <2>2
<1>8. vector' \in [BootIds -> [Members -> Vector]]
    BY <1>4, <1>5, <1>6 DEF TypeOK
<1>9. TypeOK'
  <2>1. held' \in [BootIds -> SUBSET Members]
      BY <1>7 DEF TypeOK
  <2> QED
      BY <1>1, <1>3, <1>8, <2>1 DEF TypeOK
<1>10. InstalledIsDone' /\ NoLeak' /\ SlotIsLive'
    BY <1>1 DEF InstalledIsDone, NoLeak, SlotIsLive, Live
<1>11. VectorsOfBoot'
  <2>1. ASSUME NEW b \in BootIds, NEW c \in Members
        PROVE  DOMAIN vector'[b][c] \subseteq DOMAIN NowConsent
      BY <1>4, <1>5, <1>6 DEF VectorsOfBoot
  <2>2. ASSUME NEW b \in BootIds, phase[b] = "booting" PROVE vector'[b] = vector[b]
      BY <1>4, <1>6, <2>2 DEF TypeOK
  <2> QED
      BY <1>1, <1>2, <2>1, <2>2 DEF VectorsOfBoot
<1>12. HeldByVector'
  <2>1. ASSUME NEW b \in BootIds, NEW c \in held'[b]
        PROVE  MemberVerdict(vector'[b][c], c) = "hold"
    <3>1. c \in held[b] /\ c \in Members
        BY <1>7, <2>1 DEF TypeOK
    <3>2. MemberVerdict(vector[b][c], c) = "hold"
        BY <3>1 DEF HeldByVector
    <3>3. CASE b = h
      <4>1. MemberVerdict(vector'[b][c], c) # "send"
          BY <1>7, <2>1, <3>3
      <4>2. ~consentStrict
          BY <3>2, VerdictIs
      <4> QED
          BY <4>1, <4>2, VerdictIs
    <3>4. CASE b # h
        BY <1>6, <3>1, <3>2, <3>4
    <3> QED
        BY <3>3, <3>4
  <2>2. ASSUME NEW b \in BootIds PROVE held'[b] \subseteq held[b]
      BY <1>7
  <2> QED
      BY <1>1, <2>1, <2>2 DEF HeldByVector
<1>13. CallsToCome'
  <2>1. ASSUME NEW b \in BootIds, Live(b)
        PROVE  \/ \A c \in Members : vector'[b][c] = NowConsent
               \/ \E t \in toCall' : activeHandler[t] = b
    <3>1. CASE b = h
        BY <1>4, <1>5, <1>6, <2>1, <3>1
    <3>2. CASE b # h
        BY <1>6, <2>1, <3>2 DEF CallsToCome
    <3> QED
        BY <3>1, <3>2
  <2> QED
      BY <1>1, <1>2, <1>3, <2>1 DEF CallsToCome, Live
<1> QED
    BY <1>9, <1>10, <1>11, <1>12, <1>13

LEMMA CallSurfaceKeepsIInv == IInv /\ callSurface => IInv'
    BY CallKeepsIInv DEF callSurface

(* window.airlock, disposed of by the host, hears OneTrust no more.        *)
LEMMA DisposeKeepsIInv == IInv /\ dispose => IInv'
<1> SUFFICES ASSUME IInv, dispose PROVE IInv'
    OBVIOUS
<1> USE BootAssumption DEF IInv
<1>1. /\ installed \in BootIds /\ phase[installed] = "live"
      /\ activeHandler' = CompareAndClear(activeHandler, installed)
      /\ phase' = [phase EXCEPT ![installed] = "disposed"]
      /\ up' = [up EXCEPT ![installed] = {}]
      /\ UNCHANGED <<loaded, activeGroups, toCall, changes, wired, derivedConsent, booted, vector,
                     held, installed, listener, clicks, sent>>
    BY DEF dispose, Disposed, WorkersWithout, onetrust, page, TypeOK
<1>2. /\ activeHandler' \in [Surfaces -> BootIds \cup {NoBoot}]
      /\ \A s \in Surfaces : activeHandler'[s] =
            IF activeHandler[s] = installed THEN NoBoot ELSE activeHandler[s]
    BY DEF dispose, CompareAndClear, TypeOK
<1>3. /\ phase' \in [BootIds -> Phase]
      /\ \A b \in BootIds : phase'[b] = IF b = installed THEN "disposed" ELSE phase[b]
    BY <1>1 DEF TypeOK, Phase
<1>4. TypeOK'
    BY <1>1, <1>2, <1>3 DEF TypeOK
<1>5. InstalledIsDone' /\ HeldByVector'
    BY <1>1, <1>3 DEF InstalledIsDone, HeldByVector
<1>6. VectorsOfBoot'
    BY <1>1, <1>3, NowSame DEF VectorsOfBoot
<1>7. \A b \in BootIds : ~Live(b)'
    BY <1>1, <1>3 DEF NoLeak, Live
<1>8. NoLeak'
    BY <1>1, <1>3, <1>7 DEF NoLeak, Live, TypeOK
<1>9. SlotIsLive'
  <2>1. \A s \in Surfaces : activeHandler'[s] = NoBoot
      BY <1>2 DEF SlotIsLive, NoLeak, TypeOK
  <2> QED
      BY <1>7, <2>1 DEF SlotIsLive
<1>10. CallsToCome'
    BY <1>1, <1>3, <1>7, NowSame DEF CallsToCome
<1> QED
    BY <1>4, <1>5, <1>6, <1>8, <1>9, <1>10

(* What a push holds is held by the connectors of a live composite.        *)
LEMMA PushKeepsIInv == IInv /\ push => IInv'
<1> SUFFICES ASSUME IInv, push PROVE IInv'
    OBVIOUS
<1> USE BootAssumption DEF IInv
<1>1. /\ installed \in BootIds /\ phase[installed] \in {"live", "disposed"}
      /\ UNCHANGED <<loaded, activeGroups, toCall, changes, wired, activeHandler, phase,
                     derivedConsent, booted, vector, up, installed, listener, clicks, sent>>
    BY DEF push, onetrust, driver, boots, page, InstalledIsDone, TypeOK
<1>2. held' = [held EXCEPT ![installed] = @ \cup
                {c \in up[installed] : MemberVerdict(vector[installed][c], c) = "hold"}]
    BY DEF push
<1>3. /\ held' \in [BootIds -> SUBSET Members]
      /\ \A b \in BootIds : held'[b] = IF b = installed
           THEN held[b] \cup {c \in up[b] : MemberVerdict(vector[b][c], c) = "hold"}
           ELSE held[b]
    BY <1>1, <1>2 DEF TypeOK
<1>4. TypeOK'
    BY <1>1, <1>3 DEF TypeOK
<1>5. InstalledIsDone' /\ VectorsOfBoot' /\ NoLeak' /\ SlotIsLive'
    BY <1>1, NowSame DEF InstalledIsDone, VectorsOfBoot, NoLeak, SlotIsLive, Live
<1>6. HeldByVector'
    BY <1>1, <1>3 DEF HeldByVector
<1>7. CallsToCome'
    BY <1>1, NowSame DEF CallsToCome, Live
<1> QED
    BY <1>4, <1>5, <1>6, <1>7

LEMMA InteractKeepsIInv == IInv /\ interact => IInv'
<1> SUFFICES ASSUME IInv, interact PROVE IInv'
    OBVIOUS
<1> USE BootAssumption DEF IInv
<1>1. /\ UNCHANGED <<loaded, activeGroups, toCall, changes, wired, activeHandler, phase,
                     derivedConsent, booted, vector, up, held, installed, listener>>
      /\ clicks' \in Nat /\ sent' \in Nat
    BY DEF interact, onetrust, driver, boots, members, TypeOK
<1>2. TypeOK'
    BY <1>1 DEF TypeOK
<1>3. InstalledIsDone' /\ VectorsOfBoot' /\ HeldByVector' /\ NoLeak' /\ SlotIsLive'
    BY <1>1, NowSame DEF InstalledIsDone, VectorsOfBoot, HeldByVector, NoLeak, SlotIsLive, Live
<1>4. CallsToCome'
    BY <1>1, NowSame DEF CallsToCome, Live
<1> QED
    BY <1>2, <1>3, <1>4

LEMMA StutterKeepsIInv == IInv /\ UNCHANGED vars => IInv'
<1> SUFFICES ASSUME IInv, UNCHANGED vars PROVE IInv'
    OBVIOUS
<1> USE DEF IInv
<1>1. UNCHANGED <<loaded, activeGroups, toCall, changes, wired, activeHandler, phase,
                  derivedConsent, booted, vector, up, held, installed, listener, clicks, sent>>
    BY DEF vars, onetrust, driver, boots, members, page
<1>2. TypeOK'
    BY <1>1 DEF TypeOK
<1>3. InstalledIsDone' /\ VectorsOfBoot' /\ HeldByVector' /\ NoLeak' /\ SlotIsLive'
    BY <1>1, NowSame DEF InstalledIsDone, VectorsOfBoot, HeldByVector, NoLeak, SlotIsLive, Live
<1>4. CallsToCome'
    BY <1>1, NowSame DEF CallsToCome, Live
<1> QED
    BY <1>2, <1>3, <1>4

LEMMA NextIInv == IInv /\ [Next]_vars => IInv'
<1> SUFFICES ASSUME IInv, [Next]_vars PROVE IInv'
    OBVIOUS
<1>1. CASE loadOneTrust \/ change
    BY <1>1, OneTrustKeepsIInv
<1>2. CASE callSurface
    BY <1>2, CallSurfaceKeepsIInv
<1>3. ASSUME NEW b \in BootIds, startBoot(b) PROVE IInv'
    BY <1>3, StartKeepsIInv
<1>4. ASSUME NEW b \in BootIds, bootConnector(b) PROVE IInv'
    BY <1>4, BootConnectorKeepsIInv
<1>5. ASSUME NEW b \in BootIds, bootFails(b) PROVE IInv'
    BY <1>5, BootFailsKeepsIInv
<1>6. ASSUME NEW b \in BootIds, finishBoot(b) PROVE IInv'
    BY <1>6, FinishKeepsIInv
<1>7. CASE dispose
    BY <1>7, DisposeKeepsIInv
<1>8. CASE push
    BY <1>8, PushKeepsIInv
<1>9. CASE interact
    BY <1>9, InteractKeepsIInv
<1>10. CASE UNCHANGED vars
    BY <1>10, StutterKeepsIInv
<1> QED
    BY <1>1, <1>2, <1>3, <1>4, <1>5, <1>6, <1>7, <1>8, <1>9, <1>10 DEF Next

(* The inductive invariant holds in every state of every page.             *)
THEOREM BootInvariant == Spec => []IInv
    BY InitIInv, NextIInv, PTL DEF Spec
-----------------------------------------------------------------------------
(* Every state of boot(), of the composites and of OneTrust is well formed.*)
THEOREM BootTypeCorrect == Spec => []TypeOK
<1>1. IInv => TypeOK
    BY DEF IInv
<1> QED
    BY <1>1, BootInvariant, PTL

(* However boots overlap, fail or replace each other, one composite at most*)
(* is live, the one on window.airlock, and no other keeps a Worker.        *)
THEOREM NoWorkerLeaks == Spec => []NoLeak
<1>1. IInv => NoLeak
    BY DEF IInv
<1> QED
    BY <1>1, BootInvariant, PTL

(* onetrust.js compare-and-clear: the slot of each OneTrust surface is     *)
(* empty or the live composite's, never stranded by an older one's dispose.*)
THEOREM SlotNeverStranded == Spec => []SlotIsLive
<1>1. IInv => SlotIsLive
    BY DEF IInv
<1> QED
    BY <1>1, BootInvariant, PTL

(* With OneTrust's calls made, every connector of the live composite has   *)
(* OneTrust's vector and holds only what that vector holds: no change can  *)
(* come between the one reading of the vector and the subscription.        *)
THEOREM LiveFollows == Spec => []LiveFollowsOneTrust
<1>1. IInv => LiveFollowsOneTrust
  <2> SUFFICES ASSUME IInv, NEW b \in BootIds, Live(b), toCall = {}
               PROVE  Follows(b)
      BY DEF LiveFollowsOneTrust
  <2>1. \A c \in Members : vector[b][c] = NowConsent
      BY DEF IInv, CallsToCome
  <2>2. \A c \in held[b] : c \in Members /\ MemberVerdict(vector[b][c], c) = "hold"
      BY DEF IInv, HeldByVector, TypeOK
  <2> QED
      BY <2>1, <2>2 DEF Follows
<1> QED
    BY <1>1, BootInvariant, PTL
=============================================================================
