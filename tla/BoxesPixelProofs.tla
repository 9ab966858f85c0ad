-------------------------- MODULE BoxesPixelProofs --------------------------
(***************************************************************************)
(* What TLAPS proves of the personalization boxes, for every list of       *)
(* placements, every proposition alloy may return and any number of boots  *)
(* and messages; and of the pixel chamber's hashes and the main thread's   *)
(* cache of them, for any fields, any values and any number of identities  *)
(* and beacons.                                                            *)
(***************************************************************************)
EXTENDS Boxes, PixelIdentity, SequenceTheorems, WellFoundedInduction, TLAPS

(* A handle that revealed its box left it visible: boxes are hidden once,  *)
(* before any handle can reveal.                                           *)
RevealedIsShown == \A s \in revealed : target[s] \notin hidden

(* The reporter has seen what it reported.                                 *)
ReportedIsSeen == \A i \in DOMAIN exposures : keyOf(exposures[i]) \in seen

BoxIInv == /\ BoxTypeOK /\ RevealedIsShown /\ HiddenHasBackstop
        /\ ReportedIsSeen /\ ExposureFollowsDisplay

LEMMA InitBoxIInv == BoxInit => BoxIInv
<1> SUFFICES ASSUME BoxInit PROVE BoxIInv
    OBVIOUS
<1> USE BoxAssumption DEF BoxInit, Handles
<1>1. BoxTypeOK
    BY DEF BoxTypeOK
<1>2. RevealedIsShown /\ HiddenHasBackstop /\ ReportedIsSeen
    BY DEF RevealedIsShown, HiddenHasBackstop, ReportedIsSeen
<1>3. ExposureFollowsDisplay
    BY DEF ExposureFollowsDisplay
<1> QED
    BY <1>1, <1>2, <1>3 DEF BoxIInv

(* The backstops of a list without duplicates are those of the handles that*)
(* hide their element.                                                     *)
LEMMA ReserveKeepsIInv == BoxIInv /\ reservePersonalization => BoxIInv'
<1> SUFFICES ASSUME BoxIInv, reservePersonalization PROVE BoxIInv'
    OBVIOUS
<1> DEFINE reserved == {placements[i].scope : i \in Indices}
           spec(s)  == placements[CHOOSE i \in Indices : placements[i].scope = s]
<1> USE BoxAssumption DEF BoxIInv
<1>1. /\ target' = [s \in reserved |-> TargetOf(spec(s))]
      /\ hidden' = {spec(s).element : s \in {r \in reserved : Prehides(spec(r))}}
      /\ timers' = Scheduled
      /\ UNCHANGED <<placements, writable, revealed, shown, alloy, seen, exposures, displayed>>
      /\ target = <<>> /\ ~firstDuplicateScope
    BY DEF reservePersonalization
<1>2. Handles = {}
    BY <1>1 DEF Handles
<1>3. revealed' = {} /\ exposures' = <<>>
  <2>1. revealed = {}
      BY <1>2 DEF BoxTypeOK
  <2>2. exposures \in Seq(Propositions) /\ DOMAIN exposures = {}
      BY <1>2 DEF ExposureFollowsDisplay, BoxTypeOK
  <2> QED
      BY <1>1, <2>1, <2>2
<1>4. placements \in Seq(Placement) /\ Indices = DOMAIN placements
    BY DEF BoxTypeOK, Indices
<1>5. \A i \in Indices : placements[i] \in Placement
    BY <1>4
<1>6. ASSUME NEW s \in reserved
      PROVE  \E i \in Indices : spec(s) = placements[i] /\ placements[i].scope = s
  <2>1. PICK j \in Indices : placements[j].scope = s
      OBVIOUS
  <2>2. LET i == CHOOSE i \in Indices : placements[i].scope = s
        IN  i \in Indices /\ placements[i].scope = s
      BY <2>1
  <2> QED
      BY <2>2
<1>7. ASSUME NEW i \in Indices
      PROVE  placements[i].scope \in reserved /\ spec(placements[i].scope) = placements[i]
  <2>1. placements[i].scope \in reserved
      OBVIOUS
  <2>2. PICK k \in Indices : /\ spec(placements[i].scope) = placements[k]
                             /\ placements[k].scope = placements[i].scope
      BY <2>1, <1>6
  <2>3. k = i
      BY <2>2, <1>1 DEF firstDuplicateScope
  <2> QED
      BY <2>1, <2>2, <2>3
<1> HIDE DEF reserved, spec
<1>8. \A s \in reserved : spec(s) \in Placement /\ spec(s).scope = s
    BY <1>5, <1>6
<1>9. \A s \in reserved : Prehides(spec(s)) =>
         /\ s \in Scheduled /\ target'[s] = spec(s).element
         /\ spec(s).element # NoElement
  <2> SUFFICES ASSUME NEW s \in reserved, Prehides(spec(s))
               PROVE  /\ s \in Scheduled /\ target'[s] = spec(s).element
                      /\ spec(s).element # NoElement
      OBVIOUS
  <2>1. PICK i \in Indices : spec(s) = placements[i] /\ placements[i].scope = s
      BY <1>6
  <2>2. s \in Scheduled
      BY <2>1 DEF Scheduled
  <2>3. target'[s] = spec(s).element /\ spec(s).element # NoElement
      BY <1>1 DEF Prehides, TargetOf
  <2> QED
      BY <2>2, <2>3
<1>10. \A s \in Scheduled : s \in reserved /\ Prehides(spec(s))
    BY <1>7 DEF Scheduled
<1>11. \A s \in Scheduled : s \in DOMAIN target' /\ target'[s] # NoElement
    BY <1>9, <1>10, <1>1
<1>12. \A s \in reserved : TargetOf(spec(s)) \in Elements \cup {NoElement} /\ s \in Scopes
    BY <1>8 DEF TargetOf, Placement
<1>13. hidden' \subseteq Elements
    BY <1>1, <1>8, <1>9 DEF Placement
<1>14. BoxTypeOK'
    BY <1>1, <1>3, <1>11, <1>12, <1>13 DEF BoxTypeOK, Handles, alloy
<1>15. HiddenHasBackstop'
    BY <1>1, <1>3, <1>9 DEF HiddenHasBackstop
<1>16. RevealedIsShown' /\ ReportedIsSeen' /\ ExposureFollowsDisplay'
    BY <1>3 DEF RevealedIsShown, ReportedIsSeen, ExposureFollowsDisplay
<1> QED
    BY <1>14, <1>15, <1>16

LEMMA BootKeepsIInv == BoxIInv /\ bootAlloy => BoxIInv'
<1> SUFFICES ASSUME BoxIInv, bootAlloy PROVE BoxIInv'
    OBVIOUS
<1> USE BoxAssumption DEF BoxIInv, bootAlloy, boxes, handles
<1>1. BoxTypeOK'
    BY DEF BoxTypeOK, Handles
<1>2. RevealedIsShown' /\ HiddenHasBackstop'
    BY DEF RevealedIsShown, HiddenHasBackstop
<1>3. ReportedIsSeen' /\ ExposureFollowsDisplay'
    BY DEF ReportedIsSeen, ExposureFollowsDisplay
<1> QED
    BY <1>1, <1>2, <1>3

LEMMA DeliverKeepsIInv == BoxIInv /\ deliver => BoxIInv'
<1> SUFFICES ASSUME BoxIInv, deliver PROVE BoxIInv'
    OBVIOUS
<1> USE BoxAssumption DEF BoxIInv, deliver, boxes, handles
<1>1. inbox' \in Seq(Propositions)
  <2>1. PICK p \in Propositions, q \in Propositions : inbox' = <<p>> \/ inbox' = <<p, q>>
      OBVIOUS
  <2>2. <<p>> \in Seq(Propositions) /\ <<p, q>> \in Seq(Propositions)
      OBVIOUS
  <2> QED
      BY <2>1, <2>2
<1>2. BoxTypeOK'
    BY <1>1 DEF BoxTypeOK, Handles
<1>3. RevealedIsShown' /\ HiddenHasBackstop'
    BY DEF RevealedIsShown, HiddenHasBackstop
<1>4. ReportedIsSeen' /\ ExposureFollowsDisplay'
    BY DEF ReportedIsSeen, ExposureFollowsDisplay, keyOf, Handles
<1> QED
    BY <1>2, <1>3, <1>4

(* Whoever asks, a handle reveals its own element and no other, and leaves *)
(* every other hidden element its backstop.                                *)
LEMMA RevealKeeps ==
    ASSUME BoxTypeOK, RevealedIsShown, HiddenHasBackstop, NEW s \in Handles,
           reveal(s), target' = target, timers' = timers \/ timers' = timers \ {s}
    PROVE  /\ revealed' \subseteq Handles' /\ timers' \subseteq Handles'
           /\ hidden' \subseteq hidden /\ target'[s] \notin hidden'
           /\ RevealedIsShown' /\ HiddenHasBackstop'
<1> USE DEF reveal
<1>1. Handles' = Handles
    BY DEF Handles
<1>2. revealed' \subseteq Handles' /\ timers' \subseteq Handles' /\ hidden' \subseteq hidden
    BY <1>1 DEF BoxTypeOK
<1>3. target'[s] \notin hidden'
    BY DEF RevealedIsShown
<1>4. RevealedIsShown'
    BY <1>3 DEF RevealedIsShown
<1>5. HiddenHasBackstop'
  <2> SUFFICES ASSUME NEW e \in hidden'
               PROVE  \E t \in timers' : target'[t] = e /\ t \notin revealed'
      BY DEF HiddenHasBackstop
  <2>1. PICK t \in timers : target[t] = e /\ t \notin revealed
      BY <1>2 DEF HiddenHasBackstop
  <2>2. t # s
      BY <2>1, <1>3
  <2> QED
      BY <2>1, <2>2
<1> QED
    BY <1>2, <1>3, <1>4, <1>5

(* What was reported stays so while boxes are only revealed.               *)
LEMMA RevealKeepsExposures ==
    ASSUME ExposureFollowsDisplay, ReportedIsSeen, UNCHANGED <<boxes, seen, exposures>>,
           hidden' \subseteq hidden, displayed \subseteq displayed'
    PROVE  ExposureFollowsDisplay' /\ ReportedIsSeen'
    BY DEF ExposureFollowsDisplay, ReportedIsSeen, keyOf, Handles, boxes

LEMMA ReleaseKeepsIInv == BoxIInv /\ release => BoxIInv'
<1> SUFFICES ASSUME BoxIInv, release PROVE BoxIInv'
    OBVIOUS
<1> USE DEF BoxIInv
<1>1. PICK s \in Handles : reveal(s)
    BY DEF release
<1>2. UNCHANGED <<boxes, timers, shown, alloy, seen, exposures, displayed>>
    BY DEF release
<1>3. /\ revealed' \subseteq Handles' /\ timers' \subseteq Handles'
      /\ hidden' \subseteq hidden /\ RevealedIsShown' /\ HiddenHasBackstop'
    BY <1>1, <1>2, RevealKeeps DEF boxes
<1>4. BoxTypeOK'
    BY <1>2, <1>3 DEF BoxTypeOK, boxes, alloy
<1>5. ExposureFollowsDisplay' /\ ReportedIsSeen'
    BY <1>2, <1>3, RevealKeepsExposures
<1> QED
    BY <1>3, <1>4, <1>5

LEMMA BackstopKeepsIInv == BoxIInv /\ backstop => BoxIInv'
<1> SUFFICES ASSUME BoxIInv, backstop PROVE BoxIInv'
    OBVIOUS
<1> USE DEF BoxIInv
<1>1. PICK s \in timers : timers' = timers \ {s} /\ reveal(s)
    BY DEF backstop
<1>2. UNCHANGED <<boxes, shown, alloy, seen, exposures, displayed>> /\ s \in Handles
    BY <1>1 DEF backstop, BoxTypeOK
<1>3. /\ revealed' \subseteq Handles' /\ timers' \subseteq Handles'
      /\ hidden' \subseteq hidden /\ RevealedIsShown' /\ HiddenHasBackstop'
    BY <1>1, <1>2, RevealKeeps DEF boxes
<1>4. BoxTypeOK'
    BY <1>2, <1>3 DEF BoxTypeOK, boxes, alloy
<1>5. ExposureFollowsDisplay' /\ ReportedIsSeen'
    BY <1>2, <1>3, RevealKeepsExposures
<1> QED
    BY <1>3, <1>4, <1>5

(* A decision that is shown: the box is revealed before the report.        *)
LEMMA DecideKeepsIInv == BoxIInv /\ decide => BoxIInv'
<1> SUFFICES ASSUME BoxIInv, decide PROVE BoxIInv'
    OBVIOUS
<1> USE DEF BoxIInv
<1> DEFINE p == Head(inbox)
<1>1. /\ inbox \in Seq(Propositions) /\ inbox # <<>>
      /\ p \in Propositions /\ inbox' \in Seq(Propositions)
      /\ UNCHANGED <<boxes, timers, boxBoots, messages, sink>>
    BY DEF decide, BoxTypeOK
<1>2. CASE ~Renderable(p)
  <2>1. UNCHANGED <<revealed, hidden, shown, seen, exposures, displayed>>
      BY <1>2 DEF decide
  <2>2. BoxTypeOK'
      BY <1>1, <2>1 DEF BoxTypeOK, Handles, boxes
  <2>3. RevealedIsShown' /\ HiddenHasBackstop'
      BY <1>1, <2>1 DEF RevealedIsShown, HiddenHasBackstop, boxes
  <2>4. ExposureFollowsDisplay' /\ ReportedIsSeen'
      BY <1>1, <2>1, RevealKeepsExposures
  <2> QED
      BY <2>2, <2>3, <2>4
<1>3. CASE Renderable(p)
  <2>1. fill(p.scope, p) /\ report(p) /\ p.scope \in Handles
      BY <1>3 DEF decide, Renderable
  <2>2. reveal(p.scope)
      BY <2>1 DEF fill, FillReveals
  <2>3. /\ revealed' \subseteq Handles' /\ timers' \subseteq Handles'
        /\ hidden' \subseteq hidden /\ target'[p.scope] \notin hidden'
        /\ RevealedIsShown' /\ HiddenHasBackstop'
      BY <1>1, <2>1, <2>2, RevealKeeps DEF boxes
  <2>4. target[p.scope] \in Elements
      BY <2>1 DEF BoxTypeOK, Handles
  <2>5. /\ DOMAIN shown' \subseteq Elements
        /\ \A e \in DOMAIN shown' : shown'[e] \in Propositions
    <3>1. CASE writable
        BY <3>1, <1>1, <2>1, <2>4 DEF fill, BoxTypeOK
    <3>2. CASE ~writable
        BY <3>2, <1>1, <2>1 DEF fill, BoxTypeOK
    <3> QED
        BY <3>1, <3>2
  <2>6. /\ displayed \subseteq displayed' /\ displayed' \subseteq Propositions
        /\ writable' => p \in displayed'
      BY <1>1, <2>1 DEF fill, BoxTypeOK, boxes
  <2>7. \/ UNCHANGED <<seen, exposures>>
        \/ /\ keyOf(p) \notin seen /\ seen' = seen \cup {keyOf(p)}
           /\ exposures' \in {exposures, Append(exposures, p)}
      BY <2>1 DEF report, Already
  <2>8. exposures' \in Seq(Propositions)
    <3>1. exposures \in Seq(Propositions)
        BY DEF BoxTypeOK
    <3> HIDE DEF p
    <3>2. Append(exposures, p) \in Seq(Propositions)
        BY <1>1, <3>1
    <3> QED
        BY <2>7, <3>1, <3>2
  <2>9. BoxTypeOK'
      BY <1>1, <2>3, <2>5, <2>6, <2>8 DEF BoxTypeOK, boxes
  <2>10. ExposureFollowsDisplay' /\ ReportedIsSeen'
    <3>1. CASE UNCHANGED <<seen, exposures>>
        BY <3>1, <1>1, <2>3, <2>6, RevealKeepsExposures
    <3>2. CASE /\ keyOf(p) \notin seen /\ seen' = seen \cup {keyOf(p)}
               /\ exposures' = exposures
        BY <3>2, <1>1, <2>3, <2>6
        DEF ExposureFollowsDisplay, ReportedIsSeen, keyOf, Handles, boxes
    <3>3. CASE /\ keyOf(p) \notin seen /\ seen' = seen \cup {keyOf(p)}
               /\ exposures' = Append(exposures, p)
      <4>1. exposures \in Seq(Propositions)
          BY DEF BoxTypeOK
      <4>2. DOMAIN exposures' = DOMAIN exposures \cup {Len(exposures) + 1}
          BY <3>3, <4>1
      <4>3. \A i \in DOMAIN exposures : exposures'[i] = exposures[i]
          BY <3>3, <4>1
      <4>4. exposures'[Len(exposures) + 1] = p
          BY <3>3, <4>1
      <4>5. ReportedIsSeen'
          BY <3>3, <4>2, <4>3, <4>4 DEF ReportedIsSeen, keyOf
      <4>6. \A i, j \in DOMAIN exposures' :
              keyOf(exposures'[i]) = keyOf(exposures'[j]) => i = j
          BY <3>3, <4>2, <4>3, <4>4 DEF ReportedIsSeen, ExposureFollowsDisplay
      <4>7. \A i \in DOMAIN exposures' :
              /\ exposures'[i].scope \in Handles'
              /\ target'[exposures'[i].scope] \notin hidden'
              /\ writable' => exposures'[i] \in displayed'
          BY <1>1, <2>1, <2>3, <2>6, <4>2, <4>3, <4>4
          DEF ExposureFollowsDisplay, Handles, boxes
      <4> QED
          BY <4>5, <4>6, <4>7 DEF ExposureFollowsDisplay, keyOf
    <3> QED
        BY <2>7, <3>1, <3>2, <3>3
  <2> QED
      BY <2>3, <2>9, <2>10
<1> QED
    BY <1>2, <1>3

LEMMA NextBoxIInv == BoxIInv /\ [BoxNext]_boxVars => BoxIInv'
<1> SUFFICES ASSUME BoxIInv, [BoxNext]_boxVars PROVE BoxIInv'
    OBVIOUS
<1>1. CASE UNCHANGED boxVars
    BY <1>1 DEF BoxIInv, BoxTypeOK, RevealedIsShown, HiddenHasBackstop, ReportedIsSeen,
       ExposureFollowsDisplay, keyOf, Handles, boxVars, boxes, handles, alloy
<1> QED
    BY <1>1, ReserveKeepsIInv, BootKeepsIInv, DeliverKeepsIInv, DecideKeepsIInv,
       ReleaseKeepsIInv, BackstopKeepsIInv DEF BoxNext

LEMMA BoxInvariant == BoxSpec => []BoxIInv
<1> QED
    BY InitBoxIInv, NextBoxIInv, PTL DEF BoxSpec

(* Every variable of the boxes keeps its type.                             *)
THEOREM BoxTypeCorrect == BoxSpec => []BoxTypeOK
<1>1. BoxIInv => BoxTypeOK
    BY DEF BoxIInv
<1> QED
    BY <1>1, BoxInvariant, PTL

(* No hidden box without a backstop that will show it.                     *)
THEOREM NoBlankBox == BoxSpec => []HiddenHasBackstop
<1>1. BoxIInv => HiddenHasBackstop
    BY DEF BoxIInv
<1> QED
    BY <1>1, BoxInvariant, PTL

(* A display is reported once a boot, after it, and of a visible box.      *)
THEOREM ExposuresAreDisplays == BoxSpec => []ExposureFollowsDisplay
<1>1. BoxIInv => ExposureFollowsDisplay
    BY DEF BoxIInv
<1> QED
    BY <1>1, BoxInvariant, PTL
-----------------------------------------------------------------------------
(* What is on its way, in either direction.                                *)
ToChamber == [type : {"identity"}, raw : Identity, nth : Nat] \cup [type : {"events"}]
ToMain    == [type : {"identity"}, field : ADVANCED_MATCHING_FIELDS, hex : Hash]
               \cup [type : {"ready"}, ud : Hashes]

InTransit == toChamber \in Seq(ToChamber) /\ toMain \in Seq(ToMain)

(* Of a field whose last value was not overtaken, only that value is being *)
(* hashed.                                                                 *)
HashesLatest ==
    \A f \in DOMAIN latest \ overtaken :
        \A h \in hashing : h.field = f => h.raw = latest[f]

PixelIInv == PixelTypeOK /\ InTransit /\ HashesLatest /\ CachesAgree /\ LatestIdentityWins
-----------------------------------------------------------------------------
(* CacheAfter(k), of any messages sent and any cache.                      *)
After(sent, cache, k) ==
    [f \in ADVANCED_MATCHING_FIELDS |->
       LET of == {i \in 1..k : sent[i].type = "identity" /\ sent[i].field = f} IN
         IF of = {} THEN cache[f]
         ELSE sent[CHOOSE i \in of : \A j \in of : j <= i].hex]

Is(sent, i, f) == sent[i].type = "identity" /\ sent[i].field = f

(* A set of indices has a last one.                                        *)
LEMMA LastIndex ==
    ASSUME NEW k \in Nat, NEW T \in SUBSET (1..k), T # {}
    PROVE  \E i \in T : \A j \in T : j <= i
<1> DEFINE U == {k - i : i \in T}
<1>1. U \subseteq Nat /\ U # {}
  <2>1. U \subseteq Nat
      OBVIOUS
  <2>2. PICK i \in T : TRUE
      OBVIOUS
  <2>3. k - i \in U
      BY <2>2
  <2> QED
      BY <2>1, <2>3
<1> HIDE DEF U
<1>2. PICK x \in U : \A y \in U : ~(<<y, x>> \in OpToRel(<, Nat))
  <2>1. IsWellFoundedOn(OpToRel(<, Nat), Nat)
      BY NatLessThanWellFounded, Zenon
  <2> QED
      BY <1>1, <2>1, WFMin, Zenon
<1> USE DEF U
<1>3. \A y \in U : ~(y < x)
    BY <1>1, <1>2 DEF OpToRel
<1>4. PICK i \in T : x = k - i
    OBVIOUS
<1>5. ASSUME NEW j \in T PROVE j <= i
  <2>1. k - j \in U
      OBVIOUS
  <2>2. ~(k - j < k - i)
      BY <2>1, <1>3, <1>4
  <2> QED
      BY <2>2
<1> QED
    BY <1>5

(* A field is what the last message about it says, or what it was.         *)
LEMMA AfterIs ==
    ASSUME NEW sent, NEW cache, NEW k \in Nat, NEW f \in ADVANCED_MATCHING_FIELDS
    PROVE  \/ /\ \A i \in 1..k : ~Is(sent, i, f)
              /\ After(sent, cache, k)[f] = cache[f]
           \/ \E i \in 1..k :
                /\ Is(sent, i, f) /\ \A j \in 1..k : Is(sent, j, f) => j <= i
                /\ After(sent, cache, k)[f] = sent[i].hex
<1> DEFINE of == {i \in 1..k : sent[i].type = "identity" /\ sent[i].field = f}
<1>1. After(sent, cache, k)[f] =
        IF of = {} THEN cache[f]
        ELSE sent[CHOOSE i \in of : \A j \in of : j <= i].hex
    BY DEF After
<1>2. CASE of = {}
    BY <1>1, <1>2 DEF Is
<1>3. CASE of # {}
  <2>1. \E i \in of : \A j \in of : j <= i
      BY <1>3, LastIndex
  <2> DEFINE last == CHOOSE i \in of : \A j \in of : j <= i
  <2>2. last \in of /\ \A j \in of : j <= last
      BY <2>1
  <2> QED
      BY <1>1, <1>3, <2>2 DEF Is
<1> QED
    BY <1>2, <1>3

LEMMA AfterDomain ==
    ASSUME NEW sent, NEW cache, NEW k
    PROVE  After(sent, cache, k) = [f \in ADVANCED_MATCHING_FIELDS |-> After(sent, cache, k)[f]]
    BY DEF After

(* Only the first k messages count.                                        *)
LEMMA AfterSame ==
    ASSUME NEW sent, NEW others, NEW cache, NEW k \in Nat,
           \A i \in 1..k : others[i] = sent[i]
    PROVE  After(others, cache, k) = After(sent, cache, k)
<1>1. ASSUME NEW f \in ADVANCED_MATCHING_FIELDS
      PROVE  After(others, cache, k)[f] = After(sent, cache, k)[f]
    BY AfterIs DEF Is
<1> QED
    BY <1>1, AfterDomain DEF After

(* One message more.                                                       *)
LEMMA AfterOneMore ==
    ASSUME NEW sent, NEW cache, NEW k \in Nat, NEW f \in ADVANCED_MATCHING_FIELDS
    PROVE  After(sent, cache, k + 1)[f] =
             IF Is(sent, k + 1, f) THEN sent[k + 1].hex
             ELSE After(sent, cache, k)[f]
<1>1. CASE Is(sent, k + 1, f)
    BY <1>1, AfterIs DEF Is
<1>2. CASE ~Is(sent, k + 1, f)
  <2>1. CASE \A i \in 1..k : ~Is(sent, i, f)
      BY <1>2, <2>1, AfterIs
  <2>2. CASE \E i \in 1..k : Is(sent, i, f)
    <3>1. PICK i \in 1..k : /\ Is(sent, i, f)
                            /\ \A j \in 1..k : Is(sent, j, f) => j <= i
                            /\ After(sent, cache, k)[f] = sent[i].hex
        BY <2>2, AfterIs
    <3>2. PICK l \in 1..(k + 1) :
             /\ Is(sent, l, f)
             /\ \A j \in 1..(k + 1) : Is(sent, j, f) => j <= l
             /\ After(sent, cache, k + 1)[f] = sent[l].hex
        BY <3>1, AfterIs
    <3>3. l \in 1..k /\ i <= l /\ l <= i
        BY <1>2, <3>1, <3>2
    <3>4. l = i
        BY <3>3
    <3> QED
        BY <1>2, <3>1, <3>2, <3>4
  <2> QED
      BY <2>1, <2>2
<1> QED
    BY <1>1, <1>2

(* The first message handled.                                              *)
LEMMA AfterFirst ==
    ASSUME NEW sent, NEW rest, NEW cache, NEW handled, NEW k \in Nat,
           \A i \in 1..k : rest[i] = sent[i + 1],
           \A f \in ADVANCED_MATCHING_FIELDS :
             handled[f] = IF Is(sent, 1, f) THEN sent[1].hex ELSE cache[f]
    PROVE  After(rest, handled, k) = After(sent, cache, k + 1)
<1>1. ASSUME NEW f \in ADVANCED_MATCHING_FIELDS
      PROVE  After(rest, handled, k)[f] = After(sent, cache, k + 1)[f]
  <2>0. \A i \in 1..k : Is(rest, i, f) <=> Is(sent, i + 1, f)
      BY DEF Is
  <2>1. CASE \A i \in 1..k : ~Is(rest, i, f)
    <3>1. After(rest, handled, k)[f] = handled[f]
        BY <2>1, AfterIs
    <3>2. \A i \in 2..(k + 1) : ~Is(sent, i, f)
      <4> SUFFICES ASSUME NEW i \in 2..(k + 1) PROVE ~Is(sent, i, f)
          OBVIOUS
      <4>1. i - 1 \in 1..k /\ (i - 1) + 1 = i
          OBVIOUS
      <4> QED
          BY <4>1, <2>0, <2>1
    <3>3. CASE Is(sent, 1, f)
      <4>1. PICK l \in 1..(k + 1) : /\ Is(sent, l, f)
                                    /\ After(sent, cache, k + 1)[f] = sent[l].hex
          BY <3>3, AfterIs
      <4>2. l = 1
          BY <3>2, <4>1
      <4> QED
          BY <3>1, <3>3, <4>1, <4>2
    <3>4. CASE ~Is(sent, 1, f)
      <4>1. \A i \in 1..(k + 1) : ~Is(sent, i, f)
          BY <3>2, <3>4
      <4>2. After(sent, cache, k + 1)[f] = cache[f]
          BY <4>1, AfterIs
      <4> QED
          BY <3>1, <3>4, <4>2
    <3> QED
        BY <3>3, <3>4
  <2>2. CASE \E i \in 1..k : Is(rest, i, f)
    <3>1. PICK i \in 1..k : /\ Is(rest, i, f)
                            /\ \A j \in 1..k : Is(rest, j, f) => j <= i
                            /\ After(rest, handled, k)[f] = rest[i].hex
        BY <2>2, AfterIs
    <3>2. i + 1 \in 1..(k + 1) /\ Is(sent, i + 1, f)
        BY <2>0, <3>1
    <3>3. PICK l \in 1..(k + 1) :
             /\ Is(sent, l, f)
             /\ \A j \in 1..(k + 1) : Is(sent, j, f) => j <= l
             /\ After(sent, cache, k + 1)[f] = sent[l].hex
        BY <3>2, AfterIs
    <3>4. i + 1 <= l /\ l - 1 \in 1..k /\ (l - 1) + 1 = l
        BY <3>2, <3>3
    <3>5. Is(rest, l - 1, f)
        BY <2>0, <3>3, <3>4
    <3>6. l - 1 <= i
        BY <3>1, <3>4, <3>5
    <3>7. l = i + 1
        BY <3>4, <3>6
    <3> QED
        BY <3>1, <3>3, <3>7
  <2> QED
      BY <2>1, <2>2
<1> QED
    BY <1>1, AfterDomain DEF After
(* A message taken off the front of what was on its way.                   *)
LEMMA TakenOff ==
    ASSUME NEW S, NEW s \in Seq(S), s # <<>>
    PROVE  /\ Head(s) \in S /\ Head(s) = s[1] /\ 1 \in DOMAIN s
           /\ Tail(s) \in Seq(S) /\ Len(Tail(s)) \in Nat /\ Len(s) = Len(Tail(s)) + 1
           /\ \A i \in 1..Len(Tail(s)) : Tail(s)[i] = s[i + 1]
<1>1. /\ Head(s) \in S /\ Tail(s) \in Seq(S) /\ Len(Tail(s)) = Len(s) - 1
      /\ \A i \in 1..Len(Tail(s)) : Tail(s)[i] = s[i + 1]
    BY HeadTailProperties
<1>2. Len(s) \in Nat /\ Len(s) # 0
    OBVIOUS
<1>3. 1 \in DOMAIN s /\ Head(s) = s[1]
    BY <1>2
<1>4. Len(Tail(s)) \in Nat /\ Len(s) = Len(Tail(s)) + 1
    BY <1>1, <1>2
<1> QED
    BY <1>1, <1>3, <1>4
-----------------------------------------------------------------------------
(* CachesAgree, of any messages sent, any cache and any hashes.            *)
Agree(sent, cache, hashes) ==
    /\ After(sent, cache, Len(sent)) = hashes
    /\ \A k \in DOMAIN sent :
         sent[k].type = "ready" => sent[k].ud = After(sent, cache, k)

LEMMA AgreeIs ==
    /\ CachesAgree <=> Agree(toMain, identityCache, identityHashes)
    /\ CachesAgree' <=> Agree(toMain', identityCache', identityHashes')
    BY DEF CachesAgree, CacheAfter, Agree, After

(* The hashes as they are after a message of the chamber.                  *)
Told(hashes, m) ==
    [f \in ADVANCED_MATCHING_FIELDS |->
       IF m.type = "identity" /\ m.field = f THEN m.hex ELSE hashes[f]]

(* The chamber's hashes and what it tells of them change together.         *)
LEMMA AgreeAppended ==
    ASSUME NEW sent \in Seq(ToMain), NEW m \in ToMain, NEW cache, NEW hashes \in Hashes,
           Agree(sent, cache, hashes), m.type = "ready" => m.ud = hashes
    PROVE  Agree(Append(sent, m), cache, Told(hashes, m))
<1> DEFINE t == Append(sent, m)
           n == Len(sent)
<1>1. /\ t \in Seq(ToMain) /\ Len(t) = n + 1 /\ t[n + 1] = m
      /\ \A i \in 1..n : t[i] = sent[i]
    BY AppendProperties
<1>2. DOMAIN t = 1..(n + 1) /\ n \in Nat /\ DOMAIN sent = 1..n
    BY <1>1
<1> HIDE DEF t, n
<1>3. ASSUME NEW k \in 0..n
      PROVE  After(t, cache, k) = After(sent, cache, k)
  <2>1. k \in Nat /\ \A i \in 1..k : t[i] = sent[i]
      BY <1>1, <1>2
  <2> QED
      BY <2>1, AfterSame
<1>4. ASSUME NEW f \in ADVANCED_MATCHING_FIELDS
      PROVE  After(t, cache, Len(t))[f] =
               IF m.type = "identity" /\ m.field = f THEN m.hex ELSE After(sent, cache, n)[f]
  <2>1. After(t, cache, n + 1)[f] =
          IF Is(t, n + 1, f) THEN t[n + 1].hex ELSE After(t, cache, n)[f]
      BY <1>2, AfterOneMore
  <2>2. After(t, cache, n) = After(sent, cache, n)
      BY <1>2, <1>3
  <2> QED
      BY <1>1, <2>1, <2>2 DEF Is
<1>5. After(sent, cache, n) = hashes
    BY DEF Agree, n
<1>6. After(t, cache, Len(t)) = Told(hashes, m)
  <2>1. After(t, cache, Len(t)) = [f \in ADVANCED_MATCHING_FIELDS |-> After(t, cache, Len(t))[f]]
      BY AfterDomain
  <2> QED
      BY <1>4, <1>5, <2>1 DEF Told
<1>7. ASSUME NEW k \in 1..(n + 1), t[k].type = "ready"
      PROVE  t[k].ud = After(t, cache, k)
  <2>1. CASE k \in 1..n
    <3>1. sent[k].ud = After(sent, cache, k)
        BY <1>1, <1>2, <1>7, <2>1 DEF Agree
    <3> QED
        BY <1>1, <1>3, <2>1, <3>1
  <2>2. CASE k = n + 1
    <3>1. m.type = "ready" /\ t[k].ud = hashes
        BY <1>1, <1>7, <2>2
    <3>2. Told(hashes, m) = hashes
        BY <3>1 DEF Told, Hashes
    <3> QED
        BY <1>1, <1>6, <2>2, <3>1, <3>2
  <2> QED
      BY <1>2, <2>1, <2>2
<1> QED
    BY <1>2, <1>6, <1>7 DEF Agree, t

(* What the first message told is in the cache when it is handled.         *)
LEMMA AgreeTaken ==
    ASSUME NEW sent \in Seq(ToMain), sent # <<>>, NEW cache \in Hashes, NEW hashes,
           Agree(sent, cache, hashes)
    PROVE  /\ Agree(Tail(sent), Told(cache, Head(sent)), hashes)
           /\ Head(sent).type = "ready" => Head(sent).ud = cache
<1> DEFINE t == Tail(sent)
           n == Len(t)
           handled == Told(cache, Head(sent))
<1>1. /\ t \in Seq(ToMain) /\ n \in Nat /\ Len(sent) = n + 1
      /\ Head(sent) = sent[1] /\ 1 \in DOMAIN sent
      /\ \A i \in 1..n : t[i] = sent[i + 1]
    BY TakenOff
<1>2. DOMAIN t = 1..n /\ DOMAIN sent = 1..(n + 1)
    BY <1>1
<1>3. \A f \in ADVANCED_MATCHING_FIELDS :
        handled[f] = IF Is(sent, 1, f) THEN sent[1].hex ELSE cache[f]
    BY <1>1 DEF Told, Is
<1> HIDE DEF t, n, handled
<1>4. \A k \in 0..n : After(t, handled, k) = After(sent, cache, k + 1)
  <2> SUFFICES ASSUME NEW k \in 0..n PROVE After(t, handled, k) = After(sent, cache, k + 1)
      OBVIOUS
  <2>1. k \in Nat /\ \A i \in 1..k : t[i] = sent[i + 1]
      BY <1>1
  <2> QED
      BY <1>3, <2>1, AfterFirst
<1>5. After(t, handled, n) = hashes
    BY <1>1, <1>4 DEF Agree
<1>6. ASSUME NEW k \in 1..n, t[k].type = "ready" PROVE t[k].ud = After(t, handled, k)
  <2>1. k + 1 \in 1..(n + 1) /\ t[k] = sent[k + 1]
      BY <1>1
  <2>2. sent[k + 1].ud = After(sent, cache, k + 1)
      BY <1>2, <1>6, <2>1 DEF Agree
  <2> QED
      BY <1>1, <1>4, <2>1, <2>2
<1>7. Agree(t, handled, hashes)
    BY <1>2, <1>5, <1>6 DEF Agree, n
<1>8. Head(sent).type = "ready" => Head(sent).ud = cache
  <2> SUFFICES ASSUME sent[1].type = "ready" PROVE sent[1].ud = cache
      BY <1>1
  <2>1. sent[1].ud = After(sent, cache, 1)
      BY <1>1 DEF Agree
  <2>2. \A f \in ADVANCED_MATCHING_FIELDS : After(sent, cache, 1)[f] = cache[f]
    <3> SUFFICES ASSUME NEW f \in ADVANCED_MATCHING_FIELDS
                 PROVE  After(sent, cache, 1)[f] = cache[f]
        OBVIOUS
    <3>1. \A i \in 1..1 : ~Is(sent, i, f)
        BY DEF Is
    <3> QED
        BY <3>1, AfterIs
  <2>3. cache = [f \in ADVANCED_MATCHING_FIELDS |-> cache[f]]
      BY DEF Hashes
  <2>4. After(sent, cache, 1) = [f \in ADVANCED_MATCHING_FIELDS |-> After(sent, cache, 1)[f]]
      BY AfterDomain
  <2>5. After(sent, cache, 1) = cache
      BY <2>2, <2>3, <2>4
  <2> QED
      BY <2>1, <2>5
<1> QED
    BY <1>7, <1>8 DEF t, handled
-----------------------------------------------------------------------------
(* Of nothing on its way, the cache itself.                                *)
LEMMA AfterNone ==
    ASSUME NEW sent, NEW cache, cache = [f \in ADVANCED_MATCHING_FIELDS |-> cache[f]]
    PROVE  After(sent, cache, 0) = cache
<1>1. ASSUME NEW f \in ADVANCED_MATCHING_FIELDS
      PROVE  After(sent, cache, 0)[f] = cache[f]
    BY AfterIs
<1>2. After(sent, cache, 0) = [f \in ADVANCED_MATCHING_FIELDS |-> After(sent, cache, 0)[f]]
    BY AfterDomain
<1>3. [f \in ADVANCED_MATCHING_FIELDS |-> After(sent, cache, 0)[f]]
        = [f \in ADVANCED_MATCHING_FIELDS |-> cache[f]]
    BY <1>1
<1> QED
    BY <1>2, <1>3, Zenon

LEMMA InitPixelIInv == PixelInit => PixelIInv
<1> SUFFICES ASSUME PixelInit PROVE PixelIInv
    OBVIOUS
<1> USE PixelAssumption DEF PixelInit
<1>1. PICK raw \in BootIdentity : toChamber = <<[type |-> "identity", raw |-> raw, nth |-> 0]>>
    OBVIOUS
<1>2. toChamber \in Seq(ToChamber)
    BY <1>1 DEF ToChamber
<1>3. NoHashes \in Hashes
    BY DEF NoHashes, Hashes
<1>4. PixelTypeOK
    BY <1>1, <1>3 DEF PixelTypeOK
<1>5. CachesAgree
  <2>1. NoHashes = [f \in ADVANCED_MATCHING_FIELDS |-> NoHashes[f]]
      BY DEF NoHashes
  <2>2. After(toMain, identityCache, 0) = identityHashes
      BY <2>1, AfterNone
  <2> QED
      BY <2>2, AgreeIs DEF Agree
<1>6. HashesLatest /\ LatestIdentityWins
    BY DEF HashesLatest, LatestIdentityWins
<1> QED
    BY <1>2, <1>4, <1>5, <1>6 DEF PixelIInv, InTransit

(* The host's calls leave hashes, caches and what the chamber says alone.  *)
LEMMA HostKeepsIInv == PixelIInv /\ (setIdentity \/ sendEvents \/ pushCritical) => PixelIInv'
<1> SUFFICES ASSUME PixelIInv, setIdentity \/ sendEvents \/ pushCritical PROVE PixelIInv'
    OBVIOUS
<1> USE PixelAssumption DEF PixelIInv, setIdentity, sendEvents, pushCritical
<1>1. UNCHANGED <<subtle, hashing, identityHashes, toMain, identityCache, latest, overtaken>>
    OBVIOUS
<1>2. toChamber' \in Seq(ToChamber)
  <2>0. toChamber \in Seq(ToChamber)
      BY DEF InTransit
  <2>1. CASE setIdentity
    <3>1. PICK raw \in HostIdentity :
            toChamber' = Append(toChamber, [type |-> "identity", raw |-> raw, nth |-> identities + 1])
        BY <2>1
    <3>2. [type |-> "identity", raw |-> raw, nth |-> identities + 1] \in ToChamber
        BY DEF ToChamber, PixelTypeOK
    <3> QED
        BY <2>0, <3>1, <3>2
  <2>2. CASE sendEvents
    <3>1. [type |-> "events"] \in ToChamber
        BY DEF ToChamber
    <3> QED
        BY <2>0, <2>2, <3>1
  <2>3. CASE pushCritical
      BY <2>0, <2>3
  <2> QED
      BY <2>1, <2>2, <2>3
<1>3. PixelTypeOK'
  <2>1. \A k \in DOMAIN toChamber' : toChamber'[k].type \in {"identity", "events"}
    <3>1. \A k \in DOMAIN toChamber' : toChamber'[k] \in ToChamber
        BY <1>2
    <3> QED
        BY <3>1 DEF ToChamber
  <2> QED
      BY <1>1, <2>1 DEF PixelTypeOK
<1>4. CachesAgree'
    BY <1>1, AgreeIs
<1>5. HashesLatest' /\ LatestIdentityWins'
    BY <1>1 DEF HashesLatest, LatestIdentityWins
<1> QED
    BY <1>1, <1>2, <1>3, <1>4, <1>5 DEF InTransit

LEMMA IngestKeepsIInv == PixelIInv /\ ingestIdentity => PixelIInv'
<1> SUFFICES ASSUME PixelIInv, ingestIdentity PROVE PixelIInv'
    OBVIOUS
<1> USE PixelAssumption DEF PixelIInv
<1> DEFINE m == Head(toChamber)
<1>1. /\ toChamber # <<>> /\ m.type = "identity" /\ toChamber' = Tail(toChamber)
      /\ hashing' = hashing \cup
            {[field |-> f, raw |-> m.raw[f], nth |-> m.nth] : f \in DOMAIN m.raw}
      /\ latest' = [f \in DOMAIN latest \cup DOMAIN m.raw |->
                      IF f \in DOMAIN m.raw THEN m.raw[f] ELSE latest[f]]
      /\ overtaken' = (overtaken \ DOMAIN m.raw)
            \cup {f \in DOMAIN m.raw : \E h \in hashing : h.field = f}
      /\ UNCHANGED <<subtle, identityHashes, toMain, identityCache, beacons, identities, batches>>
    BY DEF ingestIdentity
<1>2. toChamber \in Seq(ToChamber)
    BY DEF InTransit
<1>3. toChamber' \in Seq(ToChamber) /\ m \in ToChamber
    BY <1>1, <1>2, TakenOff
<1>4. m.raw \in Identity /\ m.nth \in Nat
    BY <1>1, <1>3 DEF ToChamber
<1>5. /\ DOMAIN m.raw \subseteq Fields
      /\ \A f \in DOMAIN m.raw : m.raw[f] \in Raw
    BY <1>4 DEF Identity
<1> HIDE DEF m
<1>6. PixelTypeOK'
  <2>1. \A h \in hashing' : h.field \in Fields /\ h.raw \in Raw /\ h.nth \in Nat
      BY <1>1, <1>4, <1>5 DEF PixelTypeOK
  <2>2. \A k \in DOMAIN toChamber' : toChamber'[k].type \in {"identity", "events"}
    <3>1. \A k \in DOMAIN toChamber' : toChamber'[k] \in ToChamber
        BY <1>3
    <3> QED
        BY <3>1 DEF ToChamber
  <2> QED
      BY <1>1, <2>1, <2>2 DEF PixelTypeOK
<1>7. CachesAgree'
    BY <1>1, AgreeIs
<1>8. HashesLatest'
  <2> SUFFICES ASSUME NEW f \in DOMAIN latest' \ overtaken', NEW h \in hashing', h.field = f
               PROVE  h.raw = latest'[f]
      BY DEF HashesLatest
  <2>1. CASE f \in DOMAIN m.raw
    <3>1. h \notin hashing
        BY <1>1, <2>1
    <3> QED
        BY <1>1, <2>1, <3>1
  <2>2. CASE f \notin DOMAIN m.raw
    <3>1. h \in hashing /\ f \in DOMAIN latest \ overtaken /\ latest'[f] = latest[f]
        BY <1>1, <2>2
    <3> QED
        BY <3>1 DEF HashesLatest
  <2> QED
      BY <2>1, <2>2
<1>9. LatestIdentityWins'
  <2> SUFFICES ASSUME NEW f \in DOMAIN latest' \ overtaken', subtle',
                      f \in ADVANCED_MATCHING_FIELDS, \A h \in hashing' : h.field # f
               PROVE  identityHashes'[f] = [hash |-> Normalize[latest'[f]]]
      BY DEF LatestIdentityWins
  <2>1. f \notin DOMAIN m.raw
    <3> SUFFICES ASSUME f \in DOMAIN m.raw PROVE FALSE
        OBVIOUS
    <3>1. [field |-> f, raw |-> m.raw[f], nth |-> m.nth] \in hashing'
        BY <1>1
    <3> QED
        BY <3>1
  <2>2. /\ f \in DOMAIN latest \ overtaken /\ latest'[f] = latest[f]
        /\ \A h \in hashing : h.field # f
      BY <1>1, <2>1
  <2> QED
      BY <1>1, <2>2 DEF LatestIdentityWins
<1> QED
    BY <1>1, <1>3, <1>6, <1>7, <1>8, <1>9 DEF InTransit

LEMMA DigestKeepsIInv == PixelIInv /\ digestSettles => PixelIInv'
<1> SUFFICES ASSUME PixelIInv, digestSettles PROVE PixelIInv'
    OBVIOUS
<1> USE PixelAssumption DEF PixelIInv
<1>1. PICK h \in hashing :
        /\ hashing' = hashing \ {h}
        /\ IF h.field \in ADVANCED_MATCHING_FIELDS /\ subtle
           THEN /\ identityHashes' = Stored(identityHashes, h.field, [hash |-> Normalize[h.raw]])
                /\ toMain' = Append(toMain, [type |-> "identity", field |-> h.field,
                                            hex |-> [hash |-> Normalize[h.raw]]])
           ELSE UNCHANGED <<identityHashes, toMain>>
        /\ UNCHANGED <<subtle, toChamber, identityCache, beacons, identities, batches,
                       latest, overtaken>>
    BY DEF digestSettles
<1>2. h.field \in Fields /\ h.raw \in Raw
    BY DEF PixelTypeOK
<1>3. HashesLatest'
    BY <1>1 DEF HashesLatest
<1>4. CASE ~(h.field \in ADVANCED_MATCHING_FIELDS /\ subtle)
  <2>1. UNCHANGED <<identityHashes, toMain>>
      BY <1>1, <1>4
  <2>2. PixelTypeOK'
      BY <1>1, <2>1 DEF PixelTypeOK
  <2>3. CachesAgree' /\ InTransit'
      BY <1>1, <2>1, AgreeIs DEF InTransit
  <2>4. LatestIdentityWins'
      BY <1>1, <1>4, <2>1 DEF LatestIdentityWins
  <2> QED
      BY <1>3, <2>2, <2>3, <2>4
<1>5. CASE h.field \in ADVANCED_MATCHING_FIELDS /\ subtle
  <2> DEFINE hex == [hash |-> Normalize[h.raw]]
             m == [type |-> "identity", field |-> h.field, hex |-> hex]
  <2>1. hex \in Hash /\ m \in ToMain /\ m.type = "identity" /\ m.field = h.field /\ m.hex = hex
      BY <1>2, <1>5 DEF Hash, ToMain
  <2>2. /\ identityHashes' = [identityHashes EXCEPT ![h.field] = hex]
        /\ toMain' = Append(toMain, m)
      BY <1>1, <1>5 DEF Stored
  <2> HIDE DEF hex, m
  <2>3. identityHashes \in Hashes /\ toMain \in Seq(ToMain)
      BY DEF PixelTypeOK, InTransit
  <2>4. identityHashes' \in Hashes
      BY <1>5, <2>1, <2>2, <2>3 DEF Hashes
  <2>5. identityHashes' = Told(identityHashes, m)
      BY <2>1, <2>2, <2>3 DEF Told, Hashes
  <2>6. Agree(Append(toMain, m), identityCache, Told(identityHashes, m))
      BY <2>1, <2>3, AgreeIs, AgreeAppended
  <2>7. CachesAgree' /\ InTransit'
      BY <1>1, <2>1, <2>2, <2>3, <2>5, <2>6, AgreeIs, AppendProperties DEF InTransit
  <2>8. PixelTypeOK'
    <3>1. \A k \in DOMAIN toMain' : toMain'[k] \in ToMain
        BY <2>7 DEF InTransit
    <3> QED
        BY <1>1, <2>4, <3>1 DEF PixelTypeOK, ToMain
  <2>9. LatestIdentityWins'
    <3> SUFFICES ASSUME NEW f \in DOMAIN latest' \ overtaken', subtle',
                        f \in ADVANCED_MATCHING_FIELDS, \A g \in hashing' : g.field # f
                 PROVE  identityHashes'[f] = [hash |-> Normalize[latest'[f]]]
        BY DEF LatestIdentityWins
    <3>1. CASE f = h.field
      <4>1. h.raw = latest[f]
          BY <1>1, <3>1 DEF HashesLatest
      <4> QED
          BY <1>1, <2>2, <2>3, <3>1, <4>1 DEF hex, Hashes
    <3>2. CASE f # h.field
      <4>1. \A g \in hashing : g.field # f
          BY <1>1, <3>2
      <4>2. identityHashes[f] = [hash |-> Normalize[latest[f]]]
          BY <1>1, <4>1 DEF LatestIdentityWins
      <4> QED
          BY <1>1, <2>2, <2>3, <3>2, <4>2 DEF Hashes
    <3> QED
        BY <3>1, <3>2
  <2> QED
      BY <1>3, <2>7, <2>8, <2>9
<1> QED
    BY <1>4, <1>5

LEMMA RouteKeepsIInv == PixelIInv /\ routeBatch => PixelIInv'
<1> SUFFICES ASSUME PixelIInv, routeBatch PROVE PixelIInv'
    OBVIOUS
<1> USE PixelAssumption DEF PixelIInv
<1> DEFINE m == [type |-> "ready", ud |-> identityHashes]
<1>1. /\ toChamber # <<>> /\ toChamber' = Tail(toChamber) /\ toMain' = Append(toMain, m)
      /\ UNCHANGED <<subtle, hashing, identityHashes, identityCache, beacons, identities,
                     batches, latest, overtaken>>
    BY DEF routeBatch
<1>2. identityHashes \in Hashes /\ toMain \in Seq(ToMain) /\ toChamber \in Seq(ToChamber)
    BY DEF PixelTypeOK, InTransit
<1>3. m \in ToMain /\ m.type = "ready" /\ m.ud = identityHashes
    BY <1>2 DEF ToMain
<1> HIDE DEF m
<1>4. Told(identityHashes, m) = identityHashes
    BY <1>2, <1>3 DEF Told, Hashes
<1>5. Agree(Append(toMain, m), identityCache, identityHashes)
    BY <1>2, <1>3, <1>4, AgreeIs, AgreeAppended
<1>6. CachesAgree'
    BY <1>1, <1>5, AgreeIs
<1>7. toMain' \in Seq(ToMain) /\ toChamber' \in Seq(ToChamber)
    BY <1>1, <1>2, <1>3, AppendProperties, TakenOff
<1>8. PixelTypeOK'
  <2>1. /\ \A k \in DOMAIN toMain' : toMain'[k] \in ToMain
        /\ \A k \in DOMAIN toChamber' : toChamber'[k] \in ToChamber
      BY <1>7
  <2> QED
      BY <1>1, <2>1 DEF PixelTypeOK, ToMain, ToChamber
<1>9. HashesLatest' /\ LatestIdentityWins'
    BY <1>1 DEF HashesLatest, LatestIdentityWins
<1> QED
    BY <1>6, <1>7, <1>8, <1>9 DEF InTransit

(* What the main thread handles is already in the chamber's hashes.        *)
LEMMA MessageKeepsIInv == PixelIInv /\ onChamberMessage => PixelIInv'
<1> SUFFICES ASSUME PixelIInv, onChamberMessage PROVE PixelIInv'
    OBVIOUS
<1> USE PixelAssumption DEF PixelIInv
<1> DEFINE m == Head(toMain)
<1>1. /\ toMain # <<>> /\ toMain' = Tail(toMain)
      /\ IF m.type = "identity"
         THEN identityCache' = Cached(identityCache, m.field, m.hex) /\ UNCHANGED beacons
         ELSE beacons' = beacons \cup {m.ud} /\ UNCHANGED identityCache
      /\ UNCHANGED <<subtle, toChamber, hashing, identityHashes, identities, batches,
                     latest, overtaken>>
    BY DEF onChamberMessage
<1>2. identityCache \in Hashes /\ toMain \in Seq(ToMain)
    BY DEF PixelTypeOK, InTransit
<1>3. m \in ToMain /\ toMain' \in Seq(ToMain)
    BY <1>1, <1>2, TakenOff
<1>4. Agree(Tail(toMain), Told(identityCache, m), identityHashes)
    BY <1>1, <1>2, AgreeIs, AgreeTaken
<1> HIDE DEF m
<1>5. identityCache' = Told(identityCache, m)
    BY <1>1, <1>2, <1>3 DEF Cached, Told, Hashes, ToMain
<1>6. CachesAgree'
    BY <1>1, <1>4, <1>5, AgreeIs
<1>7. identityCache' \in Hashes /\ beacons' \subseteq Hashes
    BY <1>1, <1>2, <1>3 DEF Cached, Hashes, ToMain, PixelTypeOK
<1>8. PixelTypeOK'
  <2>1. \A k \in DOMAIN toMain' : toMain'[k] \in ToMain
      BY <1>3
  <2> QED
      BY <1>1, <1>7, <2>1 DEF PixelTypeOK, ToMain
<1>9. HashesLatest' /\ LatestIdentityWins'
    BY <1>1 DEF HashesLatest, LatestIdentityWins
<1> QED
    BY <1>1, <1>3, <1>6, <1>8, <1>9 DEF InTransit

LEMMA NextPixelIInv == PixelIInv /\ [PixelNext]_pixelVars => PixelIInv'
<1> SUFFICES ASSUME PixelIInv, [PixelNext]_pixelVars PROVE PixelIInv'
    OBVIOUS
<1>1. CASE UNCHANGED pixelVars
  <2>1. UNCHANGED <<subtle, toChamber, hashing, identityHashes, toMain, identityCache, beacons,
                    identities, batches, latest, overtaken>>
      BY <1>1 DEF pixelVars
  <2>2. CachesAgree'
      BY <2>1, AgreeIs DEF PixelIInv
  <2> QED
      BY <2>1, <2>2 DEF PixelIInv, PixelTypeOK, InTransit, HashesLatest, LatestIdentityWins
<1> QED
    BY <1>1, HostKeepsIInv, IngestKeepsIInv, DigestKeepsIInv, RouteKeepsIInv, MessageKeepsIInv
    DEF PixelNext

LEMMA PixelInvariant == PixelSpec => []PixelIInv
<1> QED
    BY InitPixelIInv, NextPixelIInv, PTL DEF PixelSpec

(* Every variable of the chamber and of the cache keeps its type.          *)
THEOREM PixelTypeCorrect == PixelSpec => []PixelTypeOK
<1>1. PixelIInv => PixelTypeOK
    BY DEF PixelIInv
<1> QED
    BY <1>1, PixelInvariant, PTL

(* The chamber's hashes and the main thread's never part, but for what is  *)
(* on its way, and batches are merged with the hashes ahead of them.       *)
THEOREM CachesNeverPart == PixelSpec => []CachesAgree
<1>1. PixelIInv => CachesAgree
    BY DEF PixelIInv
<1> QED
    BY <1>1, PixelInvariant, PTL

(* Whichever digest answers first, the last value of a field is its hash,  *)
(* unless it was given while an older one was being hashed.                *)
THEOREM LastIdentityHashed == PixelSpec => []LatestIdentityWins
<1>1. PixelIInv => LatestIdentityWins
    BY DEF PixelIInv
<1> QED
    BY <1>1, PixelInvariant, PTL
=============================================================================
