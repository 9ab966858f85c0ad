----------------------------- MODULE PageProofs -----------------------------
(***************************************************************************)
(* Three parts of a page that share it with code that is not airlock's:    *)
(* the suppressor of migrated tags among other scripts' wrappers, the      *)
(* analytics cookies among the boots of two tabs, and the document a tag   *)
(* writes to from its worker.                                              *)
(***************************************************************************)
EXTENDS TagSuppressor, Ga4Session, WorkerDom, FiniteSetTheorems,
        WellFoundedInduction, TLAPS

(* A method's stack of wrappers.                                           *)
Wrapper  == {Ours, Foreign}
Has(s)   == \E i \in DOMAIN s : s[i] = Ours
Marks(s) == {i \in DOMAIN s : s[i] = Foreign}

LEMMA WrappersDiffer == Ours # Foreign
BY DEF Ours, Foreign

LEMMA StackShape ==
    ASSUME NEW s \in Seq(Wrapper)
    PROVE  /\ Len(s) \in Nat /\ DOMAIN s = 1..Len(s)
           /\ \A i \in DOMAIN s : s[i] \in Wrapper
           /\ IsFiniteSet(Marks(s))
<1>1. Len(s) \in Nat /\ DOMAIN s = 1..Len(s)
    OBVIOUS
<1>2. \A i \in DOMAIN s : s[i] \in Wrapper
    BY <1>1
<1>3. IsFiniteSet(1..Len(s))
    BY <1>1, FS_Interval
<1>4. Marks(s) \subseteq 1..Len(s)
    BY <1>1 DEF Marks
<1>5. IsFiniteSet(Marks(s))
    BY <1>3, <1>4, FS_Subset
<1> QED
    BY <1>1, <1>2, <1>5

LEMMA PutOn ==
    ASSUME NEW s \in Seq(Wrapper), NEW w \in Wrapper
    PROVE  /\ Append(s, w) \in Seq(Wrapper)
           /\ Has(s) \/ w = Ours => Has(Append(s, w))
           /\ w = Ours => Marks(Append(s, w)) = Marks(s)
           /\ w = Foreign => Cardinality(Marks(Append(s, w))) = Cardinality(Marks(s)) + 1
<1> DEFINE n == Len(s)
<1>1. /\ n \in Nat /\ DOMAIN s = 1..n /\ IsFiniteSet(Marks(s))
      /\ Append(s, w) \in Seq(Wrapper) /\ DOMAIN Append(s, w) = 1..(n + 1)
      /\ Append(s, w)[n + 1] = w /\ \A i \in 1..n : Append(s, w)[i] = s[i]
    BY StackShape
<1>2. 1..(n + 1) = (1..n) \cup {n + 1} /\ n + 1 \notin 1..n
    BY <1>1
<1>3. Has(s) \/ w = Ours => Has(Append(s, w))
    BY <1>1, <1>2 DEF Has
<1>4. w = Ours => Marks(Append(s, w)) = Marks(s)
    BY <1>1, <1>2, WrappersDiffer DEF Marks
<1>5. w = Foreign => Marks(Append(s, w)) = Marks(s) \cup {n + 1}
    BY <1>1, <1>2 DEF Marks
<1>6. n + 1 \notin Marks(s)
    BY <1>1, <1>2 DEF Marks
<1>7. Cardinality(Marks(s) \cup {n + 1}) = Cardinality(Marks(s)) + 1
    BY <1>1, <1>6, FS_AddElement
<1> QED
    BY <1>1, <1>3, <1>4, <1>5, <1>7

LEMMA CutAt ==
    ASSUME NEW s \in Seq(Wrapper), NEW n \in 0..Len(s)
    PROVE  /\ SubSeq(s, 1, n) \in Seq(Wrapper)
           /\ Marks(SubSeq(s, 1, n)) = {j \in Marks(s) : j <= n}
           /\ Has(s) => \/ Has(SubSeq(s, 1, n))
                        \/ \E j \in (n + 1)..Len(s) : s[j] = Ours
<1>1. /\ Len(s) \in Nat /\ n \in Nat /\ DOMAIN s = 1..Len(s)
      /\ \A i \in DOMAIN s : s[i] \in Wrapper
    BY StackShape
<1>2. /\ SubSeq(s, 1, n) \in Seq(Wrapper)
      /\ Len(SubSeq(s, 1, n)) = n
      /\ \A i \in 1..n : SubSeq(s, 1, n)[i] = s[i]
    BY <1>1
<1>3. DOMAIN SubSeq(s, 1, n) = 1..n
    BY <1>2
<1>4. 1..n \subseteq 1..Len(s) /\ \A i \in 1..Len(s) : i \in 1..n <=> i <= n
    BY <1>1
<1>5. Marks(SubSeq(s, 1, n)) = {j \in Marks(s) : j <= n}
    BY <1>1, <1>2, <1>3, <1>4 DEF Marks
<1>6. \A i \in 1..Len(s) : i \in 1..n \/ i \in (n + 1)..Len(s)
    BY <1>1
<1>7. Has(s) => \/ Has(SubSeq(s, 1, n))
                \/ \E j \in (n + 1)..Len(s) : s[j] = Ours
    BY <1>1, <1>2, <1>3, <1>6 DEF Has
<1> QED
    BY <1>2, <1>5, <1>7

(* Taking our own wrapper off leaves the others' in place.                 *)
LEMMA Popped ==
    ASSUME NEW s \in Seq(Wrapper), s # <<>>, s[Len(s)] = Ours
    PROVE  Pop(s) \in Seq(Wrapper) /\ Marks(Pop(s)) = Marks(s)
<1>1. Len(s) \in Nat /\ Len(s) # 0 /\ DOMAIN s = 1..Len(s)
    BY StackShape
<1>2. Len(s) - 1 \in 0..Len(s)
    BY <1>1
<1>3. /\ Pop(s) \in Seq(Wrapper)
      /\ Marks(Pop(s)) = {j \in Marks(s) : j <= Len(s) - 1}
    BY <1>2, CutAt DEF Pop
<1>4. \A j \in Marks(s) : j <= Len(s) - 1
    BY <1>1, WrappersDiffer DEF Marks
<1>5. {j \in Marks(s) : j <= Len(s) - 1} = Marks(s)
    BY <1>4
<1> QED
    BY <1>3, <1>5
-----------------------------------------------------------------------------
(* The suppressor. Its matchers are empty unless it is installed, and what *)
(* an XMLHttpRequest is judged on is what it was opened with, unless its   *)
(* open() went out of sight: this, and that another script that takes our  *)
(* wrapper off is remembered, makes the property inductive.                *)
StacksOK ==
    /\ stack \in [Methods -> Seq(Wrapper)]
    /\ \A m \in Methods : Cardinality(Marks(stack[m])) = theirs[m]
    /\ DOMAIN theirs = Methods

InTheWay == installed => \A m \in Methods : Has(stack[m]) \/ m \in restored

MatchersOK ==
    /\ installed \in BOOLEAN
    /\ matchers \in [suppress : SUBSET Urls, allow : SUBSET Urls]
    /\ ~installed => matchers = NoMatchers

OpenSeen == ~unseen => opened = xhrUrl

CallHonest ==
    /\ ~call.unseen => call.dropped \subseteq call.due
    /\ ~call.unseen /\ ~call.bypassed => call.dropped = call.due

SuppressorInv == StacksOK /\ InTheWay /\ MatchersOK /\ OpenSeen /\ CallHonest

LEMMA NoCallIsHonest == call' = NoCall => CallHonest'
BY DEF NoCall, CallHonest

LEMMA SuppressorStarts == SuppressorInit => SuppressorInv
<1> SUFFICES ASSUME SuppressorInit PROVE SuppressorInv
    OBVIOUS
<1>1. <<>> \in Seq(Wrapper) /\ Marks(<<>>) = {}
    BY DEF Marks
<1>2. Cardinality({}) = 0
    BY FS_EmptySet
<1>3. StacksOK
    BY <1>1, <1>2 DEF SuppressorInit, StacksOK
<1> QED
    BY <1>3 DEF SuppressorInit, SuppressorInv, InTheWay, MatchersOK, OpenSeen,
       CallHonest, NoMatchers, NoCall

LEMMA InstallStep ==
    ASSUME SuppressorInv, installTagSuppressor
    PROVE  SuppressorInv'
<1>1. /\ StacksOK /\ InTheWay /\ installed \in BOOLEAN /\ OpenSeen
      /\ UNCHANGED <<opened, xhrUrl, theirs, unseen>>
    BY DEF SuppressorInv, MatchersOK, installTagSuppressor
<1>2. CallHonest' /\ MatchersOK' /\ OpenSeen'
    BY <1>1, NoCallIsHonest, SuppressorAssumption
       DEF installTagSuppressor, MatchersOK, OpenSeen
<1>3. StacksOK' /\ InTheWay'
    <2>1. CASE installed
        BY <1>1, <2>1 DEF installTagSuppressor, StacksOK, InTheWay
    <2>2. CASE ~installed
        <3>1. stack' = patchAll
            BY <2>2 DEF installTagSuppressor
        <3>2. ASSUME NEW m \in Methods
              PROVE  /\ stack'[m] \in Seq(Wrapper) /\ Has(stack'[m])
                     /\ Marks(stack'[m]) = Marks(stack[m])
            <4>1. stack[m] \in Seq(Wrapper)
                BY <1>1 DEF StacksOK
            <4>2. CASE OnTop(m)
                <5>1. stack'[m] = stack[m]
                    BY <3>1, <4>2 DEF patchAll
                <5>2. Len(stack[m]) \in DOMAIN stack[m]
                    BY <4>1, <4>2, StackShape DEF OnTop
                <5> QED
                    BY <4>1, <4>2, <5>1, <5>2 DEF OnTop, Has
            <4>3. CASE ~OnTop(m)
                <5>1. stack'[m] = Append(stack[m], Ours)
                    BY <3>1, <4>3 DEF patchAll
                <5>2. Ours \in Wrapper
                    BY DEF Wrapper
                <5> QED
                    BY <4>1, <5>1, <5>2, PutOn
            <4> QED
                BY <4>2, <4>3
        <3>3. stack' \in [Methods -> Seq(Wrapper)]
            BY <3>1, <3>2 DEF patchAll
        <3> QED
            BY <1>1, <3>2, <3>3 DEF StacksOK, InTheWay
    <2> QED
        BY <1>1, <2>1, <2>2
<1> QED
    BY <1>2, <1>3 DEF SuppressorInv

LEMMA UninstallStep ==
    ASSUME SuppressorInv, uninstall
    PROVE  SuppressorInv'
<1>1. StacksOK /\ OpenSeen /\ UNCHANGED <<opened, xhrUrl, theirs, unseen>>
    BY DEF SuppressorInv, uninstall
<1>2. CallHonest' /\ OpenSeen' /\ MatchersOK' /\ InTheWay'
    <2>1. installed' = FALSE /\ matchers' = NoMatchers
        BY DEF uninstall, MatchersAfter
    <2>2. NoMatchers \in [suppress : SUBSET Urls, allow : SUBSET Urls]
        BY DEF NoMatchers
    <2>3. MatchersOK' /\ InTheWay'
        BY <2>1, <2>2 DEF MatchersOK, InTheWay
    <2>4. CallHonest'
        BY NoCallIsHonest DEF uninstall
    <2>5. OpenSeen'
        BY <1>1 DEF OpenSeen
    <2> QED
        BY <2>3, <2>4, <2>5
<1>3. stack' = unpatchAll
    BY DEF uninstall
<1>4. ASSUME NEW m \in Methods
      PROVE  stack'[m] \in Seq(Wrapper) /\ Marks(stack'[m]) = Marks(stack[m])
    <2>1. stack[m] \in Seq(Wrapper)
        BY <1>1 DEF StacksOK
    <2>2. CASE OnTop(m)
        <3>1. stack'[m] = Pop(stack[m])
            BY <1>3, <2>2 DEF unpatchAll
        <3> QED
            BY <2>1, <2>2, <3>1, Popped DEF OnTop
    <2>3. CASE ~OnTop(m)
        BY <1>3, <2>1, <2>3 DEF unpatchAll
    <2> QED
        BY <2>2, <2>3
<1>5. stack' \in [Methods -> Seq(Wrapper)]
    BY <1>3, <1>4 DEF unpatchAll
<1>6. StacksOK'
    BY <1>1, <1>4, <1>5 DEF StacksOK
<1> QED
    BY <1>2, <1>6 DEF SuppressorInv

LEMMA ForeignWrapStep ==
    ASSUME SuppressorInv, foreignWrap
    PROVE  SuppressorInv'
<1>1. /\ StacksOK /\ InTheWay /\ MatchersOK /\ OpenSeen
      /\ UNCHANGED <<matchers, installed, opened, xhrUrl, restored, unseen>>
    BY DEF SuppressorInv, foreignWrap
<1>2. CallHonest' /\ MatchersOK' /\ OpenSeen'
    BY <1>1, NoCallIsHonest DEF foreignWrap, MatchersOK, OpenSeen
<1>3. PICK m \in Methods : /\ stack' = [stack EXCEPT ![m] = Append(@, Foreign)]
                           /\ theirs' = [theirs EXCEPT ![m] = @ + 1]
    BY DEF foreignWrap
<1>4. stack[m] \in Seq(Wrapper) /\ Foreign \in Wrapper
    BY <1>1 DEF StacksOK, Wrapper
<1>5. /\ Append(stack[m], Foreign) \in Seq(Wrapper)
      /\ Has(stack[m]) => Has(Append(stack[m], Foreign))
      /\ Cardinality(Marks(Append(stack[m], Foreign))) = Cardinality(Marks(stack[m])) + 1
    BY <1>4, PutOn
<1>6. /\ stack'[m] = Append(stack[m], Foreign) /\ theirs'[m] = theirs[m] + 1
      /\ \A o \in Methods \ {m} : stack'[o] = stack[o] /\ theirs'[o] = theirs[o]
      /\ DOMAIN theirs' = Methods
    BY <1>1, <1>3 DEF StacksOK
<1>7. stack' \in [Methods -> Seq(Wrapper)]
    BY <1>1, <1>3, <1>5 DEF StacksOK
<1>8. StacksOK'
    BY <1>1, <1>5, <1>6, <1>7 DEF StacksOK
<1>9. InTheWay'
    BY <1>1, <1>5, <1>6 DEF InTheWay
<1> QED
    BY <1>2, <1>8, <1>9 DEF SuppressorInv

LEMMA ForeignRestoreStep ==
    ASSUME SuppressorInv, foreignRestore
    PROVE  SuppressorInv'
<1>1. /\ StacksOK /\ InTheWay /\ MatchersOK /\ OpenSeen
      /\ UNCHANGED <<matchers, installed, opened, xhrUrl, unseen>>
    BY DEF SuppressorInv, foreignRestore
<1>2. CallHonest' /\ MatchersOK' /\ OpenSeen'
    BY <1>1, NoCallIsHonest DEF foreignRestore, MatchersOK, OpenSeen
<1>3. PICK m \in Methods : \E i \in Foreigners(m) :
          /\ stack' = [stack EXCEPT ![m] = SubSeq(@, 1, i - 1)]
          /\ theirs' = [theirs EXCEPT ![m] = Cardinality({j \in Foreigners(m) : j < i})]
          /\ restored' = IF \E j \in i..Len(stack[m]) : stack[m][j] = Ours
                         THEN restored \cup {m} ELSE restored
    BY DEF foreignRestore
<1>4. PICK i \in Foreigners(m) :
          /\ stack' = [stack EXCEPT ![m] = SubSeq(@, 1, i - 1)]
          /\ theirs' = [theirs EXCEPT ![m] = Cardinality({j \in Foreigners(m) : j < i})]
          /\ restored' = IF \E j \in i..Len(stack[m]) : stack[m][j] = Ours
                         THEN restored \cup {m} ELSE restored
    BY <1>3
<1>5. stack[m] \in Seq(Wrapper)
    BY <1>1 DEF StacksOK
<1>6. /\ Len(stack[m]) \in Nat /\ i \in 1..Len(stack[m]) /\ i \in Int
      /\ Foreigners(m) = Marks(stack[m]) /\ Marks(stack[m]) \subseteq 1..Len(stack[m])
    BY <1>4, <1>5, StackShape DEF Foreigners, Marks
<1>7. i - 1 \in 0..Len(stack[m]) /\ (i - 1) + 1 = i
    BY <1>6
<1>8. /\ SubSeq(stack[m], 1, i - 1) \in Seq(Wrapper)
      /\ Marks(SubSeq(stack[m], 1, i - 1)) = {j \in Marks(stack[m]) : j <= i - 1}
      /\ Has(stack[m]) => \/ Has(SubSeq(stack[m], 1, i - 1))
                          \/ \E j \in ((i - 1) + 1)..Len(stack[m]) : stack[m][j] = Ours
    BY <1>5, <1>7, CutAt
<1>9. {j \in Marks(stack[m]) : j <= i - 1} = {j \in Foreigners(m) : j < i}
    <2>1. \A j \in Marks(stack[m]) : j \in Int /\ (j <= i - 1 <=> j < i)
        BY <1>6
    <2> QED
        BY <1>6, <2>1
<1>10. /\ stack'[m] = SubSeq(stack[m], 1, i - 1)
       /\ theirs'[m] = Cardinality({j \in Foreigners(m) : j < i})
       /\ \A o \in Methods \ {m} : stack'[o] = stack[o] /\ theirs'[o] = theirs[o]
       /\ DOMAIN theirs' = Methods
    BY <1>1, <1>4 DEF StacksOK
<1>11. stack' \in [Methods -> Seq(Wrapper)]
    BY <1>1, <1>4, <1>8 DEF StacksOK
<1>12. StacksOK'
    <2>1. Marks(stack'[m]) = {j \in Foreigners(m) : j < i}
        BY <1>8, <1>9, <1>10
    <2>2. Cardinality(Marks(stack'[m])) = theirs'[m]
        BY <1>10, <2>1
    <2>3. \A o \in Methods \ {m} : Cardinality(Marks(stack'[o])) = theirs'[o]
        BY <1>1, <1>10 DEF StacksOK
    <2>4. \A o \in Methods : Cardinality(Marks(stack'[o])) = theirs'[o]
        BY <2>2, <2>3
    <2>5. DOMAIN theirs' = Methods
        BY <1>10
    <2> QED
        BY <1>11, <2>4, <2>5 DEF StacksOK
<1>13. restored \subseteq restored'
    BY <1>4
<1>14. InTheWay'
    <2>1. Has(stack[m]) \/ m \in restored => Has(stack'[m]) \/ m \in restored'
        BY <1>4, <1>7, <1>8, <1>10, <1>13
    <2> QED
        BY <1>1, <1>10, <1>13, <2>1 DEF InTheWay
<1> QED
    BY <1>2, <1>12, <1>14 DEF SuppressorInv

(* What the matchers in force name is due exactly when they are not empty. *)
LEMMA DueIs ==
    ASSUME MatchersOK, NEW urls
    PROVE  /\ Due(urls) = {u \in urls : shouldSuppress(u)}
           /\ \A m \in Methods : Suppressed(m, urls) \subseteq Due(urls)
           /\ \A m \in Methods : InPath(m) \/ ~installed => Suppressed(m, urls) = Due(urls)
<1>1. installed \in BOOLEAN /\ (~installed => \A u : ~shouldSuppress(u))
    BY DEF MatchersOK, NoMatchers, shouldSuppress
<1>2. Due(urls) = {u \in urls : shouldSuppress(u)}
    BY <1>1 DEF Due, shouldSuppress
<1>3. \A m \in Methods : Suppressed(m, urls) \subseteq Due(urls)
    BY <1>2 DEF Suppressed
<1>4. \A m \in Methods : InPath(m) \/ ~installed => Suppressed(m, urls) = Due(urls)
    BY <1>1, <1>2 DEF Suppressed
<1> QED
    BY <1>2, <1>3, <1>4

LEMMA NotBypassed ==
    ASSUME InTheWay, NEW m \in Methods, m \notin restored
    PROVE  InPath(m) \/ ~installed
BY DEF InTheWay, InPath, Has

LEMMA InsertStep ==
    ASSUME SuppressorInv, insert
    PROVE  SuppressorInv'
<1>1. /\ StacksOK /\ InTheWay /\ MatchersOK /\ OpenSeen
      /\ UNCHANGED <<matchers, installed, stack, opened, xhrUrl, restored, theirs, unseen>>
    BY DEF SuppressorInv, insert
<1>2. StacksOK' /\ InTheWay' /\ MatchersOK' /\ OpenSeen'
    BY <1>1 DEF StacksOK, InTheWay, MatchersOK, OpenSeen
<1>3. PICK urls \in (SUBSET Urls) \ {{}} :
          call' = [method |-> "insert", asked |-> urls,
                   dropped |-> Suppressed("insert", urls), due |-> Due(urls),
                   unseen |-> FALSE, bypassed |-> "insert" \in restored]
    BY DEF insert
<1>4. "insert" \in Methods
    BY DEF Methods
<1>5. /\ Suppressed("insert", urls) \subseteq Due(urls)
      /\ "insert" \notin restored => Suppressed("insert", urls) = Due(urls)
    BY <1>1, <1>4, DueIs, NotBypassed
<1>6. CallHonest'
    BY <1>3, <1>5 DEF CallHonest
<1> QED
    BY <1>2, <1>6 DEF SuppressorInv

LEMMA FetchStep ==
    ASSUME SuppressorInv, fetch
    PROVE  SuppressorInv'
<1>1. /\ StacksOK /\ InTheWay /\ MatchersOK /\ OpenSeen
      /\ UNCHANGED <<matchers, installed, stack, opened, xhrUrl, restored, theirs, unseen>>
    BY DEF SuppressorInv, fetch
<1>2. StacksOK' /\ InTheWay' /\ MatchersOK' /\ OpenSeen'
    BY <1>1 DEF StacksOK, InTheWay, MatchersOK, OpenSeen
<1>3. PICK url \in Urls, keepalive \in BOOLEAN :
          call' = [method |-> "fetch", asked |-> {url},
                   dropped |-> IF Exempt(keepalive) THEN {} ELSE Suppressed("fetch", {url}),
                   due |-> IF keepalive THEN {} ELSE Due({url}),
                   unseen |-> FALSE, bypassed |-> "fetch" \in restored]
    BY DEF fetch
<1>4. "fetch" \in Methods
    BY DEF Methods
<1>5. /\ Suppressed("fetch", {url}) \subseteq Due({url})
      /\ "fetch" \notin restored => Suppressed("fetch", {url}) = Due({url})
    BY <1>1, <1>4, DueIs, NotBypassed
<1>6. CallHonest'
    BY <1>3, <1>5 DEF CallHonest, Exempt
<1> QED
    BY <1>2, <1>6 DEF SuppressorInv

LEMMA XhrOpenStep ==
    ASSUME SuppressorInv, xhrOpen
    PROVE  SuppressorInv'
<1>1. /\ StacksOK /\ InTheWay /\ MatchersOK
      /\ UNCHANGED <<matchers, installed, stack, restored, theirs>> /\ call' = NoCall
    BY DEF SuppressorInv, xhrOpen
<1>2. StacksOK' /\ InTheWay' /\ MatchersOK' /\ CallHonest'
    BY <1>1, NoCallIsHonest DEF StacksOK, InTheWay, MatchersOK
<1>3. OpenSeen'
    BY DEF xhrOpen, OpenSeen
<1> QED
    BY <1>2, <1>3 DEF SuppressorInv

LEMMA XhrSendStep ==
    ASSUME SuppressorInv, xhrSend
    PROVE  SuppressorInv'
<1>1. /\ StacksOK /\ InTheWay /\ MatchersOK /\ OpenSeen
      /\ UNCHANGED <<matchers, installed, stack, opened, xhrUrl, restored, theirs, unseen>>
      /\ call' = [method |-> "send", asked |-> {opened},
              dropped |-> IF Suppressed("send", {xhrUrl}) # {} THEN {opened} ELSE {},
              due |-> Due({opened}), unseen |-> unseen, bypassed |-> "send" \in restored]
    BY DEF SuppressorInv, xhrSend
<1>2. StacksOK' /\ InTheWay' /\ MatchersOK' /\ OpenSeen'
    BY <1>1 DEF StacksOK, InTheWay, MatchersOK, OpenSeen
<1>3. "send" \in Methods
    BY DEF Methods
<1>4. /\ Suppressed("send", {opened}) \subseteq Due({opened})
      /\ "send" \notin restored => Suppressed("send", {opened}) = Due({opened})
    BY <1>1, <1>3, DueIs, NotBypassed
<1>5. Suppressed("send", {opened}) \subseteq {opened}
    BY DEF Suppressed
<1>6. ~unseen => (IF Suppressed("send", {xhrUrl}) # {} THEN {opened} ELSE {})
                     = Suppressed("send", {opened})
    BY <1>1, <1>5 DEF OpenSeen
<1>7. CallHonest'
    BY <1>1, <1>4, <1>6 DEF CallHonest
<1> QED
    BY <1>2, <1>7 DEF SuppressorInv

LEMMA SuppressorStep ==
    ASSUME SuppressorInv, [SuppressorNext]_suppressorVars
    PROVE  SuppressorInv'
<1>1. CASE UNCHANGED suppressorVars
    BY <1>1 DEF suppressorVars, SuppressorInv, StacksOK, InTheWay, MatchersOK,
       OpenSeen, CallHonest
<1> QED
    BY <1>1, InstallStep, UninstallStep, ForeignWrapStep, ForeignRestoreStep,
       InsertStep, FetchStep, XhrOpenStep, XhrSendStep DEF SuppressorNext

LEMMA SuppressorMeant == SuppressorInv => SuppressionHonest
<1> SUFFICES ASSUME SuppressorInv PROVE SuppressionHonest
    OBVIOUS
<1>1. installed => \A m \in Methods : InPath(m) \/ m \in restored
    BY DEF SuppressorInv, InTheWay, InPath, Has
<1>2. \A m \in Methods : Foreigners(m) = Marks(stack[m])
    BY DEF Foreigners, Marks
<1>3. \A m \in Methods : Cardinality(Foreigners(m)) = theirs[m]
    BY <1>2 DEF SuppressorInv, StacksOK
<1> QED
    BY <1>1, <1>3 DEF SuppressorInv, CallHonest, SuppressionHonest

(* However other scripts wrap and unwrap the methods, installTagSuppressor *)
(* (tag-suppressor.js) leaves out what the matchers name and nothing else. *)
THEOREM SuppressorIsHonest == SuppressorSpec => []SuppressionHonest
<1> QED
    BY SuppressorStarts, SuppressorStep, SuppressorMeant, PTL DEF SuppressorSpec
-----------------------------------------------------------------------------
(* The cookies. A session state is of natural numbers, whatever the bounds.*)
Session      == [sid : Nat, sct : Nat, engaged : {0, 1}, lastHit : Nat]
NotASession  == {NoCookie, OtherCookie}
SessionOf    == [flags : SUBSET {"_fv", "_ss"}, sid : Nat, sct : Nat]
ClientCookie == Runs \cup {0, NoCookie, OtherCookie}

VisitType ==
    /\ now \in Nat
    /\ ga \in ClientCookie /\ gaStream \in Session \cup NotASession
    /\ step \in [Runs -> Steps]
    /\ readGa \in [Runs -> ClientCookie]
    /\ readStream \in [Runs -> [value : Session \cup NotASession, at : Nat]]
    /\ clientId \in [Runs -> Runs \cup {0}]
    /\ beacon \in [Runs -> SessionOf \cup {NoCookie}]

LEMMA CookieKinds ==
    /\ NoCookie \notin Nat /\ OtherCookie \notin Nat /\ NoCookie # OtherCookie
    /\ \A s \in Session : Parsed(s)
    /\ \A s \in Session \cup NotASession : Parsed(s) => s \in Session
    /\ NoCookie \notin SessionOf
    /\ MaxSessionBoots \in Nat /\ Timeout \in Nat /\ NoCookie \notin Runs \cup {0}
<1>1. /\ NoCookie \notin Nat /\ OtherCookie \notin Nat /\ NoCookie # OtherCookie
      /\ \A s \in Session : Parsed(s)
      /\ \A s \in Session \cup NotASession : Parsed(s) => s \in Session
      /\ NoCookie \notin SessionOf /\ MaxSessionBoots \in Nat /\ Timeout \in Nat
    BY SessionAssumption DEF Parsed, Session, NotASession, SessionOf
<1>2. Runs \cup {0} \subseteq Nat
    BY <1>1 DEF Runs
<1> QED
    BY <1>1, <1>2

(* What a boot does to the session it read at time t.                      *)
LEMMA AdvancedIs ==
    ASSUME NEW old \in Session \cup NotASession, NEW t \in Nat
    PROVE  /\ Advanced(old, t) \in Session /\ Parsed(Advanced(old, t))
           /\ Advanced(old, t).lastHit = t
           /\ Flags(old, t) \in SUBSET {"_fv", "_ss"}
           /\ ~Parsed(old) => Advanced(old, t).sct = 1
           /\ Parsed(old) => "_fv" \notin Flags(old, t)
           /\ Parsed(old) /\ "_ss" \notin Flags(old, t) => Advanced(old, t).sct = old.sct
           /\ Parsed(old) /\ "_ss" \in Flags(old, t) =>
                 /\ old.lastHit < t /\ Advanced(old, t).sid = t
                 /\ Advanced(old, t).sct = old.sct + 1
           /\ ~Parsed(old) => "_ss" \in Flags(old, t) /\ Advanced(old, t).sid = t
<1>1. CASE ~Parsed(old)
    <2>1. Advanced(old, t) = [sid |-> t, sct |-> 1, engaged |-> 0, lastHit |-> t]
        BY <1>1 DEF Advanced, FirstVisit
    <2>2. Advanced(old, t) \in Session
        BY <2>1 DEF Session
    <2>3. Flags(old, t) = {"_fv", "_ss"}
        BY <1>1 DEF Flags
    <2> QED
        BY <1>1, <2>1, <2>2, <2>3, CookieKinds
<1>2. CASE Parsed(old)
    <2>1. old \in Session /\ Timeout \in Nat
        BY <1>2, CookieKinds
    <2>2. old.sid \in Nat /\ old.sct \in Nat /\ old.lastHit \in Nat
        BY <2>1 DEF Session
    <2>3. CASE Expired(old, t)
        <3>1. Advanced(old, t) = [sid |-> t, sct |-> old.sct + 1, engaged |-> 0, lastHit |-> t]
            BY <1>2, <2>3 DEF Advanced, NewSession
        <3>2. Advanced(old, t) \in Session
            BY <2>2, <3>1 DEF Session
        <3>3. Flags(old, t) = {"_ss"}
            BY <1>2, <2>3 DEF Flags
        <3>4. old.lastHit < t
            BY <2>1, <2>2, <2>3 DEF Expired
        <3>5. "_fv" \notin Flags(old, t) /\ Flags(old, t) \in SUBSET {"_fv", "_ss"}
            BY <3>3
        <3> QED
            BY <1>2, <3>1, <3>2, <3>3, <3>4, <3>5, CookieKinds
    <2>4. CASE ~Expired(old, t)
        <3>1. Advanced(old, t) = [old EXCEPT !.engaged = 1, !.lastHit = t]
            BY <1>2, <2>4 DEF Advanced, Continuation
        <3>2. /\ Advanced(old, t) \in Session /\ Advanced(old, t).lastHit = t
              /\ Advanced(old, t).sct = old.sct
            BY <2>1, <3>1 DEF Session
        <3>3. Flags(old, t) = {}
            BY <1>2, <2>4 DEF Flags
        <3> QED
            BY <1>2, <3>2, <3>3, CookieKinds
    <2> QED
        BY <2>3, <2>4
<1> QED
    BY <1>1, <1>2

LEMMA VisitStarts == SessionInit => VisitType
<1> SUFFICES ASSUME SessionInit PROVE VisitType
    OBVIOUS
<1>1. gaStream \in Session \cup NotASession /\ ga \in ClientCookie
    BY DEF SessionInit, Session, NotASession, ClientCookie, Returning
<1>2. step \in [Runs -> Steps] /\ readGa \in [Runs -> ClientCookie]
    BY DEF SessionInit, Steps, ClientCookie
<1>3. readStream \in [Runs -> [value : Session \cup NotASession, at : Nat]]
    BY DEF SessionInit, NotASession
<1>4. clientId \in [Runs -> Runs \cup {0}] /\ beacon \in [Runs -> SessionOf \cup {NoCookie}]
    BY DEF SessionInit
<1> QED
    BY <1>1, <1>2, <1>3, <1>4 DEF SessionInit, VisitType

LEMMA VisitStep ==
    ASSUME VisitType, [SessionNext]_sessionVars
    PROVE  VisitType'
<1>1. CASE UNCHANGED sessionVars
    BY <1>1 DEF sessionVars, jar, runs, VisitType
<1>2. CASE tick
    BY <1>2 DEF tick, jar, runs, VisitType
<1>3. ASSUME NEW b \in Runs, readClient(b)
      PROVE  VisitType'
    <2>1. step' \in [Runs -> Steps] /\ readGa' \in [Runs -> ClientCookie]
        BY <1>3 DEF readClient, VisitType, Steps
    <2> QED
        BY <1>3, <2>1 DEF readClient, jar, VisitType
<1>4. ASSUME NEW b \in Runs, sourceClient(b)
      PROVE  VisitType'
    <2>1. step' \in [Runs -> Steps]
        BY <1>4 DEF sourceClient, VisitType, Steps
    <2>2. clientId' \in [Runs -> Runs \cup {0}]
        BY <1>4 DEF sourceClient, VisitType
    <2>3. ga' \in ClientCookie
        BY <1>4 DEF sourceClient, VisitType, ClientCookie
    <2> QED
        BY <1>4, <2>1, <2>2, <2>3 DEF sourceClient, VisitType
<1>5. ASSUME NEW b \in Runs, readSession(b)
      PROVE  VisitType'
    <2>1. step' \in [Runs -> Steps]
        BY <1>5 DEF readSession, VisitType, Steps
    <2>2. [value |-> gaStream, at |-> now] \in [value : Session \cup NotASession, at : Nat]
        BY DEF VisitType
    <2>3. readStream' \in [Runs -> [value : Session \cup NotASession, at : Nat]]
        BY <1>5, <2>2 DEF readSession, VisitType
    <2> QED
        BY <1>5, <2>1, <2>3 DEF readSession, jar, VisitType
<1>6. ASSUME NEW b \in Runs, writeSession(b)
      PROVE  VisitType'
    <2> DEFINE old == readStream[b].value
               t   == readStream[b].at
               new == Advanced(old, t)
               sent == [flags |-> Flags(old, t), sid |-> new.sid, sct |-> new.sct]
    <2>1. old \in Session \cup NotASession /\ t \in Nat
        BY DEF VisitType
    <2>2. new \in Session /\ Flags(old, t) \in SUBSET {"_fv", "_ss"}
        BY <2>1, AdvancedIs
    <2>3. new.sid \in Nat /\ new.sct \in Nat
        BY <2>2 DEF Session
    <2>4. sent \in SessionOf
        BY <2>2, <2>3 DEF SessionOf
    <2>5. gaStream' = new /\ beacon' = [beacon EXCEPT ![b] = sent]
        BY <1>6 DEF writeSession
    <2>6. step' \in [Runs -> Steps]
        BY <1>6 DEF writeSession, VisitType, Steps
    <2>7. beacon' \in [Runs -> SessionOf \cup {NoCookie}]
        BY <2>4, <2>5 DEF VisitType
    <2> QED
        BY <1>6, <2>2, <2>5, <2>6, <2>7 DEF writeSession, VisitType
<1> QED
    BY <1>1, <1>2, <1>3, <1>4, <1>5, <1>6 DEF SessionNext
-----------------------------------------------------------------------------
(* The client id. While nobody's creation fell between another's read and  *)
(* write, what a boot in work has read is still what the jar holds.        *)
ClientInv ==
    /\ \A b \in Runs : step[b] \in {"new", "read"} => clientId[b] = b
    /\ "_ga" \notin disturbed =>
         /\ \A b \in Runs : step[b] = "read" => readGa[b] = ga
         /\ \A b \in Runs : Sourced(b) => ga = OtherCookie \/ clientId[b] = ga

LEMMA DisturbGrows ==
    ASSUME NEW c, NEW s, NEW b
    PROVE  /\ disturbed \subseteq Disturb(c, s, b)
           /\ \A o \in Runs \ {b} : step[o] = s => c \in Disturb(c, s, b)
BY DEF Disturb

LEMMA ClientStep ==
    ASSUME VisitType, ClientInv, [SessionNext]_sessionVars
    PROVE  ClientInv'
<1>1. CASE UNCHANGED sessionVars \/ tick
    BY <1>1 DEF sessionVars, jar, runs, tick, ClientInv, Sourced
<1>2. ASSUME NEW b \in Runs, readClient(b)
      PROVE  ClientInv'
    <2>1. /\ UNCHANGED <<ga, clientId, disturbed, storageGranted>>
          /\ step[b] = "new" /\ \A o \in Runs \ {b} : step'[o] = step[o] /\ readGa'[o] = readGa[o]
        BY <1>2 DEF readClient, jar, VisitType
    <2>2. \/ storageGranted[b] /\ step'[b] = "read" /\ readGa'[b] = ga
          \/ ~storageGranted[b] /\ step'[b] = "done"
        BY <1>2 DEF readClient, VisitType
    <2> QED
        BY <2>1, <2>2 DEF ClientInv, Sourced
<1>3. ASSUME NEW b \in Runs, sourceClient(b)
      PROVE  ClientInv'
    <2>1. /\ UNCHANGED <<storageGranted, readGa>>
          /\ step[b] = "read" /\ step'[b] = "sourced"
          /\ \A o \in Runs \ {b} : step'[o] = step[o] /\ clientId'[o] = clientId[o]
          /\ clientId[b] = b
        BY <1>3 DEF sourceClient, VisitType, ClientInv
    <2>2. \A o \in Runs : step'[o] \in {"new", "read"} => clientId'[o] = o
        BY <2>1 DEF ClientInv
    <2>3. SUFFICES ASSUME "_ga" \notin disturbed'
                   PROVE  /\ \A o \in Runs : step'[o] = "read" => readGa'[o] = ga'
                          /\ \A o \in Runs : Sourced(o)' => ga' = OtherCookie \/ clientId'[o] = ga'
        BY <2>2 DEF ClientInv
    <2>4. "_ga" \notin disturbed /\ readGa[b] = ga
        BY <1>3, <2>1, <2>3, DisturbGrows DEF sourceClient, ClientInv
    <2>5. \A o \in Runs : Sourced(o) => ga = OtherCookie \/ clientId[o] = ga
        BY <2>4 DEF ClientInv
    <2>6. CASE Creates(b)
        <3>1. ga' = b /\ disturbed' = Disturb("_ga", "read", b) /\ ga = NoCookie
            BY <1>3, <2>4, <2>6 DEF sourceClient, Creates
        <3>2. \A o \in Runs \ {b} : step[o] # "read"
            BY <2>3, <3>1, DisturbGrows
        <3>3. clientId'[b] = b
            <4>1. readGa[b] = NoCookie /\ NoCookie \notin Runs \cup {0}
                BY <2>4, <3>1, CookieKinds
            <4> QED
                BY <1>3, <2>1, <4>1 DEF sourceClient
        <3>4. \A o \in Runs : ~Sourced(o)
            <4>1. \A o \in Runs : clientId[o] # NoCookie
                <5>1. NoCookie \notin Runs \cup {0}
                    BY CookieKinds
                <5> QED
                    BY <5>1 DEF VisitType
            <4>2. NoCookie # OtherCookie
                BY CookieKinds
            <4> QED
                BY <2>5, <3>1, <4>1, <4>2
        <3>5. \A o \in Runs \ {b} : ~Sourced(o)'
            BY <2>1, <3>4 DEF Sourced
        <3> QED
            BY <2>1, <3>1, <3>2, <3>3, <3>5
    <2>7. CASE ~Creates(b)
        <3>1. UNCHANGED <<ga, disturbed>> /\ ga # NoCookie
            BY <1>3, <2>4, <2>7 DEF sourceClient, Creates
        <3>2. ga = OtherCookie \/ clientId'[b] = ga
            <4>1. ga \in Runs \cup {0} \/ ga = OtherCookie
                BY <3>1 DEF VisitType, ClientCookie
            <4>2. ga \in Runs \cup {0} => clientId'[b] = ga
                BY <1>3, <2>4 DEF sourceClient, VisitType
            <4> QED
                BY <4>1, <4>2
        <3>3. \A o \in Runs \ {b} : Sourced(o)' => Sourced(o)
            BY <2>1 DEF Sourced
        <3> QED
            BY <2>1, <2>4, <2>5, <3>1, <3>2, <3>3 DEF ClientInv
    <2> QED
        BY <2>6, <2>7
<1>4. ASSUME NEW b \in Runs, readSession(b) \/ writeSession(b)
      PROVE  ClientInv'
    <2>1. /\ UNCHANGED <<ga, storageGranted, readGa, clientId>>
          /\ step[b] \in {"sourced", "readStream"} /\ step'[b] \in {"readStream", "done"}
          /\ \A o \in Runs \ {b} : step'[o] = step[o]
          /\ "_ga" \in disturbed => "_ga" \in disturbed'
        BY <1>4, DisturbGrows DEF readSession, writeSession, jar, VisitType
    <2>2. \A o \in Runs : /\ Sourced(o)' => Sourced(o)
                          /\ step'[o] \in {"new", "read"} => step[o] = step'[o]
        BY <2>1 DEF Sourced
    <2> QED
        BY <2>1, <2>2 DEF ClientInv
<1> QED
    BY <1>1, <1>2, <1>3, <1>4 DEF SessionNext
-----------------------------------------------------------------------------
(* The session. A boot writes once. While no write fell between another's  *)
(* read and write, what a boot in work has read is the jar's, so each write*)
(* goes on from the last one.                                              *)
Counting == {b \in Written : Started(b)}

HitsPast ==
    /\ \A b \in Runs : step[b] # "done" => beacon[b] = NoCookie
    /\ Parsed(gaStream) => gaStream.lastHit <= now
    /\ \A b \in Runs : step[b] = "readStream" =>
          /\ readStream[b].at <= now
          /\ Parsed(readStream[b].value) => readStream[b].value.lastHit <= readStream[b].at
    /\ Written # {} => Parsed(gaStream)

ReadIsJar == \A b \in Runs : step[b] = "readStream" => readStream[b].value = gaStream

Numbered ==
    /\ \A a, b \in Counting :
          a # b => beacon[a].sct # beacon[b].sct /\ beacon[a].sid # beacon[b].sid
    /\ \A b \in Counting : beacon[b].sid <= gaStream.lastHit

NewOnce == \A a, b \in Written :
              "_fv" \in beacon[a].flags /\ "_fv" \in beacon[b].flags => a = b

Topped == \A b \in Written : beacon[b].sct <= gaStream.sct

Tallied == Parsed(gaStream) => gaStream.sct - Cardinality(Counting) \in {0, 1}

Story == ReadIsJar /\ Numbered /\ NewOnce /\ Topped /\ Tallied

StoryInv == HitsPast /\ ("_ga_stream" \notin disturbed => Story)

LEMMA CountingIsFinite ==
    ASSUME VisitType
    PROVE  IsFiniteSet(Counting) /\ Cardinality(Counting) \in Nat
<1>1. IsFiniteSet(Runs)
    BY CookieKinds, FS_Interval DEF Runs
<1>2. Counting \subseteq Runs
    BY DEF Counting, Written
<1>3. IsFiniteSet(Counting)
    BY <1>1, <1>2, FS_Subset
<1> QED
    BY <1>3, FS_CardinalityType

LEMMA StoryStarts == SessionInit => StoryInv
<1> SUFFICES ASSUME SessionInit PROVE StoryInv
    OBVIOUS
<1>1. Written = {} /\ Counting = {}
    BY DEF SessionInit, Written, Counting
<1>2. \A b \in Runs : step[b] = "new" /\ beacon[b] = NoCookie
    BY DEF SessionInit
<1>3. /\ now = 0
      /\ Parsed(gaStream) => gaStream.lastHit = 0 /\ gaStream.sct = 1
    BY DEF SessionInit, Parsed, Returning
<1>4. Cardinality(Counting) = 0
    BY <1>1, FS_EmptySet
<1>5. HitsPast
    BY <1>1, <1>2, <1>3 DEF HitsPast
<1>6. Story
    BY <1>1, <1>2, <1>3, <1>4 DEF Story, ReadIsJar, Numbered, NewOnce, Topped, Tallied
<1> QED
    BY <1>5, <1>6 DEF StoryInv

(* A step that writes neither the session nor a beacon.                    *)
LEMMA StoryKept ==
    ASSUME VisitType, StoryInv, UNCHANGED <<gaStream, beacon>>, now <= now', now' \in Nat,
           "_ga_stream" \in disturbed => "_ga_stream" \in disturbed',
           \A b \in Runs : step'[b] # "done" => step[b] # "done",
           \A b \in Runs : step'[b] = "readStream" =>
              \/ step[b] = "readStream" /\ readStream'[b] = readStream[b]
              \/ readStream'[b] = [value |-> gaStream, at |-> now]
    PROVE  StoryInv'
<1>1. HitsPast /\ Written' = Written /\ Counting' = Counting
    BY DEF StoryInv, Written, Counting, Started
<1>2. now \in Nat /\ \A b \in Runs : readStream[b].at \in Nat
    BY DEF VisitType
<1>3. Parsed(gaStream) => gaStream.lastHit \in Nat
    BY CookieKinds DEF VisitType, Session
<1>4. ASSUME NEW b \in Runs, step'[b] = "readStream"
      PROVE  /\ readStream'[b].at <= now'
             /\ Parsed(readStream'[b].value) =>
                   readStream'[b].value.lastHit <= readStream'[b].at
    <2>1. CASE step[b] = "readStream" /\ readStream'[b] = readStream[b]
        <3>1. readStream[b].at <= now
            BY <1>1, <2>1 DEF HitsPast
        <3>2. readStream[b].at <= now'
            BY <1>2, <3>1
        <3> QED
            BY <1>1, <2>1, <3>2 DEF HitsPast
    <2>2. CASE readStream'[b] = [value |-> gaStream, at |-> now]
        BY <1>1, <1>2, <2>2 DEF HitsPast
    <2> QED
        BY <1>4, <2>1, <2>2
<1>5. Parsed(gaStream') => gaStream'.lastHit <= now'
    <2>1. Parsed(gaStream) => gaStream.lastHit <= now
        BY <1>1 DEF HitsPast
    <2> QED
        BY <1>2, <1>3, <2>1
<1>6. HitsPast'
    BY <1>1, <1>4, <1>5 DEF HitsPast
<1>7. Story => Story'
    <2>1. ReadIsJar => ReadIsJar'
        BY DEF ReadIsJar
    <2>2. Numbered /\ NewOnce /\ Topped /\ Tallied =>
            Numbered' /\ NewOnce' /\ Topped' /\ Tallied'
        BY <1>1 DEF Numbered, NewOnce, Topped, Tallied
    <2> QED
        BY <2>1, <2>2 DEF Story
<1> QED
    BY <1>6, <1>7 DEF StoryInv

(* What a write changes: the writer is one more that has written, and one  *)
(* more that counts if it begins a session.                                *)
LEMMA WriteIs ==
    ASSUME VisitType, StoryInv, NEW b \in Runs, writeSession(b),
           NEW old, old = readStream[b].value, NEW t, t = readStream[b].at
    PROVE  /\ old \in Session \cup NotASession /\ t \in Nat /\ t <= now
           /\ Parsed(old) => old.lastHit <= t
           /\ step[b] = "readStream" /\ b \notin Written
           /\ gaStream' = Advanced(old, t) /\ UNCHANGED now
           /\ beacon'[b].flags = Flags(old, t) /\ beacon'[b].sid = gaStream'.sid
           /\ beacon'[b].sct = gaStream'.sct
           /\ \A o \in Runs \ {b} : /\ beacon'[o] = beacon[o] /\ step'[o] = step[o]
                                    /\ readStream'[o] = readStream[o]
           /\ Written' = Written \cup {b} /\ step'[b] = "done"
           /\ Counting' = IF "_ss" \in Flags(old, t) THEN Counting \cup {b} ELSE Counting
<1> DEFINE new  == Advanced(old, t)
           sent == [flags |-> Flags(old, t), sid |-> new.sid, sct |-> new.sct]
<1>1. /\ old \in Session \cup NotASession /\ t \in Nat
      /\ t <= now /\ (Parsed(old) => old.lastHit <= t) /\ beacon[b] = NoCookie
    BY DEF VisitType, StoryInv, HitsPast, writeSession
<1>2. /\ gaStream' = new /\ beacon' = [beacon EXCEPT ![b] = sent]
      /\ step[b] = "readStream" /\ step' = [step EXCEPT ![b] = "done"]
      /\ UNCHANGED <<now, readStream>>
    BY DEF writeSession
<1> HIDE DEF new
<1>3. new \in Session /\ Flags(old, t) \in SUBSET {"_fv", "_ss"}
    BY <1>1, AdvancedIs DEF new
<1>4. sent \in SessionOf
    BY <1>3 DEF Session, SessionOf
<1>5. sent # NoCookie
    BY <1>4, CookieKinds
<1>6. beacon'[b] = sent /\ \A o \in Runs \ {b} : beacon'[o] = beacon[o]
    BY <1>2 DEF VisitType
<1> HIDE DEF sent
<1>7. Written' = Written \cup {b} /\ b \notin Written
    BY <1>1, <1>5, <1>6 DEF Written
<1>8. /\ beacon'[b].flags = Flags(old, t) /\ beacon'[b].sid = new.sid
      /\ beacon'[b].sct = new.sct
    BY <1>6 DEF sent
<1>9. \A o \in Written : Started(o)' = Started(o)
    BY <1>6, <1>7 DEF Started, Written
<1>10. Counting' = {o \in Written \cup {b} : Started(o)'}
    BY <1>7 DEF Counting
<1>11. Started(b)' = ("_ss" \in Flags(old, t))
    BY <1>8 DEF Started
<1>12. Counting' = IF "_ss" \in Flags(old, t) THEN Counting \cup {b} ELSE Counting
    BY <1>9, <1>10, <1>11 DEF Counting
<1>13. /\ \A o \in Runs \ {b} : step'[o] = step[o] /\ readStream'[o] = readStream[o]
       /\ step'[b] = "done"
    BY <1>2 DEF VisitType
<1> QED
    BY <1>1, <1>2, <1>6, <1>7, <1>8, <1>12, <1>13 DEF new

LEMMA WriteKeepsHits ==
    ASSUME VisitType, StoryInv, NEW b \in Runs, writeSession(b)
    PROVE  HitsPast'
<1> DEFINE old == readStream[b].value
           t   == readStream[b].at
<1> HIDE DEF old, t
<1>1. /\ old \in Session \cup NotASession /\ t \in Nat /\ t <= now
      /\ gaStream' = Advanced(old, t) /\ now' = now
      /\ \A o \in Runs \ {b} : /\ beacon'[o] = beacon[o] /\ step'[o] = step[o]
                               /\ readStream'[o] = readStream[o]
      /\ step'[b] = "done"
    BY WriteIs DEF old, t
<1>2. Parsed(gaStream') /\ gaStream'.lastHit = t
    BY <1>1, AdvancedIs
<1> QED
    BY <1>1, <1>2 DEF StoryInv, HitsPast

LEMMA WriteGoesOn ==
    ASSUME VisitType, StoryInv, NEW b \in Runs, writeSession(b),
           "_ga_stream" \notin disturbed'
    PROVE  Story'
<1> DEFINE old == readStream[b].value
           t   == readStream[b].at
<1> HIDE DEF old, t
<1>1. /\ old \in Session \cup NotASession /\ t \in Nat
      /\ step[b] = "readStream" /\ b \notin Written
      /\ gaStream' = Advanced(old, t)
      /\ beacon'[b].flags = Flags(old, t) /\ beacon'[b].sid = gaStream'.sid
      /\ beacon'[b].sct = gaStream'.sct
      /\ \A o \in Runs \ {b} : beacon'[o] = beacon[o] /\ step'[o] = step[o]
      /\ Written' = Written \cup {b} /\ step'[b] = "done"
      /\ Counting' = IF "_ss" \in Flags(old, t) THEN Counting \cup {b} ELSE Counting
      /\ Parsed(old) => old.lastHit <= t
    BY WriteIs DEF old, t
<1>2. Story /\ \A o \in Runs \ {b} : step[o] # "readStream"
    <2>1. disturbed' = Disturb("_ga_stream", "readStream", b)
        BY DEF writeSession
    <2> QED
        BY <2>1, DisturbGrows DEF StoryInv
<1>3. old = gaStream
    BY <1>1, <1>2 DEF Story, ReadIsJar, old
<1>4. ReadIsJar'
    BY <1>1, <1>2 DEF ReadIsJar
<1>5. /\ Written \subseteq Runs /\ Counting \subseteq Written
      /\ \A o \in Written : beacon'[o] = beacon[o]
      /\ \A o \in Written : beacon[o].sct \in Nat /\ beacon[o].sid \in Nat
    <2>1. Written \subseteq Runs /\ Counting \subseteq Written
        BY DEF Written, Counting
    <2>2. \A o \in Written : beacon[o] \in SessionOf
        BY DEF VisitType, Written
    <2> QED
        BY <1>1, <2>1, <2>2 DEF SessionOf
<1>6. /\ gaStream' \in Session /\ Parsed(gaStream') /\ gaStream'.lastHit = t
      /\ gaStream'.sct \in Nat
    BY <1>1, AdvancedIs DEF Session
<1>7. CASE ~Parsed(old)
    <2>1. Written = {} /\ Counting = {}
        BY <1>3, <1>5, <1>7 DEF StoryInv, HitsPast
    <2>2. /\ gaStream'.sct = 1 /\ "_ss" \in Flags(old, t) /\ gaStream'.sid = t
        BY <1>1, <1>7, AdvancedIs
    <2>3. Written' = {b} /\ Counting' = {b}
        BY <1>1, <2>1, <2>2
    <2>4. Cardinality(Counting') = 1
        BY <2>3, FS_Singleton
    <2>5. Tallied'
        BY <2>2, <2>4 DEF Tallied
    <2>6. Numbered'
        BY <1>1, <1>6, <2>2, <2>3 DEF Numbered
    <2>7. NewOnce' /\ Topped'
        BY <1>1, <1>6, <2>3 DEF NewOnce, Topped
    <2> QED
        BY <1>4, <2>5, <2>6, <2>7 DEF Story
<1>8. CASE Parsed(old)
    <2>1. old \in Session /\ old.sct \in Nat /\ old.lastHit \in Nat
        BY <1>1, <1>8, CookieKinds DEF Session
    <2>2. /\ "_fv" \notin Flags(old, t)
          /\ "_ss" \notin Flags(old, t) => gaStream'.sct = old.sct
          /\ "_ss" \in Flags(old, t) => /\ old.lastHit < t /\ gaStream'.sid = t
                                        /\ gaStream'.sct = old.sct + 1
        BY <1>1, <1>8, AdvancedIs
    <2>3. NewOnce'
        BY <1>1, <1>2, <1>5, <2>2 DEF Story, NewOnce
    <2>4. Topped'
        <3>1. \A o \in Written : beacon[o].sct <= gaStream'.sct
            BY <1>2, <1>3, <1>5, <2>1, <2>2 DEF Story, Topped
        <3> QED
            BY <1>1, <1>5, <1>6, <3>1 DEF Topped
    <2>5. Numbered'
        <3>1. \A o \in Counting : /\ beacon[o].sid <= old.lastHit
                                  /\ beacon[o].sct <= old.sct
            BY <1>2, <1>3, <1>5 DEF Story, Numbered, Topped
        <3>2. \A o \in Counting : beacon'[o] = beacon[o] /\ beacon'[o].sid <= t
            BY <1>1, <1>5, <1>8, <2>1, <3>1
        <3>3. CASE "_ss" \notin Flags(old, t)
            <4>1. Counting' = Counting
                BY <1>1, <3>3
            <4> QED
                BY <1>2, <1>6, <3>2, <4>1 DEF Story, Numbered
        <3>4. CASE "_ss" \in Flags(old, t)
            <4>1. Counting' = Counting \cup {b}
                BY <1>1, <3>4
            <4>2. beacon'[b].sid = t /\ beacon'[b].sct = old.sct + 1
                BY <1>1, <2>2, <3>4
            <4>3. \A o \in Counting : beacon'[o].sid < t /\ beacon'[o].sct < old.sct + 1
                BY <1>1, <1>5, <2>1, <2>2, <3>1, <3>2, <3>4
            <4>4. \A o \in Counting : /\ beacon'[o].sct # beacon'[b].sct
                                      /\ beacon'[o].sid # beacon'[b].sid
                BY <1>1, <1>5, <2>1, <3>2, <4>2, <4>3
            <4>5. \A o, p \in Counting : o # p => /\ beacon'[o].sct # beacon'[p].sct
                                                  /\ beacon'[o].sid # beacon'[p].sid
                BY <1>2, <3>2 DEF Story, Numbered
            <4>6. \A o \in Counting' : beacon'[o].sid <= gaStream'.lastHit
                BY <1>1, <1>6, <3>2, <4>1, <4>2
            <4>7. \A o, p \in Counting' : o # p => /\ beacon'[o].sct # beacon'[p].sct
                                                   /\ beacon'[o].sid # beacon'[p].sid
                BY <4>1, <4>4, <4>5
            <4> QED
                BY <4>6, <4>7 DEF Numbered
        <3> QED
            BY <3>3, <3>4
    <2>6. Tallied'
        <3>1. IsFiniteSet(Counting) /\ Cardinality(Counting) \in Nat
            BY CountingIsFinite
        <3>2. old.sct - Cardinality(Counting) \in {0, 1}
            BY <1>2, <1>3, <1>8 DEF Story, Tallied
        <3>3. b \notin Counting
            BY <1>1, <1>5
        <3>4. Cardinality(Counting \cup {b}) = Cardinality(Counting) + 1
            BY <3>1, <3>3, FS_AddElement
        <3>5. CASE "_ss" \notin Flags(old, t)
            <4>1. Counting' = Counting /\ gaStream'.sct = old.sct
                BY <1>1, <2>2, <3>5
            <4> QED
                BY <3>2, <4>1 DEF Tallied
        <3>6. CASE "_ss" \in Flags(old, t)
            <4>1. Counting' = Counting \cup {b} /\ gaStream'.sct = old.sct + 1
                BY <1>1, <2>2, <3>6
            <4>2. Cardinality(Counting') = Cardinality(Counting) + 1
                BY <3>4, <4>1
            <4> QED
                BY <2>1, <3>1, <3>2, <4>1, <4>2 DEF Tallied
        <3> QED
            BY <3>5, <3>6
    <2> QED
        BY <1>4, <2>3, <2>4, <2>5, <2>6 DEF Story
<1> QED
    BY <1>7, <1>8

LEMMA StoryStep ==
    ASSUME VisitType, StoryInv, [SessionNext]_sessionVars
    PROVE  StoryInv'
<1>1. now \in Nat
    BY DEF VisitType
<1>2. CASE UNCHANGED sessionVars
    BY <1>1, <1>2, StoryKept DEF sessionVars, jar, runs
<1>3. CASE tick
    <2>1. now' \in Nat /\ now <= now'
        BY <1>1, <1>3 DEF tick
    <2> QED
        BY <1>3, <2>1, StoryKept DEF tick, jar, runs
<1>4. ASSUME NEW b \in Runs, readClient(b)
      PROVE  StoryInv'
    <2>1. \A o \in Runs : o # b => step'[o] = step[o]
        BY <1>4 DEF readClient, VisitType
    <2>2. step[b] = "new" /\ step'[b] \in {"read", "done"}
        BY <1>4 DEF readClient, VisitType
    <2>3. UNCHANGED <<now, gaStream, beacon, disturbed, readStream>>
        BY <1>4 DEF readClient, jar
    <2> QED
        BY <1>1, <2>1, <2>2, <2>3, StoryKept
<1>5. ASSUME NEW b \in Runs, sourceClient(b)
      PROVE  StoryInv'
    <2>1. \A o \in Runs : o # b => step'[o] = step[o]
        BY <1>5 DEF sourceClient, VisitType
    <2>2. step[b] = "read" /\ step'[b] = "sourced"
        BY <1>5 DEF sourceClient, VisitType
    <2>3. /\ UNCHANGED <<now, gaStream, beacon, readStream>>
          /\ "_ga_stream" \in disturbed => "_ga_stream" \in disturbed'
        BY <1>5, DisturbGrows DEF sourceClient
    <2> QED
        BY <1>1, <2>1, <2>2, <2>3, StoryKept
<1>6. ASSUME NEW b \in Runs, readSession(b)
      PROVE  StoryInv'
    <2>1. \A o \in Runs : o # b => step'[o] = step[o] /\ readStream'[o] = readStream[o]
        BY <1>6 DEF readSession, VisitType
    <2>2. /\ step[b] = "sourced" /\ step'[b] = "readStream"
          /\ readStream'[b] = [value |-> gaStream, at |-> now]
        BY <1>6 DEF readSession, VisitType
    <2>3. UNCHANGED <<now, gaStream, beacon, disturbed>>
        BY <1>6 DEF readSession, jar
    <2> QED
        BY <1>1, <2>1, <2>2, <2>3, StoryKept
<1>7. ASSUME NEW b \in Runs, writeSession(b)
      PROVE  StoryInv'
    BY <1>7, WriteKeepsHits, WriteGoesOn DEF StoryInv
<1> QED
    BY <1>2, <1>3, <1>4, <1>5, <1>6, <1>7 DEF SessionNext
-----------------------------------------------------------------------------
SessionInv == VisitType /\ ClientInv /\ StoryInv

LEMMA SessionStarts == SessionInit => SessionInv
<1> SUFFICES ASSUME SessionInit PROVE SessionInv
    OBVIOUS
<1>1. ClientInv
    BY DEF SessionInit, ClientInv, Sourced
<1> QED
    BY <1>1, VisitStarts, StoryStarts DEF SessionInv

LEMMA SessionMeant == SessionInv => SessionsCounted
<1> SUFFICES ASSUME SessionInv PROVE SessionsCounted
    OBVIOUS
<1>1. ASSUME "_ga_stream" \notin disturbed
      PROVE  /\ \A a, b \in Written : a # b /\ Started(a) /\ Started(b) =>
                   beacon[a].sct # beacon[b].sct /\ beacon[a].sid # beacon[b].sid
             /\ NewOnce /\ Topped /\ Tallied
    BY <1>1 DEF SessionInv, StoryInv, Story, Numbered, Counting
<1>2. "_ga" \notin disturbed =>
         \A b \in Runs : Sourced(b) => ga = OtherCookie \/ clientId[b] = ga
    BY DEF SessionInv, ClientInv
<1> QED
    BY <1>1, <1>2 DEF SessionsCounted, NewOnce, Topped, Tallied, Counting

(* The visitor's story that ga4/cookies.js tells: whatever the number of   *)
(* boots, of the clock's ticks and of the jar's former values, it is       *)
(* consistent unless two boots overlap.                                    *)
THEOREM SessionsAreCounted == SessionSpec => []SessionsCounted
<1>1. SessionInv /\ [SessionNext]_sessionVars => SessionInv'
    BY VisitStep, ClientStep, StoryStep DEF SessionInv
<1> QED
    BY <1>1, SessionStarts, SessionMeant, PTL DEF SessionSpec
-----------------------------------------------------------------------------
(* Induction, as the least element of a set of numbers.                    *)
Below == {p \in Nat \X Nat : p[1] < p[2]}

LEMMA LeastOf ==
    ASSUME NEW T \in SUBSET Nat, T # {}
    PROVE  \E x \in T : \A y \in T : x <= y
<1>1. OpToRel(<, Nat) = Below
    BY DEF OpToRel, Below
<1>2. IsWellFoundedOn(Below, Nat)
    BY NatLessThanWellFounded, <1>1
<1>3. PICK x \in T : \A y \in T : ~(<<y, x>> \in Below)
    BY <1>2, WFMin
<1>4. ASSUME NEW y \in T
      PROVE  x <= y
    <2>1. x \in Nat /\ y \in Nat
        OBVIOUS
    <2>2. ~(y < x)
        BY <1>3, <2>1 DEF Below
    <2> QED
        BY <2>1, <2>2
<1> QED
    BY <1>4

(* The page after each of the first n ops.                                 *)
Pages(f, page, ops, n) ==
    f = [k \in 0..n |-> IF k = 0 THEN page ELSE applyOne(f[k - 1], ops[k])]

LEMMA PagesStep ==
    ASSUME NEW n \in Nat, NEW f, NEW page, NEW ops, Pages(f, page, ops, n)
    PROVE  /\ f[0] = page
           /\ \A k \in 1..n : f[k] = applyOne(f[k - 1], ops[k])
<1>1. 0 \in 0..n /\ \A k \in 1..n : k \in 0..n /\ k # 0
    OBVIOUS
<1> QED
    BY <1>1 DEF Pages

LEMMA PagesExist ==
    ASSUME NEW page, NEW ops
    PROVE  \A n \in Nat : \E f : Pages(f, page, ops, n)
<1> DEFINE T == {n \in Nat : \A f : ~Pages(f, page, ops, n)}
<1> SUFFICES ASSUME T # {} PROVE FALSE
    OBVIOUS
<1>1. PICK n \in T : \A m \in T : n <= m
    BY LeastOf
<1>2. n \in Nat /\ \A f : ~Pages(f, page, ops, n)
    OBVIOUS
<1>3. n # 0
    <2> SUFFICES ASSUME n = 0 PROVE FALSE
        OBVIOUS
    <2> DEFINE g == [k \in 0..n |-> page]
    <2>1. g = [k \in 0..n |-> IF k = 0 THEN page ELSE applyOne(g[k - 1], ops[k])]
        OBVIOUS
    <2>2. Pages(g, page, ops, n)
        BY <2>1 DEF Pages
    <2> QED
        BY <1>2, <2>2
<1>4. n - 1 \in Nat /\ n - 1 \notin T
    BY <1>1, <1>2, <1>3
<1>5. PICK f : Pages(f, page, ops, n - 1)
    BY <1>4
<1>6. /\ f[0] = page
      /\ \A k \in 1..(n - 1) : f[k] = applyOne(f[k - 1], ops[k])
    BY <1>4, <1>5, PagesStep
<1> DEFINE g == [k \in 0..n |-> IF k = n THEN applyOne(f[n - 1], ops[n]) ELSE f[k]]
<1>7. ASSUME NEW k \in 0..n
      PROVE  g[k] = IF k = 0 THEN page ELSE applyOne(g[k - 1], ops[k])
    <2>1. CASE k = 0
        BY <1>2, <1>3, <1>6, <2>1
    <2>2. CASE k # 0
        <3>1. k - 1 \in 0..n /\ k - 1 # n
            BY <1>2, <2>2
        <3>2. g[k - 1] = f[k - 1]
            BY <3>1
        <3>3. k \in 1..(n - 1) \/ k = n
            BY <1>2, <2>2
        <3> QED
            BY <1>6, <2>2, <3>2, <3>3
    <2> QED
        BY <2>1, <2>2
<1> HIDE DEF g
<1>8. g = [k \in 0..n |-> g[k]]
    BY DEF g
<1>9. Pages(g, page, ops, n)
    BY <1>7, <1>8 DEF Pages
<1> QED
    BY <1>2, <1>9

LEMMA PagesAgree ==
    ASSUME NEW page, NEW ops, NEW n \in Nat, NEW m \in Nat, n <= m, NEW f, NEW g,
           Pages(f, page, ops, n), Pages(g, page, ops, m)
    PROVE  \A k \in 0..n : f[k] = g[k]
<1> DEFINE T == {k \in 0..n : f[k] # g[k]}
<1> SUFFICES ASSUME T # {} PROVE FALSE
    OBVIOUS
<1>1. T \in SUBSET Nat
    OBVIOUS
<1>2. PICK k \in T : \A j \in T : k <= j
    BY <1>1, LeastOf
<1>3. /\ f[0] = page /\ g[0] = page
      /\ \A j \in 1..n : f[j] = applyOne(f[j - 1], ops[j])
      /\ \A j \in 1..m : g[j] = applyOne(g[j - 1], ops[j])
    BY PagesStep
<1>4. k \in 1..n /\ k \in 1..m /\ k - 1 \in 0..n /\ k \in Nat
    BY <1>1, <1>3
<1>5. k - 1 \notin T
    BY <1>2, <1>4
<1>6. f[k - 1] = g[k - 1]
    BY <1>4, <1>5
<1> QED
    BY <1>3, <1>4, <1>6

LEMMA ApplyAllIs ==
    ASSUME NEW page, NEW ops, Len(ops) \in Nat
    PROVE  \E f : Pages(f, page, ops, Len(ops)) /\ ApplyAll(page, ops) = f[Len(ops)]
<1> DEFINE f == CHOOSE f : Pages(f, page, ops, Len(ops))
<1>1. Pages(f, page, ops, Len(ops))
    BY PagesExist
<1>2. f = CHOOSE g : g = [k \in 0..Len(ops) |-> IF k = 0 THEN page ELSE applyOne(g[k - 1], ops[k])]
    BY DEF Pages
<1> HIDE DEF f
<1>3. ApplyAll(page, ops) = f[Len(ops)]
    BY <1>2 DEF ApplyAll
<1> QED
    BY <1>1, <1>3

LEMMA ApplyAllSteps ==
    ASSUME NEW page, NEW ops, NEW n \in Nat, n = Len(ops), NEW f, Pages(f, page, ops, n)
    PROVE  ApplyAll(page, ops) = f[n]
<1>1. PICK g : Pages(g, page, ops, n) /\ ApplyAll(page, ops) = g[n]
    BY ApplyAllIs
<1>2. n <= n /\ n \in 0..n
    OBVIOUS
<1>3. \A k \in 0..n : f[k] = g[k]
    BY <1>1, <1>2, PagesAgree
<1> QED
    BY <1>1, <1>2, <1>3

LEMMA ApplyNone ==
    ASSUME NEW page
    PROVE  ApplyAll(page, <<>>) = page
<1>1. Len(<<>>) = 0
    OBVIOUS
<1>2. PICK f : Pages(f, page, <<>>, 0) /\ ApplyAll(page, <<>>) = f[0]
    BY <1>1, ApplyAllIs
<1>3. f[0] = page
    BY <1>2, PagesStep
<1> QED
    BY <1>2, <1>3

(* The first op, then the rest.                                            *)
LEMMA ApplyHead ==
    ASSUME NEW S, NEW page, NEW ops \in Seq(S), ops # <<>>
    PROVE  ApplyAll(page, ops) = ApplyAll(applyOne(page, Head(ops)), Tail(ops))
<1> DEFINE n == Len(ops)
           first == applyOne(page, Head(ops))
<1>1. /\ n \in Nat \ {0} /\ Head(ops) = ops[1] /\ Tail(ops) \in Seq(S)
      /\ Len(Tail(ops)) = n - 1 /\ \A k \in 1..(n - 1) : Tail(ops)[k] = ops[k + 1]
    OBVIOUS
<1>2. PICK f : Pages(f, page, ops, n) /\ ApplyAll(page, ops) = f[n]
    BY <1>1, ApplyAllIs
<1>3. f[0] = page /\ \A k \in 1..n : f[k] = applyOne(f[k - 1], ops[k])
    BY <1>1, <1>2, PagesStep
<1>4. f[1] = first
    BY <1>1, <1>3
<1> DEFINE g == [k \in 0..(n - 1) |-> f[k + 1]]
<1>5. ASSUME NEW k \in 0..(n - 1)
      PROVE  g[k] = IF k = 0 THEN first ELSE applyOne(g[k - 1], Tail(ops)[k])
    <2>1. CASE k = 0
        BY <1>1, <1>4, <2>1
    <2>2. CASE k # 0
        <3>1. k \in 1..(n - 1) /\ k + 1 \in 1..n /\ (k + 1) - 1 = k /\ k - 1 \in 0..(n - 1)
              /\ (k - 1) + 1 = k
            BY <1>1, <2>2
        <3>2. g[k] = f[k + 1] /\ g[k - 1] = f[k]
            BY <3>1
        <3>3. f[k + 1] = applyOne(f[k], ops[k + 1])
            BY <1>3, <3>1
        <3> QED
            BY <1>1, <2>2, <3>1, <3>2, <3>3
    <2> QED
        BY <2>1, <2>2
<1>6. g[n - 1] = f[n]
    BY <1>1
<1> HIDE DEF first
<1>7. g = [k \in 0..(n - 1) |-> g[k]]
    OBVIOUS
<1> HIDE DEF g
<1>8. Pages(g, first, Tail(ops), n - 1)
    BY <1>5, <1>7 DEF Pages
<1>9. n - 1 \in Nat /\ n - 1 = Len(Tail(ops))
    BY <1>1
<1>10. ApplyAll(first, Tail(ops)) = g[n - 1]
    <2> DEFINE m  == n - 1
               cs == Tail(ops)
    <2>1. m \in Nat /\ m = Len(cs) /\ Pages(g, first, cs, m)
        BY <1>8, <1>9
    <2> HIDE DEF m, cs
    <2>2. ApplyAll(first, cs) = g[m]
        BY <2>1, ApplyAllSteps
    <2> QED
        BY <2>2 DEF m, cs
<1> QED
    BY <1>2, <1>6, <1>10 DEF first
-----------------------------------------------------------------------------
(* The same for messages.                                                  *)
Deliveries(f, page, messages, n) ==
    f = [k \in 0..n |-> IF k = 0 THEN page ELSE ApplyAll(f[k - 1], messages[k].ops)]

LEMMA DeliveriesStep ==
    ASSUME NEW n \in Nat, NEW f, NEW page, NEW messages, Deliveries(f, page, messages, n)
    PROVE  /\ f[0] = page
           /\ \A k \in 1..n : f[k] = ApplyAll(f[k - 1], messages[k].ops)
<1>1. 0 \in 0..n /\ \A k \in 1..n : k \in 0..n /\ k # 0
    OBVIOUS
<1> QED
    BY <1>1 DEF Deliveries

LEMMA DeliveriesExist ==
    ASSUME NEW page, NEW messages
    PROVE  \A n \in Nat : \E f : Deliveries(f, page, messages, n)
<1> DEFINE T == {n \in Nat : \A f : ~Deliveries(f, page, messages, n)}
<1> SUFFICES ASSUME T # {} PROVE FALSE
    OBVIOUS
<1>1. PICK n \in T : \A m \in T : n <= m
    BY LeastOf
<1>2. n \in Nat /\ \A f : ~Deliveries(f, page, messages, n)
    OBVIOUS
<1>3. n # 0
    <2> SUFFICES ASSUME n = 0 PROVE FALSE
        OBVIOUS
    <2> DEFINE g == [k \in 0..n |-> page]
    <2>1. g = [k \in 0..n |-> IF k = 0 THEN page ELSE ApplyAll(g[k - 1], messages[k].ops)]
        OBVIOUS
    <2>2. Deliveries(g, page, messages, n)
        BY <2>1 DEF Deliveries
    <2> QED
        BY <1>2, <2>2
<1>4. n - 1 \in Nat /\ n - 1 \notin T
    BY <1>1, <1>2, <1>3
<1>5. PICK f : Deliveries(f, page, messages, n - 1)
    BY <1>4
<1>6. /\ f[0] = page
      /\ \A k \in 1..(n - 1) : f[k] = ApplyAll(f[k - 1], messages[k].ops)
    BY <1>4, <1>5, DeliveriesStep
<1> DEFINE g == [k \in 0..n |-> IF k = n THEN ApplyAll(f[n - 1], messages[n].ops) ELSE f[k]]
<1>7. ASSUME NEW k \in 0..n
      PROVE  g[k] = IF k = 0 THEN page ELSE ApplyAll(g[k - 1], messages[k].ops)
    <2>1. CASE k = 0
        BY <1>2, <1>3, <1>6, <2>1
    <2>2. CASE k # 0
        <3>1. k - 1 \in 0..n /\ k - 1 # n
            BY <1>2, <2>2
        <3>2. g[k - 1] = f[k - 1]
            BY <3>1
        <3>3. k \in 1..(n - 1) \/ k = n
            BY <1>2, <2>2
        <3> QED
            BY <1>6, <2>2, <3>2, <3>3
    <2> QED
        BY <2>1, <2>2
<1> HIDE DEF g
<1>8. g = [k \in 0..n |-> g[k]]
    BY DEF g
<1>9. Deliveries(g, page, messages, n)
    BY <1>7, <1>8 DEF Deliveries
<1> QED
    BY <1>2, <1>9

LEMMA DeliveriesAgree ==
    ASSUME NEW page, NEW messages, NEW n \in Nat, NEW f, NEW g,
           Deliveries(f, page, messages, n), Deliveries(g, page, messages, n)
    PROVE  f[n] = g[n]
<1> DEFINE T == {k \in 0..n : f[k] # g[k]}
<1> SUFFICES ASSUME T # {} PROVE FALSE
    BY DEF T
<1>1. T \in SUBSET Nat
    OBVIOUS
<1>2. PICK k \in T : \A j \in T : k <= j
    BY <1>1, LeastOf
<1>3. /\ f[0] = page /\ g[0] = page
      /\ \A j \in 1..n : f[j] = ApplyAll(f[j - 1], messages[j].ops)
      /\ \A j \in 1..n : g[j] = ApplyAll(g[j - 1], messages[j].ops)
    BY DeliveriesStep
<1>4. k \in 1..n /\ k - 1 \in 0..n /\ k \in Nat
    BY <1>1, <1>3
<1>5. k - 1 \notin T
    BY <1>2, <1>4
<1>6. f[k - 1] = g[k - 1]
    BY <1>4, <1>5
<1> QED
    BY <1>3, <1>4, <1>6

LEMMA DeliveredIs ==
    ASSUME NEW page, NEW messages, Len(messages) \in Nat
    PROVE  \E f : /\ Deliveries(f, page, messages, Len(messages))
                  /\ Delivered(page, messages) = f[Len(messages)]
<1> DEFINE f == CHOOSE f : Deliveries(f, page, messages, Len(messages))
<1>1. Deliveries(f, page, messages, Len(messages))
    BY DeliveriesExist
<1>2. f = CHOOSE g : g = [k \in 0..Len(messages) |->
                             IF k = 0 THEN page ELSE ApplyAll(g[k - 1], messages[k].ops)]
    BY DEF Deliveries
<1> HIDE DEF f
<1>3. Delivered(page, messages) = f[Len(messages)]
    BY <1>2 DEF Delivered
<1> QED
    BY <1>1, <1>3

LEMMA DeliveredSteps ==
    ASSUME NEW page, NEW messages, NEW n \in Nat, n = Len(messages), NEW f,
           Deliveries(f, page, messages, n)
    PROVE  Delivered(page, messages) = f[n]
<1>1. PICK g : Deliveries(g, page, messages, n) /\ Delivered(page, messages) = g[n]
    BY DeliveredIs
<1>2. f[n] = g[n]
    BY <1>1, DeliveriesAgree
<1> QED
    BY <1>1, <1>2

LEMMA DeliverNone ==
    ASSUME NEW page
    PROVE  Delivered(page, <<>>) = page
<1>1. Len(<<>>) = 0
    OBVIOUS
<1>2. PICK f : Deliveries(f, page, <<>>, 0) /\ Delivered(page, <<>>) = f[0]
    BY <1>1, DeliveredIs
<1>3. f[0] = page
    BY <1>2, DeliveriesStep
<1> QED
    BY <1>2, <1>3

LEMMA DeliverHead ==
    ASSUME NEW S, NEW page, NEW messages \in Seq(S), messages # <<>>
    PROVE  Delivered(page, messages)
               = Delivered(ApplyAll(page, Head(messages).ops), Tail(messages))
<1> DEFINE n == Len(messages)
           first == ApplyAll(page, Head(messages).ops)
<1>1. /\ n \in Nat \ {0} /\ Head(messages) = messages[1] /\ Tail(messages) \in Seq(S)
      /\ Len(Tail(messages)) = n - 1
      /\ \A k \in 1..(n - 1) : Tail(messages)[k] = messages[k + 1]
    OBVIOUS
<1>2. PICK f : Deliveries(f, page, messages, n) /\ Delivered(page, messages) = f[n]
    BY <1>1, DeliveredIs
<1>3. f[0] = page /\ \A k \in 1..n : f[k] = ApplyAll(f[k - 1], messages[k].ops)
    BY <1>1, <1>2, DeliveriesStep
<1>4. f[1] = first
    BY <1>1, <1>3
<1> DEFINE g == [k \in 0..(n - 1) |-> f[k + 1]]
<1>5. ASSUME NEW k \in 0..(n - 1)
      PROVE  g[k] = IF k = 0 THEN first ELSE ApplyAll(g[k - 1], Tail(messages)[k].ops)
    <2>1. CASE k = 0
        BY <1>1, <1>4, <2>1
    <2>2. CASE k # 0
        <3>1. k \in 1..(n - 1) /\ k + 1 \in 1..n /\ (k + 1) - 1 = k /\ k - 1 \in 0..(n - 1)
              /\ (k - 1) + 1 = k
            BY <1>1, <2>2
        <3>2. g[k] = f[k + 1] /\ g[k - 1] = f[k]
            BY <3>1
        <3>3. f[k + 1] = ApplyAll(f[k], messages[k + 1].ops)
            BY <1>3, <3>1
        <3> QED
            BY <1>1, <2>2, <3>1, <3>2, <3>3
    <2> QED
        BY <2>1, <2>2
<1>6. g[n - 1] = f[n]
    BY <1>1
<1> HIDE DEF first
<1>7. g = [k \in 0..(n - 1) |-> g[k]]
    OBVIOUS
<1> HIDE DEF g
<1>8. Deliveries(g, first, Tail(messages), n - 1)
    BY <1>5, <1>7 DEF Deliveries
<1>9. n - 1 \in Nat /\ n - 1 = Len(Tail(messages))
    BY <1>1
<1>10. Delivered(first, Tail(messages)) = g[n - 1]
    <2> DEFINE m  == n - 1
               ms == Tail(messages)
    <2>1. m \in Nat /\ m = Len(ms) /\ Deliveries(g, first, ms, m)
        BY <1>8, <1>9
    <2> HIDE DEF m, ms
    <2>2. Delivered(first, ms) = g[m]
        BY <2>1, DeliveredSteps
    <2> QED
        BY <2>2 DEF m, ms
<1> QED
    BY <1>2, <1>6, <1>10 DEF first

LEMMA DeliverLast ==
    ASSUME NEW S, NEW page, NEW messages \in Seq(S), NEW m \in S
    PROVE  Delivered(page, Append(messages, m)) = ApplyAll(Delivered(page, messages), m.ops)
<1> DEFINE n == Len(messages)
           more == Append(messages, m)
<1>1. /\ n \in Nat /\ Len(more) = n + 1 /\ more[n + 1] = m
      /\ \A k \in 1..n : more[k] = messages[k]
    OBVIOUS
<1> HIDE DEF more
<1>2. PICK f : Deliveries(f, page, more, n + 1) /\ Delivered(page, more) = f[n + 1]
    BY <1>1, DeliveredIs
<1>3. f[0] = page /\ \A k \in 1..(n + 1) : f[k] = ApplyAll(f[k - 1], more[k].ops)
    BY <1>1, <1>2, DeliveriesStep
<1> DEFINE g == [k \in 0..n |-> f[k]]
<1>4. ASSUME NEW k \in 0..n
      PROVE  g[k] = IF k = 0 THEN page ELSE ApplyAll(g[k - 1], messages[k].ops)
    <2>1. CASE k = 0
        BY <1>1, <1>3, <2>1
    <2>2. CASE k # 0
        <3>1. k \in 1..(n + 1) /\ k \in 1..n /\ k - 1 \in 0..n
            BY <1>1, <2>2
        <3>2. f[k] = ApplyAll(f[k - 1], messages[k].ops)
            BY <1>1, <1>3, <3>1
        <3> QED
            BY <2>2, <3>1, <3>2
    <2> QED
        BY <2>1, <2>2
<1>5. g[n] = f[n] /\ g = [k \in 0..n |-> g[k]]
    BY <1>1
<1> HIDE DEF g
<1>6. Deliveries(g, page, messages, n)
    BY <1>4, <1>5 DEF Deliveries
<1>7. Delivered(page, messages) = f[n]
    BY <1>1, <1>5, <1>6, DeliveredSteps
<1>8. n + 1 \in 1..(n + 1) /\ (n + 1) - 1 = n
    BY <1>1
<1>9. f[n + 1] = ApplyAll(f[n], m.ops)
    BY <1>1, <1>3, <1>8
<1> QED
    BY <1>2, <1>7, <1>9 DEF more
-----------------------------------------------------------------------------
(* What the tag's calls are, and what they make and use.                   *)
Op == [op : {"create"}, id : Nat, allow : BOOLEAN]
          \cup [op : {"write"}, id : Nat, allow : BOOLEAN, value : Nat]
          \cup [op : {"appendChild"}, id : Nat, child : Nat]
          \cup [op : {"setContent"}, id : Nat]
Message == [task : Nat, ops : Seq(Op)]

Makes(op, n)   == op.op = "create" /\ op.id = n /\ op.allow
MadeIn(ops, n) == \E i \in DOMAIN ops : Makes(ops[i], n)
Uses(op, n)    == op.op # "create" /\ n \in ResolvedIds(op)
Allowed        == {n \in DOMAIN created : created[n]}

(* Each node of A is in N, or made, before an op uses it.                  *)
Backed(A, ops, N) ==
    \A j \in DOMAIN ops : \A n \in A :
        Uses(ops[j], n) => n \in N \/ \E i \in DOMAIN ops : i < j /\ Makes(ops[i], n)

(* The nodes the page has or will have from the batches under way, and     *)
(* those it will have when message i is begun.                             *)
AtHand    == {n \in Allowed : n \in real.nodes \/ \E t \in DOMAIN active : MadeIn(active[t], n)}
HasBy(i)  == {n \in Allowed : n \in AtHand \/ \E h \in DOMAIN toPage : h < i /\ MadeIn(toPage[h].ops, n)}
CountedUp(s) == \E k \in Nat : DOMAIN s = 1..k

DomType ==
    /\ task \in Nat /\ inTask \in BOOLEAN
    /\ CountedUp(created)
    /\ queue \in Seq(Op) /\ toPage \in Seq(Message)
    /\ \A t \in DOMAIN active : t \in Nat /\ active[t] \in Seq(Op) /\ active[t] # <<>>
    /\ "nodes" \in DOMAIN real

(* Nothing names a node the tag has not created.                           *)
NameIn(N, ops) == \A j \in DOMAIN ops : ResolvedIds(ops[j]) \subseteq N
Known ==
    /\ NameIn(MirrorNodes, queue)
    /\ \A i \in DOMAIN toPage : NameIn(MirrorNodes, toPage[i].ops)
    /\ \A t \in DOMAIN active : NameIn(MirrorNodes, active[t])
    /\ \A u \in unknown : u.id \in MirrorNodes

(* Tasks come to the page in their order.                                  *)
Past(last, busy, t) == t < last \/ (~busy /\ t = last)
InTurn ==
    /\ \A i, j \in DOMAIN toPage : i < j => toPage[i].task < toPage[j].task
    /\ \A i \in DOMAIN toPage : \A t \in DOMAIN active : t < toPage[i].task
    /\ \A i \in DOMAIN toPage : Past(task, inTask, toPage[i].task)
    /\ \A t \in DOMAIN active : Past(task, inTask, t)

(* Every allowed node is on the page or on its way, and on its way before  *)
(* its uses.                                                               *)
NoneMissing == \A n \in Allowed : n \in HasBy(Len(toPage) + 1) \/ MadeIn(queue, n)
MessagesBacked ==
    /\ \A i \in DOMAIN toPage : Backed(Allowed, toPage[i].ops, HasBy(i))
    /\ Backed(Allowed, queue, HasBy(Len(toPage) + 1))

(* A batch no other has overlapped is alone, and finds its nodes.          *)
Lone == \A t \in DOMAIN active :
            t \notin overlapped => DOMAIN active = {t} /\ Backed(Allowed, active[t], real.nodes)
Excused == \A u \in unknown : u.id \in Allowed => u.task \in overlapped
InStep  == overlapped = {} => Remaining = inOrder

DomInv == /\ DomType /\ Known /\ InTurn /\ NoneMissing /\ MessagesBacked
          /\ Lone /\ Excused /\ InStep
-----------------------------------------------------------------------------
LEMMA SeqShape ==
    ASSUME NEW S, NEW s \in Seq(S)
    PROVE  /\ Len(s) \in Nat /\ DOMAIN s = 1..Len(s)
           /\ \A i \in DOMAIN s : s[i] \in S
OBVIOUS

LEMMA LastShape ==
    ASSUME NEW S, NEW s \in Seq(S), NEW x \in S
    PROVE  /\ Append(s, x) \in Seq(S)
           /\ Len(Append(s, x)) = Len(s) + 1
           /\ DOMAIN Append(s, x) = 1..(Len(s) + 1)
           /\ \A i \in DOMAIN s : i \in DOMAIN Append(s, x) /\ i <= Len(s)
                                  /\ Append(s, x)[i] = s[i]
           /\ Append(s, x)[Len(s) + 1] = x
           /\ \A i \in DOMAIN Append(s, x) : i \in DOMAIN s \/ i = Len(s) + 1
OBVIOUS

LEMMA TailShape ==
    ASSUME NEW S, NEW s \in Seq(S), s # <<>>
    PROVE  /\ 1 \in DOMAIN s /\ Head(s) = s[1] /\ Head(s) \in S /\ Tail(s) \in Seq(S)
           /\ Len(Tail(s)) + 1 = Len(s)
           /\ \A i \in DOMAIN Tail(s) : i + 1 \in DOMAIN s /\ Tail(s)[i] = s[i + 1]
           /\ \A i \in DOMAIN s : i = 1 \/ (i - 1 \in DOMAIN Tail(s) /\ Tail(s)[i - 1] = s[i])
OBVIOUS

LEMMA Fields ==
    ASSUME NEW op \in Op
    PROVE  /\ op.op \in {"create", "write", "appendChild", "setContent"}
           /\ op.id \in Nat /\ op.id \in ResolvedIds(op)
           /\ op.op = "create" => evaluateOp(op) = op.allow /\ op.allow \in BOOLEAN
BY DEF Op, ResolvedIds, evaluateOp

(* One op on the page forgets no node, and makes the one it creates.       *)
LEMMA Applied ==
    ASSUME NEW page, "nodes" \in DOMAIN page, NEW op \in Op
    PROVE  /\ "nodes" \in DOMAIN applyOne(page, op)
           /\ page.nodes \subseteq applyOne(page, op).nodes
           /\ \A n : Makes(op, n) => n \in applyOne(page, op).nodes
<1>1. /\ op.op \in {"create", "write", "appendChild", "setContent"}
      /\ op.op = "create" => evaluateOp(op) = op.allow /\ op.allow \in BOOLEAN
    BY Fields
<1>2. CASE ~evaluateOp(op) \/ Missing(page, op) # {}
    <2>1. applyOne(page, op) = page
        BY <1>2 DEF applyOne
    <2>2. ASSUME NEW n, Makes(op, n) PROVE FALSE
        BY <1>1, <1>2, <2>2 DEF Makes, Missing
    <2> QED
        BY <2>1, <2>2
<1>3. CASE evaluateOp(op) /\ Missing(page, op) = {} /\ op.op = "create"
    <2>1. applyOne(page, op) = [page EXCEPT !.nodes = @ \cup {op.id}]
        BY <1>3 DEF applyOne
    <2> QED
        BY <2>1 DEF Makes
<1>4. CASE evaluateOp(op) /\ Missing(page, op) = {} /\ op.op # "create"
    <2>1. CASE op.op = "write"
        <3>1. applyOne(page, op) = [page EXCEPT !.written[op.id] = op.value]
            BY <1>4, <2>1 DEF applyOne
        <3> QED
            BY <1>4, <3>1 DEF Makes
    <2>2. CASE op.op = "setContent"
        <3>1. applyOne(page, op) = [page EXCEPT !.children[op.id] = <<>>]
            BY <1>4, <2>2 DEF applyOne
        <3> QED
            BY <1>4, <3>1 DEF Makes
    <2>3. CASE op.op = "appendChild"
        <3>1. \/ applyOne(page, op) = page
              \/ applyOne(page, op) = [page EXCEPT !.children = Moved(@, op)]
            BY <1>4, <2>3 DEF applyOne
        <3> QED
            BY <1>4, <3>1 DEF Makes
    <2> QED
        BY <1>1, <1>4, <2>1, <2>2, <2>3
<1> QED
    BY <1>2, <1>3, <1>4
-----------------------------------------------------------------------------
(* A call is recorded at the end of the queue, and what it creates nothing *)
(* has named.                                                              *)
Recorded(op) ==
    /\ op \in Op
    /\ queue' = Append(queue, op)
    /\ UNCHANGED <<task, inTask, toPage, active, real, inOrder, overlapped, unknown>>
    /\ CountedUp(created')
    /\ MirrorNodes \subseteq MirrorNodes'
    /\ ResolvedIds(op) \subseteq MirrorNodes'
    /\ \A n \in MirrorNodes : n \in Allowed' <=> n \in Allowed
    /\ \A n \in Allowed' : n \in Allowed \/ (Makes(op, n) /\ n \notin MirrorNodes)

LEMMA AllowedKnown == Allowed \subseteq MirrorNodes
BY DEF Allowed, MirrorNodes

(* Ops that were backed stay so.                                           *)
LEMMA StillBacked ==
    ASSUME NEW A, NEW B, NEW ops, NEW N, NEW M, Backed(A, ops, N),
           \A n \in N : n \in A => n \in M,
           \A j \in DOMAIN ops : \A n \in B : Uses(ops[j], n) => n \in A
    PROVE  Backed(B, ops, M)
BY DEF Backed

(* What has been named so far is no node that is created now.              *)
LEMMA OldNames ==
    ASSUME NEW op, Recorded(op), NEW ops, NameIn(MirrorNodes, ops)
    PROVE  \A j \in DOMAIN ops : \A n \in Allowed' : Uses(ops[j], n) => n \in Allowed
BY DEF Recorded, NameIn, Uses

LEMMA RecordedKeeps ==
    ASSUME DomInv, NEW op, Recorded(op)
    PROVE  DomInv'
<1> DEFINE e == Len(toPage) + 1
<1>1. /\ DomType /\ Known /\ InTurn /\ NoneMissing /\ MessagesBacked
      /\ Lone /\ Excused /\ InStep
    BY DEF DomInv
<1>2. /\ task' = task /\ inTask' = inTask /\ toPage' = toPage /\ active' = active
      /\ real' = real /\ inOrder' = inOrder /\ overlapped' = overlapped
      /\ unknown' = unknown /\ op \in Op /\ queue' = Append(queue, op)
    BY DEF Recorded
<1>3. queue \in Seq(Op) /\ toPage \in Seq(Message)
    BY <1>1 DEF DomType
<1>4. /\ queue' \in Seq(Op) /\ DOMAIN queue' = 1..(Len(queue) + 1)
      /\ \A i \in DOMAIN queue : i \in DOMAIN queue' /\ i <= Len(queue) /\ queue'[i] = queue[i]
      /\ queue'[Len(queue) + 1] = op
      /\ \A i \in DOMAIN queue' : i \in DOMAIN queue \/ i = Len(queue) + 1
      /\ Len(queue) \in Nat /\ DOMAIN queue = 1..Len(queue)
    BY <1>2, <1>3, LastShape, SeqShape
<1>5. DomType'
    BY <1>1, <1>2, <1>4 DEF DomType, Recorded
<1>6. MirrorNodes \subseteq MirrorNodes' /\ ResolvedIds(op) \subseteq MirrorNodes'
    BY DEF Recorded
<1>7. \A ops : NameIn(MirrorNodes, ops) => NameIn(MirrorNodes', ops)
    BY <1>6 DEF NameIn
<1>8. Known'
    <2>1. NameIn(MirrorNodes', queue')
        BY <1>1, <1>4, <1>6 DEF Known, NameIn
    <2>2. /\ \A i \in DOMAIN toPage : NameIn(MirrorNodes', toPage[i].ops)
          /\ \A t \in DOMAIN active : NameIn(MirrorNodes', active[t])
        BY <1>1, <1>7 DEF Known
    <2>3. \A u \in unknown : u.id \in MirrorNodes'
        BY <1>1, <1>6 DEF Known
    <2> QED
        BY <1>2, <2>1, <2>2, <2>3 DEF Known, NameIn
<1>9. InTurn'
    BY <1>1, <1>2 DEF InTurn, Past
<1>10. Allowed \subseteq Allowed'
    BY AllowedKnown DEF Recorded
<1>11. AtHand \subseteq AtHand'
    BY <1>2, <1>10 DEF AtHand
<1>12. \A i : HasBy(i) \subseteq HasBy(i)'
    BY <1>2, <1>10, <1>11 DEF HasBy
<1>13. HasBy(e) \subseteq HasBy(e)'
    BY <1>2, <1>10, <1>11 DEF HasBy
<1>14. \A n : MadeIn(queue, n) \/ Makes(op, n) => MadeIn(queue, n)'
    BY <1>4 DEF MadeIn
<1>15. NoneMissing'
    <2>1. ASSUME NEW n \in Allowed' PROVE n \in HasBy(e)' \/ MadeIn(queue, n)'
        <3>1. CASE n \in Allowed
            BY <1>1, <1>13, <1>14, <3>1 DEF NoneMissing
        <3>2. CASE Makes(op, n)
            BY <1>14, <3>2
        <3> QED
            BY <3>1, <3>2 DEF Recorded
    <2> QED
        BY <1>2, <2>1 DEF NoneMissing
<1>16. MessagesBacked'
    <2>1. ASSUME NEW i \in DOMAIN toPage PROVE Backed(Allowed', toPage[i].ops, HasBy(i)')
        <3>1. Backed(Allowed, toPage[i].ops, HasBy(i)) /\ NameIn(MirrorNodes, toPage[i].ops)
            BY <1>1 DEF MessagesBacked, Known
        <3>2. \A j \in DOMAIN toPage[i].ops : \A n \in Allowed' :
                  Uses(toPage[i].ops[j], n) => n \in Allowed
            BY <3>1, OldNames
        <3>3. \A n \in HasBy(i) : n \in Allowed => n \in HasBy(i)'
            BY <1>12
        <3> QED
            BY <3>1, <3>2, <3>3, StillBacked
    <2>2. Backed(Allowed', queue', HasBy(e)')
        <3>1. ASSUME NEW j \in DOMAIN queue', NEW n \in Allowed', Uses(queue'[j], n)
              PROVE  n \in HasBy(e)' \/ \E i \in DOMAIN queue' : i < j /\ Makes(queue'[i], n)
            <4>1. CASE j \in DOMAIN queue
                <5>1. Uses(queue[j], n)
                    BY <1>4, <3>1, <4>1
                <5>2. n \in MirrorNodes
                    BY <1>1, <4>1, <5>1 DEF Known, NameIn, Uses
                <5>3. n \in Allowed
                    BY <5>2 DEF Recorded
                <5>4. n \in HasBy(e) \/ \E i \in DOMAIN queue : i < j /\ Makes(queue[i], n)
                    BY <1>1, <4>1, <5>1, <5>3 DEF MessagesBacked, Backed
                <5> QED
                    BY <1>4, <1>13, <5>4
            <4>2. CASE j = Len(queue) + 1
                <5>1. op.op # "create"
                    BY <1>4, <3>1, <4>2 DEF Uses
                <5>2. n \in Allowed
                    BY <5>1 DEF Recorded, Makes
                <5>3. n \in HasBy(e) \/ \E i \in DOMAIN queue : Makes(queue[i], n)
                    BY <1>1, <5>2 DEF NoneMissing, MadeIn
                <5>4. \A i \in DOMAIN queue : i < j
                    BY <1>4, <4>2
                <5> QED
                    BY <1>4, <1>13, <5>3, <5>4
            <4> QED
                BY <1>4, <4>1, <4>2
        <3> QED
            BY <3>1 DEF Backed
    <2> QED
        BY <1>2, <2>1, <2>2 DEF MessagesBacked
<1>17. Lone'
    <2>1. ASSUME NEW t \in DOMAIN active, t \notin overlapped
          PROVE  DOMAIN active = {t} /\ Backed(Allowed', active[t], real.nodes)
        <3>1. /\ DOMAIN active = {t} /\ Backed(Allowed, active[t], real.nodes)
              /\ NameIn(MirrorNodes, active[t])
            BY <1>1, <2>1 DEF Lone, Known
        <3>2. \A j \in DOMAIN active[t] : \A n \in Allowed' :
                  Uses(active[t][j], n) => n \in Allowed
            BY <3>1, OldNames
        <3>3. Backed(Allowed', active[t], real.nodes)
            BY <3>1, <3>2, StillBacked
        <3> QED
            BY <3>1, <3>3
    <2> QED
        BY <1>2, <2>1 DEF Lone
<1>18. Excused'
    BY <1>1, <1>2 DEF Excused, Known, Recorded
<1>19. InStep'
    <2>1. UnderWay' = UnderWay
        BY <1>2 DEF UnderWay
    <2>2. Remaining' = Remaining
        BY <1>2, <2>1 DEF Remaining
    <2> QED
        BY <1>1, <1>2, <2>2 DEF InStep
<1> QED
    BY <1>5, <1>8, <1>9, <1>15, <1>16, <1>17, <1>18, <1>19 DEF DomInv
-----------------------------------------------------------------------------
LEMMA DomInitial == DomInit => DomInv
<1> SUFFICES ASSUME DomInit PROVE DomInv
    OBVIOUS
<1>1. /\ task = 0 /\ inTask = FALSE /\ created = <<>> /\ queue = <<>> /\ toPage = <<>>
      /\ active = <<>> /\ real = EmptyPage /\ inOrder = EmptyPage
      /\ overlapped = {} /\ unknown = {}
    BY DEF DomInit
<1>2. DOMAIN created = {} /\ DOMAIN queue = {} /\ DOMAIN toPage = {} /\ DOMAIN active = {}
    BY <1>1
<1>3. 1..0 = {}
    OBVIOUS
<1>4. CountedUp(created)
    BY <1>2, <1>3 DEF CountedUp
<1>5. "nodes" \in DOMAIN real
    BY <1>1 DEF EmptyPage
<1>6. DomType
    <2>1. queue \in Seq(Op) /\ toPage \in Seq(Message)
        BY <1>1
    <2>2. task \in Nat /\ inTask \in BOOLEAN
        BY <1>1
    <2>3. \A t \in DOMAIN active : FALSE
        BY <1>2
    <2> QED
        BY <1>4, <1>5, <2>1, <2>2, <2>3 DEF DomType
<1>7. Known /\ InTurn /\ Lone /\ Excused
    BY <1>1, <1>2 DEF Known, NameIn, InTurn, Lone, Excused
<1>8. Allowed = {}
    BY <1>2 DEF Allowed
<1>9. NoneMissing /\ MessagesBacked
    BY <1>2, <1>8 DEF NoneMissing, MessagesBacked, Backed
<1>10. Remaining = inOrder
    <2>1. UnderWay = real
        BY <1>2 DEF UnderWay
    <2>2. Remaining = real
        BY <1>1, <2>1, DeliverNone DEF Remaining
    <2> QED
        BY <1>1, <2>2
<1> QED
    BY <1>6, <1>7, <1>9, <1>10 DEF DomInv, InStep

(* The tag's calls.                                                        *)
LEMMA CreateKeeps ==
    ASSUME DomInv, createNode
    PROVE  DomInv'
<1>1. PICK allow \in BOOLEAN :
         LET id == Cardinality(DOMAIN created) + 1 IN
           /\ created' = [n \in 1..id |-> IF n = id THEN allow ELSE created[n]]
           /\ record([op |-> "create", id |-> id, allow |-> allow])
    BY DEF createNode
<1>2. PICK k \in Nat : DOMAIN created = 1..k
    BY DEF DomInv, DomType, CountedUp
<1>3. Cardinality(1..k) = k
    BY <1>2, FS_Interval
<1> DEFINE id == k + 1
           op == [op |-> "create", id |-> id, allow |-> allow]
<1>4. /\ created' = [n \in 1..id |-> IF n = id THEN allow ELSE created[n]]
      /\ record(op)
    BY <1>1, <1>2, <1>3
<1>5. id \in Nat /\ id \notin 1..k /\ id # 0 /\ 1..id = 1..k \cup {id}
    BY <1>2
<1>6. op \in Op /\ op.op = "create" /\ op.id = id /\ op.allow = allow
    BY <1>5 DEF Op
<1>7. /\ DOMAIN created' = 1..id /\ created'[id] = allow
      /\ \A n \in 1..k : created'[n] = created[n]
    BY <1>4, <1>5
<1> HIDE DEF op, id
<1>8. MirrorNodes' = MirrorNodes \cup {id} /\ id \notin MirrorNodes
    BY <1>2, <1>5, <1>7 DEF MirrorNodes, BODY_ID
<1>9. \A n \in MirrorNodes : n \in Allowed' <=> n \in Allowed
    BY <1>2, <1>5, <1>7 DEF MirrorNodes, BODY_ID, Allowed
<1>10. \A n \in Allowed' : n \in Allowed \/ (Makes(op, n) /\ n \notin MirrorNodes)
    BY <1>2, <1>5, <1>6, <1>7, <1>8 DEF Allowed, Makes
<1>11. ResolvedIds(op) \subseteq MirrorNodes'
    BY <1>6, <1>8 DEF ResolvedIds
<1>12. CountedUp(created')
    BY <1>5, <1>7 DEF CountedUp
<1>13. Recorded(op)
    BY <1>4, <1>6, <1>8, <1>9, <1>10, <1>11, <1>12 DEF Recorded, record
<1> QED
    BY <1>13, RecordedKeeps

LEMMA OtherKeeps ==
    ASSUME DomInv, NEW op \in Op, ResolvedIds(op) \subseteq MirrorNodes, record(op),
           UNCHANGED created
    PROVE  DomInv'
<1>1. CountedUp(created')
    BY DEF DomInv, DomType
<1>2. MirrorNodes' = MirrorNodes /\ Allowed' = Allowed
    BY DEF MirrorNodes, Allowed
<1>3. Recorded(op)
    BY <1>1, <1>2 DEF Recorded, record
<1> QED
    BY <1>3, RecordedKeeps

LEMMA MirrorIds == DomType => MirrorNodes \subseteq Nat
BY DEF DomType, CountedUp, MirrorNodes, BODY_ID

LEMMA AppendKeeps ==
    ASSUME DomInv, appendChild
    PROVE  DomInv'
<1>1. PICK p \in MirrorNodes, c \in DOMAIN created :
         record([op |-> "appendChild", id |-> p, child |-> c]) /\ UNCHANGED created
    BY DEF appendChild
<1> DEFINE op == [op |-> "appendChild", id |-> p, child |-> c]
<1>2. c \in MirrorNodes /\ p \in Nat /\ c \in Nat
    BY MirrorIds DEF MirrorNodes, DomInv
<1>3. op \in Op /\ op.op = "appendChild" /\ op.id = p /\ op.child = c
    BY <1>2 DEF Op
<1>4. record(op)
    BY <1>1
<1> HIDE DEF op
<1>5. ResolvedIds(op) \subseteq MirrorNodes
    BY <1>2, <1>3 DEF ResolvedIds
<1> QED
    BY <1>1, <1>3, <1>4, <1>5, OtherKeeps

LEMMA WriteKeeps ==
    ASSUME DomInv, write
    PROVE  DomInv'
<1>1. PICK n \in MirrorNodes, allow \in BOOLEAN :
         /\ record([op |-> "write", id |-> n, allow |-> allow, value |-> task])
         /\ UNCHANGED created
    BY DEF write
<1> DEFINE op == [op |-> "write", id |-> n, allow |-> allow, value |-> task]
<1>2. n \in Nat /\ task \in Nat
    BY MirrorIds DEF DomInv, DomType
<1>3. op \in Op /\ op.op = "write" /\ op.id = n
    BY <1>2 DEF Op
<1>4. record(op)
    BY <1>1
<1> HIDE DEF op
<1>5. ResolvedIds(op) \subseteq MirrorNodes
    BY <1>3 DEF ResolvedIds
<1> QED
    BY <1>1, <1>3, <1>4, <1>5, OtherKeeps

LEMMA ReplaceKeeps ==
    ASSUME DomInv, replaceContent
    PROVE  DomInv'
<1>1. PICK n \in MirrorNodes :
         record([op |-> "setContent", id |-> n]) /\ UNCHANGED created
    BY DEF replaceContent
<1> DEFINE op == [op |-> "setContent", id |-> n]
<1>2. n \in Nat
    BY MirrorIds DEF DomInv
<1>3. op \in Op /\ op.op = "setContent" /\ op.id = n
    BY <1>2 DEF Op
<1>4. record(op)
    BY <1>1
<1> HIDE DEF op
<1>5. ResolvedIds(op) \subseteq MirrorNodes
    BY <1>3 DEF ResolvedIds
<1> QED
    BY <1>1, <1>3, <1>4, <1>5, OtherKeeps
-----------------------------------------------------------------------------
(* Steps that move no op.                                                  *)
LEMMA SameStep ==
    ASSUME UNCHANGED <<toPage, active, real, inOrder, overlapped>>, InStep
    PROVE  InStep'
<1>1. UnderWay' = UnderWay
    BY DEF UnderWay
<1>2. Remaining' = Remaining
    BY <1>1 DEF Remaining
<1> QED
    BY <1>2 DEF InStep

LEMMA IdleKeeps ==
    ASSUME DomInv, task' \in Nat, inTask' \in BOOLEAN,
           \A t \in Nat : Past(task, inTask, t) => Past(task', inTask', t),
           UNCHANGED <<created, queue, toPage, active, real, inOrder, overlapped, unknown>>
    PROVE  DomInv'
<1>1. /\ DomType /\ Known /\ InTurn /\ NoneMissing /\ MessagesBacked
      /\ Lone /\ Excused /\ InStep
    BY DEF DomInv
<1>2. DomType'
    BY <1>1 DEF DomType
<1>3. MirrorNodes' = MirrorNodes /\ Allowed' = Allowed
    BY DEF MirrorNodes, Allowed
<1>4. Known'
    BY <1>1, <1>3 DEF Known
<1>5. /\ \A i \in DOMAIN toPage : toPage[i].task \in Nat
      /\ \A t \in DOMAIN active : t \in Nat
    <2>1. \A i \in DOMAIN toPage : toPage[i] \in Message
        BY <1>1, SeqShape DEF DomType
    <2> QED
        BY <1>1, <2>1 DEF DomType, Message
<1>6. InTurn'
    <2>1. \A i \in DOMAIN toPage' : Past(task', inTask', toPage'[i].task)
        BY <1>1, <1>5 DEF InTurn
    <2>2. \A t \in DOMAIN active' : Past(task', inTask', t)
        BY <1>1, <1>5 DEF InTurn
    <2> QED
        BY <1>1, <2>1, <2>2 DEF InTurn
<1>7. AtHand' = AtHand
    BY <1>3 DEF AtHand
<1>8. \A i : HasBy(i)' = HasBy(i)
    BY <1>3, <1>7 DEF HasBy
<1>9. HasBy(Len(toPage) + 1)' = HasBy(Len(toPage) + 1)
    BY <1>3, <1>7 DEF HasBy
<1>10. NoneMissing'
    BY <1>1, <1>3, <1>9 DEF NoneMissing
<1>11. MessagesBacked'
    <2>1. \A i \in DOMAIN toPage' : Backed(Allowed', toPage'[i].ops, HasBy(i)')
        BY <1>1, <1>3, <1>8 DEF MessagesBacked
    <2>2. Backed(Allowed', queue', HasBy(Len(toPage) + 1)')
        BY <1>1, <1>3, <1>9 DEF MessagesBacked
    <2> QED
        BY <2>1, <2>2 DEF MessagesBacked
<1>12. Lone' /\ Excused'
    BY <1>1, <1>3 DEF Lone, Excused
<1>13. InStep'
    BY <1>1, SameStep
<1> QED
    BY <1>2, <1>4, <1>6, <1>10, <1>11, <1>12, <1>13 DEF DomInv
-----------------------------------------------------------------------------
LEMMA StartKeeps ==
    ASSUME DomInv, startTask
    PROVE  DomInv'
<1>1. task \in Nat /\ task' = task + 1 /\ ~inTask /\ inTask' = TRUE
    BY DEF startTask, DomInv, DomType
<1>2. \A t \in Nat : Past(task, inTask, t) => Past(task', inTask', t)
    BY <1>1 DEF Past
<1>3. UNCHANGED <<created, queue, toPage, active, real, inOrder, overlapped, unknown>>
    BY DEF startTask
<1>4. task' \in Nat
    BY <1>1
<1>5. inTask' \in BOOLEAN
    BY <1>1
<1> QED
    BY <1>2, <1>3, <1>4, <1>5, IdleKeeps

LEMMA ThrowKeeps ==
    ASSUME DomInv, taskThrows
    PROVE  DomInv'
<1>1. task \in Nat /\ task' = task /\ inTask /\ inTask' = FALSE
    BY DEF taskThrows, DomInv, DomType
<1>2. \A t \in Nat : Past(task, inTask, t) => Past(task', inTask', t)
    BY <1>1 DEF Past
<1>3. UNCHANGED <<created, queue, toPage, active, real, inOrder, overlapped, unknown>>
    BY DEF taskThrows
<1>4. task' \in Nat /\ inTask' \in BOOLEAN
    BY <1>1
<1> QED
    BY <1>2, <1>3, <1>4, IdleKeeps

(* The end of a task: its calls become the last message.                   *)
LEMMA DrainKeeps ==
    ASSUME DomInv, drain
    PROVE  DomInv'
<1> DEFINE e == Len(toPage) + 1
           m == [task |-> task, ops |-> queue]
<1>1. /\ DomType /\ Known /\ InTurn /\ NoneMissing /\ MessagesBacked
      /\ Lone /\ Excused /\ InStep
    BY DEF DomInv
<1>2. /\ inTask /\ inTask' = FALSE /\ queue' = <<>> /\ toPage' = Append(toPage, m)
      /\ inOrder' = ApplyAll(inOrder, queue) /\ task' = task /\ created' = created
      /\ active' = active /\ real' = real /\ overlapped' = overlapped
      /\ unknown' = unknown
    BY DEF drain
<1>3. /\ toPage \in Seq(Message) /\ queue \in Seq(Op) /\ task \in Nat
      /\ m \in Message /\ m.task = task /\ m.ops = queue
    BY <1>1 DEF DomType, Message
<1> HIDE DEF m
<1>4. /\ toPage' \in Seq(Message) /\ Len(toPage') = e /\ DOMAIN toPage' = 1..e
      /\ \A i \in DOMAIN toPage : i \in DOMAIN toPage' /\ i <= Len(toPage)
                                  /\ toPage'[i] = toPage[i]
      /\ toPage'[e] = m
      /\ \A i \in DOMAIN toPage' : i \in DOMAIN toPage \/ i = e
      /\ Len(toPage) \in Nat /\ DOMAIN toPage = 1..Len(toPage)
      /\ \A i \in DOMAIN toPage : toPage[i] \in Message
    BY <1>2, <1>3, LastShape, SeqShape
<1>5. DomType'
    <2>1. queue' \in Seq(Op)
        BY <1>2
    <2> QED
        BY <1>1, <1>2, <1>4, <2>1 DEF DomType
<1>6. MirrorNodes' = MirrorNodes /\ Allowed' = Allowed
    BY <1>2 DEF MirrorNodes, Allowed
<1>7. Known'
    <2>1. NameIn(MirrorNodes', queue')
        BY <1>2 DEF NameIn
    <2>2. \A i \in DOMAIN toPage' : NameIn(MirrorNodes', toPage'[i].ops)
        BY <1>1, <1>3, <1>4, <1>6 DEF Known
    <2> QED
        BY <1>1, <1>2, <1>6, <2>1, <2>2 DEF Known
<1>8. InTurn'
    <2>1. \A i \in DOMAIN toPage : toPage[i].task < task
        BY <1>1, <1>2 DEF InTurn, Past
    <2>2. \A t \in DOMAIN active : t < task
        BY <1>1, <1>2 DEF InTurn, Past
    <2>3. ASSUME NEW i \in DOMAIN toPage', NEW j \in DOMAIN toPage', i < j
          PROVE  toPage'[i].task < toPage'[j].task
        <3>1. i \in DOMAIN toPage
            BY <1>4, <2>3
        <3>2. CASE j \in DOMAIN toPage
            BY <1>1, <1>4, <2>3, <3>1, <3>2 DEF InTurn
        <3>3. CASE j = e
            BY <1>3, <1>4, <2>1, <3>1, <3>3
        <3> QED
            BY <1>4, <3>2, <3>3
    <2>4. ASSUME NEW i \in DOMAIN toPage', NEW t \in DOMAIN active
          PROVE  t < toPage'[i].task
        <3>1. CASE i \in DOMAIN toPage
            BY <1>1, <1>4, <3>1 DEF InTurn
        <3>2. CASE i = e
            BY <1>3, <1>4, <2>2, <3>2
        <3> QED
            BY <1>4, <3>1, <3>2
    <2>5. ASSUME NEW i \in DOMAIN toPage'
          PROVE  Past(task', inTask', toPage'[i].task)
        <3>1. CASE i \in DOMAIN toPage
            BY <1>2, <1>4, <2>1, <3>1 DEF Past
        <3>2. CASE i = e
            BY <1>2, <1>3, <1>4, <3>2 DEF Past
        <3> QED
            BY <1>4, <3>1, <3>2
    <2>6. \A t \in DOMAIN active' : Past(task', inTask', t)
        BY <1>2, <2>2 DEF Past
    <2> QED
        BY <1>2, <2>3, <2>4, <2>5, <2>6 DEF InTurn
<1>9. AtHand' = AtHand
    BY <1>2, <1>6 DEF AtHand
<1>10. ASSUME NEW i \in 1..e
       PROVE  HasBy(i) \subseteq HasBy(i)'
    BY <1>4, <1>6, <1>9 DEF HasBy
<1>11. ASSUME NEW n \in Allowed, n \in HasBy(e) \/ MadeIn(queue, n)
       PROVE  n \in HasBy(Len(toPage) + 1)'
    <2>1. Len(toPage') + 1 = e + 1 /\ \A h \in DOMAIN toPage' : h < e + 1
        BY <1>4
    <2>2. CASE n \in HasBy(e)
        BY <1>4, <1>6, <1>9, <2>1, <2>2 DEF HasBy
    <2>3. CASE MadeIn(queue, n)
        <3>1. e \in DOMAIN toPage' /\ MadeIn(toPage'[e].ops, n)
            BY <1>3, <1>4, <2>3
        <3> QED
            BY <1>4, <1>6, <2>1, <3>1 DEF HasBy
    <2> QED
        BY <1>11, <2>2, <2>3
<1>12. NoneMissing'
    BY <1>1, <1>6, <1>11 DEF NoneMissing
<1>13. MessagesBacked'
    <2>1. ASSUME NEW i \in DOMAIN toPage'
          PROVE  Backed(Allowed', toPage'[i].ops, HasBy(i)')
        <3>1. i \in 1..e /\ \A n \in HasBy(i) : n \in Allowed => n \in HasBy(i)'
            BY <1>4, <1>10
        <3>2. CASE i \in DOMAIN toPage
            <4>1. Backed(Allowed, toPage[i].ops, HasBy(i)) /\ toPage'[i] = toPage[i]
                BY <1>1, <1>4, <3>2 DEF MessagesBacked
            <4> QED
                BY <1>6, <3>1, <4>1, StillBacked
        <3>3. CASE i = e
            <4>1. Backed(Allowed, toPage'[i].ops, HasBy(i))
                BY <1>1, <1>3, <1>4, <3>3 DEF MessagesBacked
            <4> QED
                BY <1>6, <3>1, <4>1, StillBacked
        <3> QED
            BY <1>4, <3>2, <3>3
    <2>2. \A N : Backed(Allowed', queue', N)
        BY <1>2 DEF Backed
    <2> QED
        BY <2>1, <2>2 DEF MessagesBacked
<1>14. Lone' /\ Excused'
    BY <1>1, <1>2, <1>6 DEF Lone, Excused
<1>15. InStep'
    <2>1. UnderWay' = UnderWay
        BY <1>2 DEF UnderWay
    <2>2. Remaining' = Delivered(UnderWay, Append(toPage, m))
        BY <1>2, <2>1 DEF Remaining
    <2>3. Remaining' = ApplyAll(Remaining, queue)
        BY <1>3, <2>2, DeliverLast DEF Remaining
    <2> QED
        BY <1>1, <1>2, <2>3 DEF InStep
<1> QED
    BY <1>5, <1>7, <1>8, <1>12, <1>13, <1>14, <1>15 DEF DomInv
-----------------------------------------------------------------------------
(* One op of a batch.                                                      *)
LEMMA Took ==
    ASSUME DomType, NEW t \in Nat, NEW ops \in Seq(Op), ops # <<>>, applyNext(t, ops)
    PROVE  /\ "nodes" \in DOMAIN real' /\ real.nodes \subseteq real'.nodes
           /\ \A n : Makes(Head(ops), n) => n \in real'.nodes
           /\ \A s \in DOMAIN active' :
                \/ s = t /\ Tail(ops) # <<>> /\ active'[s] = Tail(ops)
                \/ s # t /\ s \in DOMAIN active /\ active'[s] = active[s]
           /\ \A s \in DOMAIN active : s # t => s \in DOMAIN active' /\ active'[s] = active[s]
           /\ Tail(ops) # <<>> => t \in DOMAIN active' /\ active'[t] = Tail(ops)
<1>1. Head(ops) \in Op
    BY TailShape
<1>2. real' = applyOne(real, Head(ops)) /\ "nodes" \in DOMAIN real
    BY DEF applyNext, DomType
<1>3. /\ "nodes" \in DOMAIN real' /\ real.nodes \subseteq real'.nodes
      /\ \A n : Makes(Head(ops), n) => n \in real'.nodes
    BY <1>1, <1>2, Applied
<1> DEFINE on == (DOMAIN active \ {t}) \cup (IF Tail(ops) = <<>> THEN {} ELSE {t})
<1>4. active' = [b \in on |-> IF b = t THEN Tail(ops) ELSE active[b]]
    BY DEF applyNext, AfterOp
<1>5. \A s \in DOMAIN active' :
        \/ s = t /\ Tail(ops) # <<>> /\ active'[s] = Tail(ops)
        \/ s # t /\ s \in DOMAIN active /\ active'[s] = active[s]
    BY <1>4
<1>6. \A s \in DOMAIN active : s # t => s \in DOMAIN active' /\ active'[s] = active[s]
    BY <1>4
<1>7. Tail(ops) # <<>> => t \in DOMAIN active' /\ active'[t] = Tail(ops)
    BY <1>4
<1> QED
    BY <1>3, <1>5, <1>6, <1>7

LEMMA TookTypes ==
    ASSUME DomType, NEW t \in Nat, NEW ops \in Seq(Op), ops # <<>>, applyNext(t, ops),
           NameIn(MirrorNodes, ops), \A s \in DOMAIN active : NameIn(MirrorNodes, active[s])
    PROVE  \A s \in DOMAIN active' :
             /\ s \in Nat /\ active'[s] \in Seq(Op) /\ active'[s] # <<>>
             /\ NameIn(MirrorNodes, active'[s])
<1>1. Tail(ops) \in Seq(Op)
    BY TailShape
<1>2. NameIn(MirrorNodes, Tail(ops))
    <2>1. \A i \in DOMAIN Tail(ops) : i + 1 \in DOMAIN ops /\ Tail(ops)[i] = ops[i + 1]
        BY TailShape
    <2> QED
        BY <2>1 DEF NameIn
<1>3. \A s \in DOMAIN active : s \in Nat /\ active[s] \in Seq(Op) /\ active[s] # <<>>
    BY DEF DomType
<1>4. \A s \in DOMAIN active' :
        \/ s = t /\ Tail(ops) # <<>> /\ active'[s] = Tail(ops)
        \/ s # t /\ s \in DOMAIN active /\ active'[s] = active[s]
    BY Took
<1>5. ASSUME NEW s \in DOMAIN active'
      PROVE  /\ s \in Nat /\ active'[s] \in Seq(Op) /\ active'[s] # <<>>
             /\ NameIn(MirrorNodes, active'[s])
    <2>1. CASE s = t /\ Tail(ops) # <<>> /\ active'[s] = Tail(ops)
        BY <1>1, <1>2, <2>1
    <2>2. CASE s # t /\ s \in DOMAIN active /\ active'[s] = active[s]
        BY <1>3, <2>2
    <2> QED
        BY <1>4, <2>1, <2>2
<1> QED
    BY <1>5

(* No node is lost by it: what the op makes is on the page.                *)
LEMMA TookHas ==
    ASSUME DomType, NEW t \in Nat, NEW ops \in Seq(Op), ops # <<>>, applyNext(t, ops),
           UNCHANGED created, NEW n \in Allowed,
           \/ n \in real.nodes
           \/ MadeIn(ops, n)
           \/ \E s \in DOMAIN active : s # t /\ MadeIn(active[s], n)
    PROVE  n \in AtHand'
<1>1. /\ real.nodes \subseteq real'.nodes
      /\ \A q : Makes(Head(ops), q) => q \in real'.nodes
      /\ \A s \in DOMAIN active : s # t => s \in DOMAIN active' /\ active'[s] = active[s]
      /\ Tail(ops) # <<>> => t \in DOMAIN active' /\ active'[t] = Tail(ops)
    BY Took
<1>2. n \in Allowed'
    BY DEF Allowed
<1>3. CASE n \in real.nodes
    BY <1>1, <1>2, <1>3 DEF AtHand
<1>4. CASE \E s \in DOMAIN active : s # t /\ MadeIn(active[s], n)
    BY <1>1, <1>2, <1>4 DEF AtHand
<1>5. CASE MadeIn(ops, n)
    <2>1. PICK i \in DOMAIN ops : Makes(ops[i], n)
        BY <1>5 DEF MadeIn
    <2>2. Head(ops) = ops[1]
          /\ (i = 1 \/ (i - 1 \in DOMAIN Tail(ops) /\ Tail(ops)[i - 1] = ops[i]))
        BY TailShape
    <2>3. CASE i = 1
        BY <1>1, <1>2, <2>1, <2>2, <2>3 DEF AtHand
    <2>4. CASE i - 1 \in DOMAIN Tail(ops) /\ Tail(ops)[i - 1] = ops[i]
        <3>1. MadeIn(Tail(ops), n)
            BY <2>1, <2>4 DEF MadeIn
        <3>2. Tail(ops) # <<>>
            BY <2>4
        <3> QED
            BY <1>1, <1>2, <3>1, <3>2 DEF AtHand
    <2> QED
        BY <2>2, <2>3, <2>4
<1> QED
    BY <1>3, <1>4, <1>5

(* A batch whose nodes are there finds those of its first op, and the rest *)
(* of it those of its own.                                                 *)
LEMMA TookBacked ==
    ASSUME DomType, NEW t \in Nat, NEW ops \in Seq(Op), ops # <<>>, applyNext(t, ops),
           Backed(Allowed, ops, real.nodes)
    PROVE  /\ Backed(Allowed, Tail(ops), real'.nodes)
           /\ \A n \in Missing(real, Head(ops)) : n \notin Allowed
<1>1. /\ real.nodes \subseteq real'.nodes
      /\ \A q : Makes(Head(ops), q) => q \in real'.nodes
    BY Took
<1>2. /\ 1 \in DOMAIN ops /\ Head(ops) = ops[1]
      /\ \A i \in DOMAIN Tail(ops) : i + 1 \in DOMAIN ops /\ Tail(ops)[i] = ops[i + 1]
      /\ \A i \in DOMAIN ops : i = 1 \/ (i - 1 \in DOMAIN Tail(ops) /\ Tail(ops)[i - 1] = ops[i])
    BY TailShape
<1>3. DOMAIN ops \subseteq Nat \ {0} /\ DOMAIN Tail(ops) \subseteq Nat
    BY SeqShape, TailShape
<1>4. ASSUME NEW j \in DOMAIN Tail(ops), NEW n \in Allowed, Uses(Tail(ops)[j], n)
      PROVE  n \in real'.nodes \/ \E i \in DOMAIN Tail(ops) : i < j /\ Makes(Tail(ops)[i], n)
    <2>1. Uses(ops[j + 1], n) /\ j + 1 \in DOMAIN ops
        BY <1>2, <1>4
    <2>2. n \in real.nodes \/ \E i \in DOMAIN ops : i < j + 1 /\ Makes(ops[i], n)
        BY <2>1 DEF Backed
    <2>3. CASE n \in real.nodes
        BY <1>1, <2>3
    <2>4. ASSUME NEW i \in DOMAIN ops, i < j + 1, Makes(ops[i], n)
          PROVE  n \in real'.nodes \/ \E h \in DOMAIN Tail(ops) : h < j /\ Makes(Tail(ops)[h], n)
        <3>1. CASE i = 1
            BY <1>1, <1>2, <2>4, <3>1
        <3>2. CASE i - 1 \in DOMAIN Tail(ops) /\ Tail(ops)[i - 1] = ops[i]
            <4>1. i - 1 < j
                BY <1>3, <2>4
            <4> QED
                BY <2>4, <3>2, <4>1
        <3> QED
            BY <1>2, <3>1, <3>2
    <2> QED
        BY <2>2, <2>3, <2>4
<1>5. ASSUME NEW n \in Missing(real, Head(ops)), n \in Allowed
      PROVE  FALSE
    <2>1. n \notin real.nodes /\ Uses(ops[1], n)
        BY <1>2, <1>5 DEF Missing, Uses
    <2>2. n \in real.nodes \/ \E i \in DOMAIN ops : i < 1 /\ Makes(ops[i], n)
        BY <1>2, <1>5, <2>1 DEF Backed
    <2> QED
        BY <1>3, <2>1, <2>2
<1> QED
    BY <1>4, <1>5 DEF Backed

LEMMA MissingNamed ==
    ASSUME NEW page, NEW ops \in Seq(Op), ops # <<>>, NameIn(MirrorNodes, ops)
    PROVE  Missing(page, Head(ops)) \subseteq MirrorNodes
<1>1. 1 \in DOMAIN ops /\ Head(ops) = ops[1]
    BY TailShape
<1> QED
    BY <1>1 DEF Missing, NameIn

(* The only batch under way is as far from its end as it was.              *)
LEMMA TookAlone ==
    ASSUME DomType, NEW t \in Nat, NEW ops \in Seq(Op), ops # <<>>, applyNext(t, ops),
           DOMAIN active \subseteq {t}
    PROVE  UnderWay' = ApplyAll(real, ops)
<1>1. /\ \A s \in DOMAIN active' :
           \/ s = t /\ Tail(ops) # <<>> /\ active'[s] = Tail(ops)
           \/ s # t /\ s \in DOMAIN active /\ active'[s] = active[s]
      /\ Tail(ops) # <<>> => t \in DOMAIN active' /\ active'[t] = Tail(ops)
    BY Took
<1>2. real' = applyOne(real, Head(ops))
    BY DEF applyNext
<1>3. ApplyAll(real, ops) = ApplyAll(real', Tail(ops))
    BY <1>2, ApplyHead
<1>4. CASE Tail(ops) = <<>>
    <2>1. DOMAIN active' = {}
        BY <1>1, <1>4
    <2>2. ApplyAll(real', <<>>) = real'
        BY ApplyNone
    <2> QED
        BY <1>3, <1>4, <2>1, <2>2 DEF UnderWay
<1>5. CASE Tail(ops) # <<>>
    <2>1. DOMAIN active' = {t} /\ active'[t] = Tail(ops)
        BY <1>1, <1>5
    <2>2. (CHOOSE s \in {t} : TRUE) = t
        OBVIOUS
    <2> QED
        BY <1>3, <2>1, <2>2 DEF UnderWay
<1> QED
    BY <1>4, <1>5
-----------------------------------------------------------------------------
(* The rest of a batch.                                                    *)
LEMMA ContinueKeeps ==
    ASSUME DomInv, continue
    PROVE  DomInv'
<1> DEFINE e == Len(toPage) + 1
<1>1. /\ DomType /\ Known /\ InTurn /\ NoneMissing /\ MessagesBacked
      /\ Lone /\ Excused /\ InStep
    BY DEF DomInv
<1>2. PICK t \in DOMAIN active : applyNext(t, active[t])
    BY DEF continue
<1> DEFINE ops == active[t]
<1>3. /\ t \in Nat /\ ops \in Seq(Op) /\ ops # <<>> /\ applyNext(t, ops)
      /\ NameIn(MirrorNodes, ops) /\ \A s \in DOMAIN active : NameIn(MirrorNodes, active[s])
    BY <1>1, <1>2 DEF DomType, Known
<1>4. /\ task' = task /\ inTask' = inTask /\ created' = created /\ queue' = queue
      /\ toPage' = toPage /\ inOrder' = inOrder /\ overlapped' = overlapped
    BY DEF continue
<1>5. MirrorNodes' = MirrorNodes /\ Allowed' = Allowed
    BY <1>4 DEF MirrorNodes, Allowed
<1> HIDE DEF ops
<1>6. /\ "nodes" \in DOMAIN real' /\ real.nodes \subseteq real'.nodes
      /\ \A s \in DOMAIN active' :
           \/ s = t /\ Tail(ops) # <<>> /\ active'[s] = Tail(ops)
           \/ s # t /\ s \in DOMAIN active /\ active'[s] = active[s]
    BY <1>1, <1>3, Took
<1>7. \A s \in DOMAIN active' :
        /\ s \in Nat /\ active'[s] \in Seq(Op) /\ active'[s] # <<>>
        /\ NameIn(MirrorNodes, active'[s])
    BY <1>1, <1>3, TookTypes
<1>8. DomType'
    BY <1>1, <1>4, <1>6, <1>7 DEF DomType
<1>9. unknown' = unknown \cup {[task |-> t, id |-> n] : n \in Missing(real, Head(ops))}
    BY <1>3 DEF applyNext
<1>10. \A u \in unknown' :
         u \in unknown \/ (u.task = t /\ u.id \in Missing(real, Head(ops)))
    BY <1>9
<1>11. Missing(real, Head(ops)) \subseteq MirrorNodes
    BY <1>3, MissingNamed
<1>12. Known'
    <2>1. \A u \in unknown' : u.id \in MirrorNodes
        BY <1>1, <1>10, <1>11 DEF Known
    <2>2. /\ NameIn(MirrorNodes, queue)
          /\ \A i \in DOMAIN toPage : NameIn(MirrorNodes, toPage[i].ops)
        BY <1>1 DEF Known
    <2> QED
        BY <1>4, <1>5, <1>7, <2>1, <2>2 DEF Known
<1>13. DOMAIN active' \subseteq DOMAIN active
    BY <1>6
<1>14. InTurn'
    BY <1>1, <1>4, <1>13 DEF InTurn
<1>15. AtHand \subseteq AtHand'
    <2>1. ASSUME NEW n \in AtHand PROVE n \in AtHand'
        <3>1. n \in Allowed /\ (n \in real.nodes \/ \E s \in DOMAIN active : MadeIn(active[s], n))
            BY DEF AtHand
        <3>2. \/ n \in real.nodes
              \/ MadeIn(ops, n)
              \/ \E s \in DOMAIN active : s # t /\ MadeIn(active[s], n)
            BY <3>1 DEF ops
        <3> QED
            BY <1>1, <1>3, <1>4, <3>1, <3>2, TookHas
    <2> QED
        BY <2>1
<1>16. \A i : HasBy(i) \subseteq HasBy(i)'
    BY <1>4, <1>5, <1>15 DEF HasBy
<1>17. HasBy(e) \subseteq HasBy(e)'
    BY <1>4, <1>5, <1>15 DEF HasBy
<1>18. NoneMissing'
    BY <1>1, <1>4, <1>5, <1>17 DEF NoneMissing
<1>19. MessagesBacked'
    <2>1. ASSUME NEW i \in DOMAIN toPage
          PROVE  Backed(Allowed', toPage[i].ops, HasBy(i)')
        <3>1. Backed(Allowed, toPage[i].ops, HasBy(i))
            BY <1>1 DEF MessagesBacked
        <3> QED
            BY <1>5, <1>16, <3>1, StillBacked
    <2>2. Backed(Allowed', queue, HasBy(e)')
        <3>1. Backed(Allowed, queue, HasBy(e))
            BY <1>1 DEF MessagesBacked
        <3> QED
            BY <1>5, <1>17, <3>1, StillBacked
    <2> QED
        BY <1>4, <2>1, <2>2 DEF MessagesBacked
<1>20. ASSUME t \notin overlapped
       PROVE  /\ DOMAIN active = {t} /\ Backed(Allowed, Tail(ops), real'.nodes)
              /\ \A n \in Missing(real, Head(ops)) : n \notin Allowed
    <2>1. DOMAIN active = {t} /\ Backed(Allowed, ops, real.nodes)
        BY <1>1, <1>2, <1>20 DEF Lone, ops
    <2> QED
        BY <1>1, <1>3, <2>1, TookBacked
<1>21. Lone'
    <2>1. ASSUME NEW s \in DOMAIN active', s \notin overlapped
          PROVE  DOMAIN active' = {s} /\ Backed(Allowed, active'[s], real'.nodes)
        <3>1. s \in DOMAIN active
            BY <1>13
        <3>2. DOMAIN active = {s}
            BY <1>1, <2>1, <3>1 DEF Lone
        <3>3. s = t
            BY <1>2, <3>2
        <3>4. active'[s] = Tail(ops)
            BY <1>6, <3>3
        <3> QED
            BY <1>13, <1>20, <2>1, <3>2, <3>3, <3>4
    <2> QED
        BY <1>4, <1>5, <2>1 DEF Lone
<1>22. Excused'
    <2>1. ASSUME NEW u \in unknown', u.id \in Allowed PROVE u.task \in overlapped
        BY <1>1, <1>10, <1>20, <2>1 DEF Excused
    <2> QED
        BY <1>4, <1>5, <2>1 DEF Excused
<1>23. InStep'
    <2>1. ASSUME overlapped = {} PROVE Remaining' = inOrder
        <3>1. DOMAIN active = {t}
            BY <1>20, <2>1
        <3>2. (CHOOSE s \in {t} : TRUE) = t
            OBVIOUS
        <3>3. UnderWay = ApplyAll(real, ops)
            BY <3>1, <3>2 DEF UnderWay, ops
        <3>4. UnderWay' = ApplyAll(real, ops)
            BY <1>1, <1>3, <3>1, TookAlone
        <3>5. Remaining' = Remaining
            BY <1>4, <3>3, <3>4 DEF Remaining
        <3> QED
            BY <1>1, <2>1, <3>5 DEF InStep
    <2> QED
        BY <1>4, <2>1 DEF InStep
<1> QED
    BY <1>8, <1>12, <1>14, <1>18, <1>19, <1>21, <1>22, <1>23 DEF DomInv
-----------------------------------------------------------------------------
(* A message begun: what follows it on the page does not depend on how far *)
(* its batch gets in this step.                                            *)
LEMMA BegunKeeps ==
    ASSUME DomInv, toPage # <<>>, toPage' = Tail(toPage),
           UNCHANGED <<task, inTask, created, queue, inOrder>>,
           DomType', \A s \in DOMAIN active' : NameIn(MirrorNodes, active'[s]),
           \A u \in unknown' : u.id \in MirrorNodes,
           DOMAIN active' \subseteq DOMAIN active \cup {Head(toPage).task},
           \A n \in Allowed : n \in AtHand \/ MadeIn(Head(toPage).ops, n) => n \in AtHand'
    PROVE  Known' /\ InTurn' /\ NoneMissing' /\ MessagesBacked'
<1> DEFINE m == Head(toPage)
           e == Len(toPage) + 1
<1>1. DomType /\ Known /\ InTurn /\ NoneMissing /\ MessagesBacked
    BY DEF DomInv
<1>2. MirrorNodes' = MirrorNodes /\ Allowed' = Allowed
    BY DEF MirrorNodes, Allowed
<1>3. toPage \in Seq(Message)
    BY <1>1 DEF DomType
<1>4. /\ 1 \in DOMAIN toPage /\ m = toPage[1] /\ Len(toPage') + 1 = Len(toPage)
      /\ \A i \in DOMAIN toPage' : i + 1 \in DOMAIN toPage /\ toPage'[i] = toPage[i + 1]
      /\ \A i \in DOMAIN toPage : i = 1 \/ (i - 1 \in DOMAIN toPage' /\ toPage'[i - 1] = toPage[i])
    BY <1>3, TailShape
<1>5. /\ Len(toPage) \in Nat /\ DOMAIN toPage = 1..Len(toPage)
      /\ \A i \in DOMAIN toPage : toPage[i] \in Message
      /\ toPage' \in Seq(Message)
    BY <1>3, TailShape, SeqShape
<1>6. Len(toPage') \in Nat /\ DOMAIN toPage' = 1..Len(toPage')
    BY <1>5, SeqShape
<1> HIDE DEF m
<1>7. Known'
    <2>1. \A i \in DOMAIN toPage' : NameIn(MirrorNodes, toPage'[i].ops)
        BY <1>1, <1>4 DEF Known
    <2>2. NameIn(MirrorNodes, queue)
        BY <1>1 DEF Known
    <2> QED
        BY <1>2, <2>1, <2>2 DEF Known
<1>8. InTurn'
    <2>1. ASSUME NEW i \in DOMAIN toPage', NEW j \in DOMAIN toPage', i < j
          PROVE  toPage'[i].task < toPage'[j].task
        <3>1. i + 1 \in DOMAIN toPage /\ j + 1 \in DOMAIN toPage /\ i + 1 < j + 1
            BY <1>4, <1>6, <2>1
        <3>2. toPage[i + 1].task < toPage[j + 1].task
            BY <1>1, <3>1 DEF InTurn
        <3> QED
            BY <1>4, <3>2
    <2>2. ASSUME NEW i \in DOMAIN toPage', NEW s \in DOMAIN active'
          PROVE  s < toPage'[i].task
        <3>1. i + 1 \in DOMAIN toPage /\ 1 < i + 1 /\ toPage'[i] = toPage[i + 1]
            BY <1>4, <1>6
        <3>2. CASE s \in DOMAIN active
            BY <1>1, <3>1, <3>2 DEF InTurn
        <3>3. CASE s = m.task
            BY <1>1, <1>4, <3>1, <3>3 DEF InTurn
        <3> QED
            BY <3>2, <3>3 DEF m
    <2>3. \A i \in DOMAIN toPage' : Past(task, inTask, toPage'[i].task)
        BY <1>1, <1>4 DEF InTurn
    <2>4. ASSUME NEW s \in DOMAIN active'
          PROVE  Past(task, inTask, s)
        <3>1. CASE s \in DOMAIN active
            BY <1>1, <3>1 DEF InTurn
        <3>2. CASE s = m.task
            BY <1>1, <1>4, <3>2 DEF InTurn
        <3> QED
            BY <3>1, <3>2 DEF m
    <2> QED
        BY <2>1, <2>2, <2>3, <2>4 DEF InTurn
<1>9. ASSUME NEW i \in Nat, NEW n \in HasBy(i + 1)
      PROVE  n \in AtHand' \/ \E h \in DOMAIN toPage' : h < i /\ MadeIn(toPage'[h].ops, n)
    <2>1. /\ n \in Allowed
          /\ n \in AtHand \/ \E h \in DOMAIN toPage : h < i + 1 /\ MadeIn(toPage[h].ops, n)
        BY DEF HasBy
    <2>2. CASE n \in AtHand
        BY <2>1, <2>2
    <2>3. ASSUME NEW h \in DOMAIN toPage, h < i + 1, MadeIn(toPage[h].ops, n)
          PROVE  n \in AtHand' \/ \E g \in DOMAIN toPage' : g < i /\ MadeIn(toPage'[g].ops, n)
        <3>1. CASE h = 1
            BY <1>4, <2>1, <2>3, <3>1 DEF m
        <3>2. CASE h - 1 \in DOMAIN toPage' /\ toPage'[h - 1] = toPage[h]
            <4>1. h - 1 < i
                BY <1>5, <2>3
            <4>2. MadeIn(toPage'[h - 1].ops, n)
                BY <2>3, <3>2
            <4> QED
                BY <3>2, <4>1, <4>2
        <3> QED
            BY <1>4, <3>1, <3>2
    <2> QED
        BY <2>1, <2>2, <2>3
<1>10. \A i \in Nat : \A n \in HasBy(i + 1) : n \in HasBy(i)'
    BY <1>2, <1>9 DEF HasBy
<1>11. ASSUME NEW n \in HasBy(Len(toPage) + 1)
       PROVE  n \in HasBy(Len(toPage) + 1)'
    <2>1. /\ n \in Allowed'
          /\ \/ n \in AtHand'
             \/ \E h \in DOMAIN toPage' : h < Len(toPage) /\ MadeIn(toPage'[h].ops, n)
        BY <1>2, <1>5, <1>9 DEF HasBy
    <2>2. Len(toPage') + 1 = Len(toPage)
        BY <1>4
    <2> QED
        BY <2>1, <2>2 DEF HasBy
<1>12. NoneMissing'
    BY <1>1, <1>2, <1>11 DEF NoneMissing
<1>13. MessagesBacked'
    <2>1. ASSUME NEW i \in DOMAIN toPage'
          PROVE  Backed(Allowed', toPage'[i].ops, HasBy(i)')
        <3>1. i \in Nat /\ toPage'[i] = toPage[i + 1] /\ i + 1 \in DOMAIN toPage
            BY <1>4, <1>6
        <3>2. Backed(Allowed, toPage[i + 1].ops, HasBy(i + 1))
            BY <1>1, <3>1 DEF MessagesBacked
        <3>3. \A n \in HasBy(i + 1) : n \in Allowed => n \in HasBy(i)'
            BY <1>10, <3>1
        <3>4. Backed(Allowed, toPage'[i].ops, HasBy(i)')
            BY <3>1, <3>2, <3>3, StillBacked
        <3> QED
            BY <1>2, <3>4
    <2>2. Backed(Allowed', queue, HasBy(Len(toPage) + 1)')
        <3>1. Backed(Allowed, queue, HasBy(Len(toPage) + 1))
            BY <1>1 DEF MessagesBacked
        <3>2. \A n \in HasBy(Len(toPage) + 1) : n \in Allowed => n \in HasBy(Len(toPage) + 1)'
            BY <1>11
        <3> QED
            BY <1>2, <3>1, <3>2, StillBacked
    <2> QED
        BY <2>1, <2>2 DEF MessagesBacked
<1> QED
    BY <1>7, <1>8, <1>12, <1>13

(* A message without a mutation: the tag had nothing to say.               *)
LEMMA EmptyMessageKeeps ==
    ASSUME DomInv, toPage # <<>>, toPage' = Tail(toPage), Head(toPage).ops = <<>>,
           UNCHANGED <<task, inTask, created, queue, inOrder, real, unknown, active,
                       overlapped>>
    PROVE  DomInv'
<1>1. /\ DomType /\ Known /\ InTurn /\ NoneMissing /\ MessagesBacked
      /\ Lone /\ Excused /\ InStep
    BY DEF DomInv
<1>2. MirrorNodes' = MirrorNodes /\ Allowed' = Allowed
    BY DEF MirrorNodes, Allowed
<1>3. toPage \in Seq(Message) /\ toPage' \in Seq(Message)
    BY <1>1, TailShape DEF DomType
<1>4. DomType'
    BY <1>1, <1>3 DEF DomType
<1>5. AtHand' = AtHand
    BY <1>2 DEF AtHand
<1>6. \A n : ~MadeIn(Head(toPage).ops, n)
    BY DEF MadeIn
<1>7. Known' /\ InTurn' /\ NoneMissing' /\ MessagesBacked'
    <2>1. /\ \A s \in DOMAIN active' : NameIn(MirrorNodes, active'[s])
          /\ \A u \in unknown' : u.id \in MirrorNodes
        BY <1>1 DEF Known
    <2> QED
        BY <1>4, <1>5, <1>6, <2>1, BegunKeeps
<1>8. Lone' /\ Excused'
    BY <1>1, <1>2 DEF Lone, Excused
<1>9. InStep'
    <2>1. UnderWay' = UnderWay
        BY DEF UnderWay
    <2>2. Remaining = Delivered(ApplyAll(UnderWay, <<>>), Tail(toPage))
        BY <1>3, DeliverHead DEF Remaining
    <2>3. Remaining' = Remaining
        BY <2>1, <2>2, ApplyNone DEF Remaining
    <2> QED
        BY <1>1, <2>3 DEF InStep
<1> QED
    BY <1>4, <1>7, <1>8, <1>9 DEF DomInv

(* A message with some: its first op.                                      *)
LEMMA FirstOpKeeps ==
    ASSUME DomInv, toPage # <<>>, toPage' = Tail(toPage), Head(toPage).ops # <<>>,
           applyNext(Head(toPage).task, Head(toPage).ops),
           overlapped' = overlapped \cup
             (IF DOMAIN active = {} THEN {} ELSE DOMAIN active \cup {Head(toPage).task}),
           UNCHANGED <<task, inTask, created, queue, inOrder>>
    PROVE  DomInv'
<1> DEFINE t   == Head(toPage).task
           ops == Head(toPage).ops
<1>1. /\ DomType /\ Known /\ InTurn /\ NoneMissing /\ MessagesBacked
      /\ Lone /\ Excused /\ InStep
    BY DEF DomInv
<1>2. MirrorNodes' = MirrorNodes /\ Allowed' = Allowed
    BY DEF MirrorNodes, Allowed
<1>3. /\ toPage \in Seq(Message) /\ toPage' \in Seq(Message)
      /\ 1 \in DOMAIN toPage /\ Head(toPage) = toPage[1] /\ Head(toPage) \in Message
    BY <1>1, TailShape DEF DomType
<1>4. /\ t \in Nat /\ ops \in Seq(Op) /\ ops # <<>> /\ applyNext(t, ops)
      /\ NameIn(MirrorNodes, ops) /\ \A s \in DOMAIN active : NameIn(MirrorNodes, active[s])
      /\ Backed(Allowed, ops, HasBy(1))
    BY <1>1, <1>3 DEF Message, Known, MessagesBacked
<1>5. t \notin DOMAIN active
    <2>1. \A s \in DOMAIN active : s < t
        BY <1>1, <1>3 DEF InTurn
    <2> QED
        BY <1>4, <2>1
<1> HIDE DEF t, ops
<1>6. /\ "nodes" \in DOMAIN real' /\ real.nodes \subseteq real'.nodes
      /\ \A s \in DOMAIN active' :
           \/ s = t /\ Tail(ops) # <<>> /\ active'[s] = Tail(ops)
           \/ s # t /\ s \in DOMAIN active /\ active'[s] = active[s]
    BY <1>1, <1>4, Took
<1>7. \A s \in DOMAIN active' :
        /\ s \in Nat /\ active'[s] \in Seq(Op) /\ active'[s] # <<>>
        /\ NameIn(MirrorNodes, active'[s])
    BY <1>1, <1>4, TookTypes
<1>8. DomType'
    BY <1>1, <1>3, <1>6, <1>7 DEF DomType
<1>9. unknown' = unknown \cup {[task |-> t, id |-> n] : n \in Missing(real, Head(ops))}
    BY <1>4 DEF applyNext
<1>10. \A u \in unknown' :
         u \in unknown \/ (u.task = t /\ u.id \in Missing(real, Head(ops)))
    BY <1>9
<1>11. \A u \in unknown' : u.id \in MirrorNodes
    <2>1. Missing(real, Head(ops)) \subseteq MirrorNodes
        BY <1>4, MissingNamed
    <2> QED
        BY <1>1, <1>10, <2>1 DEF Known
<1>12. DOMAIN active' \subseteq DOMAIN active \cup {t}
    BY <1>6
<1>13. ASSUME NEW n \in Allowed, n \in AtHand \/ MadeIn(ops, n)
       PROVE  n \in AtHand'
    <2>1. \/ n \in real.nodes
          \/ MadeIn(ops, n)
          \/ \E s \in DOMAIN active : s # t /\ MadeIn(active[s], n)
        BY <1>5, <1>13 DEF AtHand
    <2> QED
        BY <1>1, <1>4, <2>1, TookHas
<1>14. Known' /\ InTurn' /\ NoneMissing' /\ MessagesBacked'
    BY <1>7, <1>8, <1>11, <1>12, <1>13, BegunKeeps DEF t, ops
<1>15. ASSUME DOMAIN active = {}
       PROVE  /\ DOMAIN active' \subseteq {t}
              /\ Backed(Allowed, Tail(ops), real'.nodes)
              /\ \A n \in Missing(real, Head(ops)) : n \notin Allowed
    <2>1. \A n \in HasBy(1) : n \in real.nodes
        <3>1. \A h \in DOMAIN toPage : ~(h < 1)
            BY <1>3, SeqShape
        <3> QED
            BY <1>15, <3>1 DEF HasBy, AtHand
    <2>2. Backed(Allowed, ops, real.nodes)
        BY <1>4, <2>1, StillBacked
    <2> QED
        BY <1>1, <1>4, <1>12, <1>15, <2>2, TookBacked
<1>16. overlapped \subseteq overlapped'
    OBVIOUS
<1>17. DOMAIN active # {} => DOMAIN active \cup {t} \subseteq overlapped'
    BY DEF t
<1>18. Lone'
    <2>1. ASSUME NEW s \in DOMAIN active', s \notin overlapped'
          PROVE  DOMAIN active' = {s} /\ Backed(Allowed, active'[s], real'.nodes)
        <3>1. DOMAIN active = {}
            BY <1>12, <1>17, <2>1
        <3>2. s = t /\ active'[s] = Tail(ops)
            BY <1>6, <3>1
        <3> QED
            BY <1>15, <3>1, <3>2
    <2> QED
        BY <1>2, <2>1 DEF Lone
<1>19. Excused'
    <2>1. ASSUME NEW u \in unknown', u.id \in Allowed PROVE u.task \in overlapped'
        <3>1. CASE u \in unknown
            BY <1>1, <1>16, <2>1, <3>1 DEF Excused
        <3>2. CASE u.task = t /\ u.id \in Missing(real, Head(ops))
            BY <1>15, <1>17, <2>1, <3>2
        <3> QED
            BY <1>10, <3>1, <3>2
    <2> QED
        BY <1>2, <2>1 DEF Excused
<1>20. InStep'
    <2>1. ASSUME overlapped' = {} PROVE Remaining' = inOrder
        <3>1. DOMAIN active = {}
            BY <1>17, <2>1
        <3>2. UnderWay = real
            BY <3>1 DEF UnderWay
        <3>3. UnderWay' = ApplyAll(real, ops)
            BY <1>1, <1>4, <3>1, TookAlone
        <3>4. Remaining = Delivered(ApplyAll(UnderWay, Head(toPage).ops), Tail(toPage))
            BY <1>3, DeliverHead DEF Remaining
        <3>5. Remaining' = Remaining
            BY <3>2, <3>3, <3>4 DEF Remaining, ops
        <3>6. overlapped = {}
            BY <1>16, <2>1
        <3> QED
            BY <1>1, <3>5, <3>6 DEF InStep
    <2> QED
        BY <2>1 DEF InStep
<1> QED
    BY <1>8, <1>14, <1>18, <1>19, <1>20 DEF DomInv

LEMMA ReceiveKeeps ==
    ASSUME DomInv, receive
    PROVE  DomInv'
<1>1. /\ toPage # <<>> /\ toPage' = Tail(toPage)
      /\ UNCHANGED <<task, inTask, created, queue, inOrder>>
    BY DEF receive
<1>2. CASE Head(toPage).ops = <<>>
    BY <1>1, <1>2, EmptyMessageKeeps DEF receive
<1>3. CASE Head(toPage).ops # <<>>
    BY <1>1, <1>3, FirstOpKeeps DEF receive
<1> QED
    BY <1>2, <1>3

LEMMA StillKeeps ==
    ASSUME DomInv, UNCHANGED domVars
    PROVE  DomInv'
<1>1. \A t \in Nat : Past(task, inTask, t) => Past(task', inTask', t)
    BY DEF domVars
<1>2. task' \in Nat
    BY DEF DomInv, DomType, domVars
<1>3. inTask' \in BOOLEAN
    BY DEF DomInv, DomType, domVars
<1> QED
    BY <1>1, <1>2, <1>3, IdleKeeps DEF domVars

LEMMA DomInvImplies == DomInv => BatchesInOrder
<1> SUFFICES ASSUME DomInv PROVE BatchesInOrder
    OBVIOUS
<1>1. overlapped = {} => Remaining = inOrder
    BY DEF DomInv, InStep
<1>2. ASSUME NEW u \in unknown, u.id \in DOMAIN created, created[u.id]
      PROVE  u.task \in overlapped
    BY <1>2 DEF DomInv, Excused, Allowed
<1> QED
    BY <1>1, <1>2 DEF BatchesInOrder

(* The page becomes what the tag's calls make of it in their order, one    *)
(* message after the other, as long as no two batches overlap, whatever    *)
(* slices they are applied in; and an op is refused for a node the policy  *)
(* let the tag create only in a batch that overlapped another (applyOps(), *)
(* chunk() and the mirror's drainMutations()).                             *)
THEOREM BatchesAreInOrder == DomSpec => []BatchesInOrder
<1>1. DomInit => DomInv
    BY DomInitial
<1>2. DomInv /\ [DomNext]_domVars => DomInv'
    <2> SUFFICES ASSUME DomInv, [DomNext]_domVars PROVE DomInv'
        OBVIOUS
    <2>1. CASE startTask
        BY <2>1, StartKeeps
    <2>2. CASE createNode
        BY <2>2, CreateKeeps
    <2>3. CASE appendChild
        BY <2>3, AppendKeeps
    <2>4. CASE write
        BY <2>4, WriteKeeps
    <2>5. CASE replaceContent
        BY <2>5, ReplaceKeeps
    <2>6. CASE drain
        BY <2>6, DrainKeeps
    <2>7. CASE taskThrows
        BY <2>7, ThrowKeeps
    <2>8. CASE receive
        BY <2>8, ReceiveKeeps
    <2>9. CASE continue
        BY <2>9, ContinueKeeps
    <2>10. CASE UNCHANGED domVars
        BY <2>10, StillKeeps
    <2> QED
        BY <2>1, <2>2, <2>3, <2>4, <2>5, <2>6, <2>7, <2>8, <2>9, <2>10 DEF DomNext
<1>3. DomInv => BatchesInOrder
    BY DomInvImplies
<1> QED
    BY <1>1, <1>2, <1>3, PTL DEF DomSpec
=============================================================================
