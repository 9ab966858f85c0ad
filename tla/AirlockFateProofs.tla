------------------------- MODULE AirlockFateProofs -------------------------
(***************************************************************************)
(* The fate of every beacon-to-be of Airlock, proved for every value of    *)
(* its constants: it is in one place at a time, is fetched at most once,   *)
(* is never lost while the chamber is up, leaves only as the consent gate  *)
(* AirlockSeal allows, and on the worker path in the order of the pushes.  *)
(*                                                                         *)
(* Each queue, loop and history variable is a place that holds keys. The   *)
(* first invariant says that no two places share a key, and that within a  *)
(* place what its reader takes one by one does not overlap either: every   *)
(* action moves a set of keys from one place to another, loses some, or    *)
(* brings in new ones. The second lines the places of the worker path up   *)
(* and says that the numbers of the events are in order along the line.    *)
(***************************************************************************)
EXTENDS AirlockProofs, AirlockSeal, FiniteSetTheorems

(* A sequence of key sets: what is in it, and that nothing is in it twice. *)
Total(F)  == UNION {F[i] : i \in DOMAIN F}
Spread(F) == \A i, j \in DOMAIN F : i # j => F[i] \cap F[j] = {}

EachEvent(s)   == [i \in DOMAIN s |-> KeysOf(s[i])]
EachRequest(s) == [i \in DOMAIN s |-> {KeyOf(s[i])}]
EachBatch(s)   == [i \in DOMAIN s |-> DescriptorKeys(s[i])]
EachReply(s)   == [i \in DOMAIN s |-> MessageKeys(s[i])]
EachBundle(s)  == [i \in DOMAIN s |-> s[i].keys]

JobKeys == IF job = NoJob THEN {}
           ELSE DescriptorKeys(job.todo) \cup MessageKeys(job)

Places == {"ring", "sync", "inbox", "job", "outbox", "ready", "groups", "flush",
           "held", "sent", "reported"}

Placement ==
    [ring   |-> DescriptorKeys(ring),
     sync   |-> SyncKeys,
     inbox  |-> Total(EachBatch(inbox)),
     job    |-> JobKeys,
     outbox |-> Total(EachReply(outbox)),
     ready  |-> RequestKeys(readyTodo),
     groups |-> Total(EachBundle(groups)),
     flush  |-> RequestKeys(flushTodo),
     held   |-> Held,
     sent   |-> Total(EachBundle(egressed)),
     reported |-> reported]

Separate(K) == \A p, q \in Places : p # q => K[p] \cap K[q] = {}
Anywhere(K) == UNION {K[p] : p \in Places}

Tidy(m) == /\ Spread(EachRequest(m.ready))
           /\ RequestKeys(m.ready) \cap DescriptorKeys(m.dropped) = {}

MainTidy == /\ Spread(EachEvent(ring)) /\ Spread(EachEvent(syncTodo))
            /\ Spread(EachRequest(readyTodo)) /\ Spread(EachBundle(groups))
            /\ Spread(EachRequest(heldBeacons)) /\ Spread(EachRequest(flushTodo))

ChamberTidy ==
    /\ Spread(EachBatch(inbox))
    /\ \A i \in DOMAIN inbox : Spread(EachEvent(inbox[i]))
    /\ job # NoJob =>
          /\ Spread(EachEvent(job.todo)) /\ Tidy(job)
          /\ DescriptorKeys(job.todo) \cap MessageKeys(job) = {}
    /\ Spread(EachReply(outbox))
    /\ \A i \in DOMAIN outbox : Tidy(outbox[i])

SentTidy == Spread(EachBundle(egressed))

(* An event to come has a number that no key bears yet.                    *)
Fresh == \A k \in Anywhere(Placement) : k[1] \in -pushedCritical..(seq - 1)

(* Only a gate that is open lets the loop go past a request of an event.   *)
Gated == tracker = 1 \/ criticalGate

FateInv == /\ Separate(Placement) /\ MainTidy /\ ChamberTidy /\ SentTidy
           /\ Fresh /\ Gated
-----------------------------------------------------------------------------
(* s is what a and b make one after the other.                             *)
Joins(s, a, b) ==
    \E n, m \in Nat :
        /\ DOMAIN a = 1..n /\ DOMAIN b = 1..m /\ DOMAIN s = 1..(n + m)
        /\ \A i \in 1..n : s[i] = a[i]
        /\ \A i \in 1..m : s[n + i] = b[i]

LEMMA JoinAppend ==
    ASSUME NEW T, NEW s \in Seq(T), NEW e
    PROVE  Joins(Append(s, e), s, <<e>>)
<1> DEFINE n == Len(s)
           U == T \cup {e}
<1>1. n \in Nat /\ DOMAIN s = 1..n
    BY LenProperties
<1>2. /\ Append(s, e) \in Seq(U) /\ Len(Append(s, e)) = n + 1
      /\ \A i \in 1..n : Append(s, e)[i] = s[i]
      /\ Append(s, e)[n + 1] = e
    <2>1. \A i \in 1..n : s[i] \in U
        BY ElementOfSeq
    <2>2. s \in [1..n -> U]
        BY <1>1, <2>1, LenProperties
    <2>3. s \in Seq(U) /\ e \in U
        BY <1>1, <2>2, FunctionIsSeq
    <2> HIDE DEF U
    <2> QED
        BY <2>3, AppendProperties
<1>3. DOMAIN Append(s, e) = 1..(n + 1)
    BY <1>2, LenProperties
<1>4. 1 \in Nat /\ DOMAIN <<e>> = 1..1 /\ \A i \in 1..1 : Append(s, e)[n + i] = <<e>>[i]
    BY <1>2
<1> QED
    BY <1>1, <1>2, <1>3, <1>4 DEF Joins

LEMMA JoinHead ==
    ASSUME NEW T, NEW s \in Seq(T), s # <<>>
    PROVE  Joins(s, <<Head(s)>>, Tail(s))
<1> DEFINE m == Len(s) - 1
<1>1. Len(s) \in Nat /\ Len(s) # 0 /\ DOMAIN s = 1..Len(s)
    BY LenProperties, EmptySeq
<1>2. /\ Head(s) = s[1] /\ Tail(s) \in Seq(T) /\ Len(Tail(s)) = m
      /\ \A i \in 1..m : Tail(s)[i] = s[i + 1]
    BY HeadTailProperties
<1>3. m \in Nat /\ DOMAIN s = 1..(1 + m) /\ DOMAIN Tail(s) = 1..m
    BY <1>1, <1>2, LenProperties
<1>4. 1 \in Nat /\ DOMAIN <<Head(s)>> = 1..1 /\ \A i \in 1..1 : s[i] = <<Head(s)>>[i]
    BY <1>2
<1>5. \A i \in 1..m : s[1 + i] = Tail(s)[i]
    BY <1>2, <1>3
<1> QED
    BY <1>3, <1>4, <1>5 DEF Joins

LEMMA JoinConcat ==
    ASSUME NEW T, NEW s \in Seq(T), NEW t \in Seq(T)
    PROVE  Joins(s \o t, s, t)
<1> DEFINE n == Len(s)
           m == Len(t)
<1>1. n \in Nat /\ DOMAIN s = 1..n /\ m \in Nat /\ DOMAIN t = 1..m
    BY LenProperties
<1>2. /\ s \o t \in Seq(T) /\ Len(s \o t) = n + m
      /\ \A i \in 1..(n + m) : (s \o t)[i] = IF i <= n THEN s[i] ELSE t[i - n]
    BY ConcatProperties
<1>3. DOMAIN (s \o t) = 1..(n + m)
    BY <1>2, LenProperties
<1>4. \A i \in 1..n : (s \o t)[i] = s[i]
    BY <1>1, <1>2
<1>5. ASSUME NEW i \in 1..m PROVE (s \o t)[n + i] = t[i]
    <2>1. n + i \in 1..(n + m) /\ ~(n + i <= n) /\ n + i - n = i
        BY <1>1
    <2> QED
        BY <1>2, <2>1
<1> QED
    BY <1>1, <1>3, <1>4, <1>5 DEF Joins

LEMMA JoinChunks ==
    ASSUME ring \in Seq(Descriptor)
    PROVE  Joins(ring, ThisChunk, NextChunks)
<1> DEFINE n == Len(ring)
           c == FirstChunk
           m == n - c
<1>1. n \in Nat /\ DOMAIN ring = 1..n
    BY LenProperties
<1>2. /\ c \in 0..n /\ ThisChunk \in Seq(Descriptor)
      /\ NextChunks \in Seq(Descriptor)
    BY ChunkTypes
<1>3. c \in Nat /\ m \in Nat /\ c + m = n
    BY <1>1, <1>2
<1>4. \A i \in 1..n : ring[i] \in Descriptor
    BY ElementOfSeq
<1>5. Len(ThisChunk) = c /\ \A i \in 1..c : ThisChunk[i] = ring[i]
    <2>1. \A i \in 1..c : ring[i] \in Descriptor
        BY <1>1, <1>2, <1>4
    <2>2. /\ Len(ThisChunk) = IF 1 <= c THEN c - 1 + 1 ELSE 0
          /\ \A i \in 1..(c - 1 + 1) : ThisChunk[i] = ring[1 + i - 1]
        BY <1>3, <2>1, SubSeqProperties DEF ThisChunk
    <2> QED
        BY <1>3, <2>2
<1>6. Len(NextChunks) = m /\ \A i \in 1..m : NextChunks[i] = ring[c + i]
    <2>1. \A i \in (c + 1)..n : ring[i] \in Descriptor
        BY <1>1, <1>3, <1>4
    <2>2. /\ Len(NextChunks) = IF c + 1 <= n THEN n - (c + 1) + 1 ELSE 0
          /\ \A i \in 1..(n - (c + 1) + 1) : NextChunks[i] = ring[c + 1 + i - 1]
        <3>1. c + 1 \in Int /\ n \in Int
            BY <1>1, <1>3
        <3> QED
            BY <2>1, <3>1, SubSeqProperties DEF NextChunks
    <2>3. Len(NextChunks) = m
        <3>1. CASE c + 1 <= n
            BY <1>1, <1>3, <2>2, <3>1
        <3>2. CASE ~(c + 1 <= n)
            <4>1. c = n /\ m = 0
                <5>1. c \in Int /\ n \in Int /\ c <= n /\ m = n - c
                    BY <1>1, <1>2
                <5> HIDE DEF c, n, m
                <5> QED
                    BY <3>2, <5>1
            <4>2. Len(NextChunks) = 0
                <5>1. Len(NextChunks) = IF c + 1 <= n THEN n - (c + 1) + 1 ELSE 0
                    BY <2>2
                <5> HIDE DEF c, n, m
                <5> QED
                    BY <3>2, <5>1
            <4> QED
                BY <4>1, <4>2
        <3> QED
            BY <3>1, <3>2
    <2>4. ASSUME NEW i \in 1..m PROVE NextChunks[i] = ring[c + i]
        <3>1. i \in 1..(n - (c + 1) + 1) /\ c + 1 + i - 1 = c + i
            BY <1>1, <1>3
        <3> QED
            BY <2>2, <3>1
    <2> QED
        BY <2>3, <2>4
<1>7. DOMAIN ThisChunk = 1..c /\ DOMAIN NextChunks = 1..m
    BY <1>2, <1>5, <1>6, LenProperties
<1>8. \A i \in 1..c : ring[i] = ThisChunk[i]
    BY <1>5
<1>9. \A i \in 1..m : ring[c + i] = NextChunks[i]
    BY <1>6
<1>10. DOMAIN ring = 1..(c + m)
    BY <1>1, <1>3
<1> HIDE DEF n, c, m
<1> QED
    BY <1>3, <1>7, <1>8, <1>9, <1>10 DEF Joins

(* What a joined sequence holds, and when it is spread.                    *)
LEMMA JoinTotals ==
    ASSUME NEW F, NEW A, NEW B, Joins(F, A, B)
    PROVE  /\ Total(F) = Total(A) \cup Total(B)
           /\ Spread(F) <=> /\ Spread(A) /\ Spread(B)
                            /\ Total(A) \cap Total(B) = {}
<1>1. PICK n \in Nat, m \in Nat :
         /\ DOMAIN A = 1..n /\ DOMAIN B = 1..m /\ DOMAIN F = 1..(n + m)
         /\ \A i \in 1..n : F[i] = A[i]
         /\ \A i \in 1..m : F[n + i] = B[i]
    BY DEF Joins
<1>2. \A i \in 1..n : i \in 1..(n + m)
    BY <1>1
<1>3. \A i \in 1..m : n + i \in 1..(n + m)
    BY <1>1
<1>4. ASSUME NEW i \in 1..(n + m)
      PROVE  i \in 1..n \/ \E j \in 1..m : i = n + j
    <2>1. i \in 1..n \/ (i - n \in 1..m /\ i = n + (i - n))
        BY <1>1
    <2> QED
        BY <2>1
<1>5. Total(F) = Total(A) \cup Total(B)
    <2>1. ASSUME NEW x \in Total(F) PROVE x \in Total(A) \cup Total(B)
        <3>1. PICK i \in 1..(n + m) : x \in F[i]
            BY <1>1 DEF Total
        <3> QED
            BY <1>1, <1>4, <3>1 DEF Total
    <2>2. ASSUME NEW x \in Total(A) PROVE x \in Total(F)
        BY <1>1, <1>2 DEF Total
    <2>3. ASSUME NEW x \in Total(B) PROVE x \in Total(F)
        <3>1. PICK j \in 1..m : x \in B[j]
            BY <1>1 DEF Total
        <3>2. n + j \in 1..(n + m) /\ x \in F[n + j]
            BY <1>1, <1>3, <3>1
        <3> QED
            BY <1>1, <3>2 DEF Total
    <2> QED
        BY <2>1, <2>2, <2>3
<1>6. ASSUME Spread(F)
      PROVE  Spread(A) /\ Spread(B) /\ Total(A) \cap Total(B) = {}
    <2>1. Spread(A)
        BY <1>1, <1>2, <1>6 DEF Spread
    <2>2. ASSUME NEW i \in 1..m, NEW j \in 1..m, i # j PROVE B[i] \cap B[j] = {}
        <3>1. n + i \in DOMAIN F /\ n + j \in DOMAIN F /\ n + i # n + j
            BY <1>1, <1>3, <2>2
        <3>2. F[n + i] \cap F[n + j] = {}
            BY <1>6, <3>1 DEF Spread
        <3> QED
            BY <1>1, <3>2
    <2>3. ASSUME NEW i \in 1..n, NEW j \in 1..m PROVE A[i] \cap B[j] = {}
        <3>1. i \in DOMAIN F /\ n + j \in DOMAIN F /\ i # n + j
            BY <1>1, <1>2, <1>3
        <3>2. F[i] \cap F[n + j] = {}
            BY <1>6, <3>1 DEF Spread
        <3> QED
            BY <1>1, <3>2
    <2>4. Spread(B)
        BY <1>1, <2>2 DEF Spread
    <2>5. Total(A) \cap Total(B) = {}
        BY <1>1, <2>3 DEF Total
    <2> QED
        BY <2>1, <2>4, <2>5
<1>7. ASSUME Spread(A), Spread(B), Total(A) \cap Total(B) = {}
      PROVE  Spread(F)
    <2>1. \A i \in 1..n, j \in 1..m : A[i] \cap B[j] = {}
        BY <1>1, <1>7 DEF Total
    <2>2. ASSUME NEW i \in 1..(n + m), NEW j \in 1..(n + m), i # j
          PROVE  F[i] \cap F[j] = {}
        <3>1. CASE i \in 1..n /\ j \in 1..n
            BY <1>1, <1>7, <2>2, <3>1 DEF Spread
        <3>2. ASSUME NEW k \in 1..m, j = n + k, i \in 1..n
              PROVE  F[i] \cap F[j] = {}
            BY <1>1, <2>1, <3>2
        <3>3. ASSUME NEW k \in 1..m, i = n + k, j \in 1..n
              PROVE  F[i] \cap F[j] = {}
            BY <1>1, <2>1, <3>3
        <3>4. ASSUME NEW k \in 1..m, NEW l \in 1..m, i = n + k, j = n + l
              PROVE  F[i] \cap F[j] = {}
            <4>1. k # l
                BY <2>2, <3>4
            <4> QED
                BY <1>1, <1>7, <3>4, <4>1 DEF Spread
        <3> QED
            BY <1>4, <3>1, <3>2, <3>3, <3>4
    <2> QED
        BY <1>1, <2>2 DEF Spread
<1> QED
    BY <1>5, <1>6, <1>7

-----------------------------------------------------------------------------
(* The same of the sequences the program keeps.                            *)
LEMMA JoinImages ==
    ASSUME NEW s, NEW a, NEW b, Joins(s, a, b), NEW F, NEW G, NEW H,
           DOMAIN F = DOMAIN s, DOMAIN G = DOMAIN a, DOMAIN H = DOMAIN b,
           \A j \in DOMAIN s : \A i \in DOMAIN a : s[j] = a[i] => F[j] = G[i],
           \A j \in DOMAIN s : \A i \in DOMAIN b : s[j] = b[i] => F[j] = H[i]
    PROVE  Joins(F, G, H)
<1>1. PICK n \in Nat, m \in Nat :
         /\ DOMAIN a = 1..n /\ DOMAIN b = 1..m /\ DOMAIN s = 1..(n + m)
         /\ \A i \in 1..n : s[i] = a[i]
         /\ \A i \in 1..m : s[n + i] = b[i]
    BY DEF Joins
<1>2. /\ \A i \in 1..n : i \in 1..(n + m)
      /\ \A i \in 1..m : n + i \in 1..(n + m)
    BY <1>1
<1>3. ASSUME NEW i \in 1..n PROVE F[i] = G[i]
    <2>1. i \in DOMAIN s /\ i \in DOMAIN a /\ s[i] = a[i]
        BY <1>1, <1>2
    <2> QED
        BY <2>1
<1>4. ASSUME NEW i \in 1..m PROVE F[n + i] = H[i]
    <2>1. n + i \in DOMAIN s /\ i \in DOMAIN b /\ s[n + i] = b[i]
        BY <1>1, <1>2
    <2> DEFINE j == n + i
    <2>2. j \in DOMAIN s /\ s[j] = b[i] /\ i \in DOMAIN b
        BY <2>1
    <2> HIDE DEF j
    <2>3. F[j] = H[i]
        BY <2>2
    <2> QED
        BY <2>3 DEF j
<1>5. DOMAIN G = 1..n /\ DOMAIN H = 1..m /\ DOMAIN F = 1..(n + m)
    BY <1>1
<1> QED
    BY <1>3, <1>4, <1>5 DEF Joins

LEMMA EventsAlign ==
    ASSUME NEW s, NEW a, NEW b, Joins(s, a, b)
    PROVE  Joins(EachEvent(s), EachEvent(a), EachEvent(b))
<1> DEFINE F == EachEvent(s)
           G == EachEvent(a)
           H == EachEvent(b)
<1>1. DOMAIN F = DOMAIN s /\ DOMAIN G = DOMAIN a /\ DOMAIN H = DOMAIN b
    BY DEF EachEvent
<1>2. \A j \in DOMAIN s : \A i \in DOMAIN a : s[j] = a[i] => F[j] = G[i]
    BY DEF EachEvent
<1>3. \A j \in DOMAIN s : \A i \in DOMAIN b : s[j] = b[i] => F[j] = H[i]
    BY DEF EachEvent
<1> HIDE DEF F, G, H
<1>4. Joins(F, G, H)
    BY <1>1, <1>2, <1>3, JoinImages
<1> QED
    BY <1>4 DEF F, G, H

LEMMA EventsJoin ==
    ASSUME NEW s, NEW a, NEW b, Joins(s, a, b)
    PROVE  /\ DescriptorKeys(s) = DescriptorKeys(a) \cup DescriptorKeys(b)
           /\ Spread(EachEvent(s)) <=>
                /\ Spread(EachEvent(a)) /\ Spread(EachEvent(b))
                /\ DescriptorKeys(a) \cap DescriptorKeys(b) = {}
<1>1. Joins(EachEvent(s), EachEvent(a), EachEvent(b))
    BY EventsAlign
<1>2. \A q : Total(EachEvent(q)) = DescriptorKeys(q)
    BY DEF Total, EachEvent, DescriptorKeys
<1> QED
    BY <1>1, <1>2, JoinTotals

LEMMA RequestsAlign ==
    ASSUME NEW s, NEW a, NEW b, Joins(s, a, b)
    PROVE  Joins(EachRequest(s), EachRequest(a), EachRequest(b))
<1> DEFINE F == EachRequest(s)
           G == EachRequest(a)
           H == EachRequest(b)
<1>1. DOMAIN F = DOMAIN s /\ DOMAIN G = DOMAIN a /\ DOMAIN H = DOMAIN b
    BY DEF EachRequest
<1>2. \A j \in DOMAIN s : \A i \in DOMAIN a : s[j] = a[i] => F[j] = G[i]
    BY DEF EachRequest
<1>3. \A j \in DOMAIN s : \A i \in DOMAIN b : s[j] = b[i] => F[j] = H[i]
    BY DEF EachRequest
<1> HIDE DEF F, G, H
<1>4. Joins(F, G, H)
    BY <1>1, <1>2, <1>3, JoinImages
<1> QED
    BY <1>4 DEF F, G, H

LEMMA RequestsJoin ==
    ASSUME NEW s, NEW a, NEW b, Joins(s, a, b)
    PROVE  /\ RequestKeys(s) = RequestKeys(a) \cup RequestKeys(b)
           /\ Spread(EachRequest(s)) <=>
                /\ Spread(EachRequest(a)) /\ Spread(EachRequest(b))
                /\ RequestKeys(a) \cap RequestKeys(b) = {}
<1>1. Joins(EachRequest(s), EachRequest(a), EachRequest(b))
    BY RequestsAlign
<1>2. \A q : Total(EachRequest(q)) = RequestKeys(q)
    BY DEF Total, EachRequest, RequestKeys
<1> QED
    BY <1>1, <1>2, JoinTotals

LEMMA BatchesJoin ==
    ASSUME NEW s, NEW a, NEW b, Joins(s, a, b)
    PROVE  Joins(EachBatch(s), EachBatch(a), EachBatch(b))
<1> DEFINE F == EachBatch(s)
           G == EachBatch(a)
           H == EachBatch(b)
<1>1. DOMAIN F = DOMAIN s /\ DOMAIN G = DOMAIN a /\ DOMAIN H = DOMAIN b
    BY DEF EachBatch
<1>2. \A j \in DOMAIN s : \A i \in DOMAIN a : s[j] = a[i] => F[j] = G[i]
    BY DEF EachBatch
<1>3. \A j \in DOMAIN s : \A i \in DOMAIN b : s[j] = b[i] => F[j] = H[i]
    BY DEF EachBatch
<1> HIDE DEF F, G, H
<1>4. Joins(F, G, H)
    BY <1>1, <1>2, <1>3, JoinImages
<1> QED
    BY <1>4 DEF F, G, H

LEMMA RepliesJoin ==
    ASSUME NEW s, NEW a, NEW b, Joins(s, a, b)
    PROVE  Joins(EachReply(s), EachReply(a), EachReply(b))
<1> DEFINE F == EachReply(s)
           G == EachReply(a)
           H == EachReply(b)
<1>1. DOMAIN F = DOMAIN s /\ DOMAIN G = DOMAIN a /\ DOMAIN H = DOMAIN b
    BY DEF EachReply
<1>2. \A j \in DOMAIN s : \A i \in DOMAIN a : s[j] = a[i] => F[j] = G[i]
    BY DEF EachReply
<1>3. \A j \in DOMAIN s : \A i \in DOMAIN b : s[j] = b[i] => F[j] = H[i]
    BY DEF EachReply
<1> HIDE DEF F, G, H
<1>4. Joins(F, G, H)
    BY <1>1, <1>2, <1>3, JoinImages
<1> QED
    BY <1>4 DEF F, G, H

LEMMA BundlesJoin ==
    ASSUME NEW s, NEW a, NEW b, Joins(s, a, b)
    PROVE  Joins(EachBundle(s), EachBundle(a), EachBundle(b))
<1> DEFINE F == EachBundle(s)
           G == EachBundle(a)
           H == EachBundle(b)
<1>1. DOMAIN F = DOMAIN s /\ DOMAIN G = DOMAIN a /\ DOMAIN H = DOMAIN b
    BY DEF EachBundle
<1>2. \A j \in DOMAIN s : \A i \in DOMAIN a : s[j] = a[i] => F[j] = G[i]
    BY DEF EachBundle
<1>3. \A j \in DOMAIN s : \A i \in DOMAIN b : s[j] = b[i] => F[j] = H[i]
    BY DEF EachBundle
<1> HIDE DEF F, G, H
<1>4. Joins(F, G, H)
    BY <1>1, <1>2, <1>3, JoinImages
<1> QED
    BY <1>4 DEF F, G, H

(* What holds of every entry of a joined sequence holds of both parts.     *)
LEMMA JoinEntries ==
    ASSUME NEW s, NEW a, NEW b, Joins(s, a, b)
    PROVE  {s[i] : i \in DOMAIN s} =
               {a[i] : i \in DOMAIN a} \cup {b[i] : i \in DOMAIN b}
<1>1. PICK n \in Nat, m \in Nat :
         /\ DOMAIN a = 1..n /\ DOMAIN b = 1..m /\ DOMAIN s = 1..(n + m)
         /\ \A i \in 1..n : s[i] = a[i]
         /\ \A i \in 1..m : s[n + i] = b[i]
    BY DEF Joins
<1>2. \A i \in 1..n : i \in 1..(n + m)
    BY <1>1
<1>3. \A i \in 1..m : n + i \in 1..(n + m)
    BY <1>1
<1>4. ASSUME NEW i \in 1..(n + m)
      PROVE  i \in 1..n \/ \E j \in 1..m : i = n + j
    <2>1. i \in 1..n \/ (i - n \in 1..m /\ i = n + (i - n))
        BY <1>1
    <2> QED
        BY <2>1
<1>5. ASSUME NEW i \in 1..(n + m)
      PROVE  s[i] \in {a[j] : j \in DOMAIN a} \cup {b[j] : j \in DOMAIN b}
    BY <1>1, <1>4
<1>6. ASSUME NEW i \in 1..n PROVE a[i] \in {s[j] : j \in DOMAIN s}
    BY <1>1, <1>2
<1>7. ASSUME NEW i \in 1..m PROVE b[i] \in {s[j] : j \in DOMAIN s}
    BY <1>1, <1>3
<1> QED
    BY <1>1, <1>5, <1>6, <1>7

(* A sequence of one.                                                      *)
LEMMA Singles ==
    /\ \A d : /\ DescriptorKeys(<<d>>) = KeysOf(d)
              /\ Spread(EachEvent(<<d>>))
    /\ \A r : /\ RequestKeys(<<r>>) = {KeyOf(r)}
              /\ Spread(EachRequest(<<r>>))
    /\ \A b : /\ Total(EachBatch(<<b>>)) = DescriptorKeys(b)
              /\ Spread(EachBatch(<<b>>))
    /\ \A m : /\ Total(EachReply(<<m>>)) = MessageKeys(m)
              /\ Spread(EachReply(<<m>>))
    /\ \A g : /\ Total(EachBundle(<<g>>)) = g.keys
              /\ Spread(EachBundle(<<g>>))
<1>1. ASSUME NEW e
      PROVE  /\ DOMAIN <<e>> = {1} /\ <<e>>[1] = e
             /\ Spread(EachEvent(<<e>>)) /\ Spread(EachRequest(<<e>>))
             /\ Spread(EachBatch(<<e>>)) /\ Spread(EachReply(<<e>>))
             /\ Spread(EachBundle(<<e>>))
    <2>1. DOMAIN <<e>> = {1} /\ <<e>>[1] = e
        OBVIOUS
    <2> QED
        BY <2>1 DEF EachEvent, EachRequest, EachBatch, EachReply, EachBundle,
           Spread
<1>2. ASSUME NEW d PROVE DescriptorKeys(<<d>>) = KeysOf(d)
    BY <1>1 DEF DescriptorKeys
<1>3. ASSUME NEW r PROVE RequestKeys(<<r>>) = {KeyOf(r)}
    BY <1>1 DEF RequestKeys
<1>4. ASSUME NEW b PROVE Total(EachBatch(<<b>>)) = DescriptorKeys(b)
    BY <1>1 DEF EachBatch, Total
<1>5. ASSUME NEW m PROVE Total(EachReply(<<m>>)) = MessageKeys(m)
    BY <1>1 DEF EachReply, Total
<1>6. ASSUME NEW g PROVE Total(EachBundle(<<g>>)) = g.keys
    BY <1>1 DEF EachBundle, Total
<1> QED
    BY <1>1, <1>2, <1>3, <1>4, <1>5, <1>6

LEMMA Nothing ==
    /\ DescriptorKeys(<<>>) = {} /\ Spread(EachEvent(<<>>))
    /\ RequestKeys(<<>>) = {} /\ Spread(EachRequest(<<>>))
    /\ Total(EachBatch(<<>>)) = {} /\ Spread(EachBatch(<<>>))
    /\ Total(EachReply(<<>>)) = {} /\ Spread(EachReply(<<>>))
    /\ Total(EachBundle(<<>>)) = {} /\ Spread(EachBundle(<<>>))
<1>1. DOMAIN <<>> = {}
    OBVIOUS
<1>2. DescriptorKeys(<<>>) = {} /\ RequestKeys(<<>>) = {}
    BY <1>1 DEF DescriptorKeys, RequestKeys
<1>3. /\ DOMAIN EachEvent(<<>>) = {} /\ DOMAIN EachRequest(<<>>) = {}
      /\ DOMAIN EachBatch(<<>>) = {} /\ DOMAIN EachReply(<<>>) = {}
      /\ DOMAIN EachBundle(<<>>) = {}
    BY <1>1 DEF EachEvent, EachRequest, EachBatch, EachReply, EachBundle
<1> QED
    BY <1>2, <1>3 DEF Total, Spread
-----------------------------------------------------------------------------
(* The keys of a placement K after a step are those of L. Within the places*)
(* S they were only moved about; elsewhere none was added.                 *)
LEMMA Shuffle ==
    ASSUME NEW K, NEW L, Separate(K), NEW S \in SUBSET Places,
           \A p \in Places \ S : L[p] \subseteq K[p],
           \A p \in S : L[p] \subseteq UNION {K[q] : q \in S},
           \A p, q \in S : p # q => L[p] \cap L[q] = {}
    PROVE  Separate(L) /\ Anywhere(L) \subseteq Anywhere(K)
<1>1. ASSUME NEW p \in Places, NEW q \in Places, p # q,
             NEW k \in L[p], k \in L[q]
      PROVE  FALSE
    <2>1. CASE p \in S /\ q \in S
        BY <1>1, <2>1
    <2>2. CASE p \in S /\ q \notin S
        <3>1. PICK r \in S : k \in K[r]
            BY <2>2
        <3>2. k \in K[q] /\ r # q /\ r \in Places
            BY <1>1, <2>2, <3>1
        <3> QED
            BY <3>1, <3>2 DEF Separate
    <2>3. CASE p \notin S /\ q \in S
        <3>1. PICK r \in S : k \in K[r]
            BY <1>1, <2>3
        <3>2. k \in K[p] /\ r # p /\ r \in Places
            BY <1>1, <2>3, <3>1
        <3> QED
            BY <3>1, <3>2 DEF Separate
    <2>4. CASE p \notin S /\ q \notin S
        BY <1>1, <2>4 DEF Separate
    <2> QED
        BY <2>1, <2>2, <2>3, <2>4
<1>2. ASSUME NEW p \in Places, NEW k \in L[p] PROVE k \in Anywhere(K)
    BY DEF Anywhere
<1> QED
    BY <1>1, <1>2 DEF Separate, Anywhere

(* Two places exchange keys, the others keep theirs or lose some.          *)
LEMMA Move ==
    ASSUME NEW K, NEW L, Separate(K),
           NEW src \in Places, NEW dst \in Places, src # dst,
           \A p \in Places \ {src, dst} : L[p] \subseteq K[p],
           L[src] \cup L[dst] \subseteq K[src] \cup K[dst],
           L[src] \cap L[dst] = {}
    PROVE  /\ Separate(L) /\ Anywhere(L) \subseteq Anywhere(K)
           /\ /\ \A p \in Places \ {src, dst} : L[p] = K[p]
              /\ L[src] \cup L[dst] = K[src] \cup K[dst]
              => Anywhere(L) = Anywhere(K)
<1> DEFINE S == {src, dst}
<1>1. S \in SUBSET Places
    OBVIOUS
<1>2. \A p \in S : L[p] \subseteq UNION {K[q] : q \in S}
    OBVIOUS
<1>3. \A p, q \in S : p # q => L[p] \cap L[q] = {}
    OBVIOUS
<1>4. Separate(L) /\ Anywhere(L) \subseteq Anywhere(K)
    BY <1>1, <1>2, <1>3, Shuffle
<1>5. ASSUME \A p \in Places \ {src, dst} : L[p] = K[p],
             L[src] \cup L[dst] = K[src] \cup K[dst]
      PROVE  Anywhere(K) \subseteq Anywhere(L)
    <2>1. ASSUME NEW p \in Places, NEW k \in K[p] PROVE k \in Anywhere(L)
        BY <1>5, <2>1 DEF Anywhere
    <2> QED
        BY <2>1 DEF Anywhere
<1> QED
    BY <1>4, <1>5

(* New keys come to one place.                                             *)
LEMMA Arrive ==
    ASSUME NEW K, NEW L, Separate(K), NEW dst \in Places, NEW M,
           M \cap Anywhere(K) = {},
           \A p \in Places \ {dst} : L[p] \subseteq K[p],
           L[dst] \subseteq K[dst] \cup M
    PROVE  Separate(L) /\ Anywhere(L) \subseteq Anywhere(K) \cup M
<1>1. \A p \in Places : K[p] \cap M = {}
    BY DEF Anywhere
<1>2. ASSUME NEW p \in Places, NEW q \in Places, p # q,
             NEW k \in L[p], k \in L[q]
      PROVE  FALSE
    BY <1>1, <1>2 DEF Separate
<1>3. ASSUME NEW p \in Places, NEW k \in L[p] PROVE k \in Anywhere(K) \cup M
    BY DEF Anywhere
<1> QED
    BY <1>2, <1>3 DEF Separate, Anywhere

-----------------------------------------------------------------------------
(* The placement, field by field, before and after a step.                 *)
LEMMA PlacementIs ==
    /\ Placement["ring"]   = DescriptorKeys(ring)
    /\ Placement["sync"]   = SyncKeys
    /\ Placement["inbox"]  = Total(EachBatch(inbox))
    /\ Placement["job"]    = JobKeys
    /\ Placement["outbox"] = Total(EachReply(outbox))
    /\ Placement["ready"]  = RequestKeys(readyTodo)
    /\ Placement["groups"] = Total(EachBundle(groups))
    /\ Placement["flush"]  = RequestKeys(flushTodo)
    /\ Placement["held"]   = RequestKeys(heldBeacons)
    /\ Placement["sent"]   = Total(EachBundle(egressed))
    /\ Placement["reported"] = reported
    BY DEF Placement, Held

LEMMA PlacementWillBe ==
    /\ Placement'["ring"]   = DescriptorKeys(ring')
    /\ Placement'["sync"]   = SyncKeys'
    /\ Placement'["inbox"]  = Total(EachBatch(inbox'))
    /\ Placement'["job"]    = JobKeys'
    /\ Placement'["outbox"] = Total(EachReply(outbox'))
    /\ Placement'["ready"]  = RequestKeys(readyTodo')
    /\ Placement'["groups"] = Total(EachBundle(groups'))
    /\ Placement'["flush"]  = RequestKeys(flushTodo')
    /\ Placement'["held"]   = RequestKeys(heldBeacons')
    /\ Placement'["sent"]   = Total(EachBundle(egressed'))
    /\ Placement'["reported"] = reported'
    BY DEF Placement, Held, DescriptorKeys, KeysOf, FormSet, Total, EachBatch,
       EachReply, MessageKeys, RequestKeys, KeyOf, EachBundle

LEMMA PlacesKept ==
    /\ UNCHANGED ring => Placement'["ring"] = Placement["ring"]
    /\ UNCHANGED <<syncTodo, tracker>> => Placement'["sync"] = Placement["sync"]
    /\ UNCHANGED inbox => Placement'["inbox"] = Placement["inbox"]
    /\ UNCHANGED job => Placement'["job"] = Placement["job"]
    /\ UNCHANGED outbox => Placement'["outbox"] = Placement["outbox"]
    /\ UNCHANGED readyTodo => Placement'["ready"] = Placement["ready"]
    /\ UNCHANGED groups => Placement'["groups"] = Placement["groups"]
    /\ UNCHANGED flushTodo => Placement'["flush"] = Placement["flush"]
    /\ UNCHANGED heldBeacons => Placement'["held"] = Placement["held"]
    /\ UNCHANGED egressed => Placement'["sent"] = Placement["sent"]
    /\ UNCHANGED reported => Placement'["reported"] = Placement["reported"]
<1>1. UNCHANGED <<syncTodo, tracker>> => SyncKeys' = SyncKeys
    BY DEF SyncKeys, DescriptorKeys, KeysOf, FormSet
<1>2. UNCHANGED job => JobKeys' = JobKeys
    BY DEF JobKeys, DescriptorKeys, KeysOf, FormSet, MessageKeys, RequestKeys,
       KeyOf
<1> QED
    BY <1>1, <1>2, PlacementIs, PlacementWillBe

(* What a step may lose: the keys of an abandoned event, or of a chamber   *)
(* that is not up.                                                         *)
Noted ==
    worker' = "up" =>
        \A k \in Anywhere(Placement) :
            k \in Anywhere(Placement') \/ k[1] \in abandoned'

(* A step that places every key rightly, new ones apart.                   *)
Placed == /\ Separate(Placement')
          /\ Anywhere(Placement') \subseteq Anywhere(Placement)
          /\ Noted

(* A step that loses nothing. *)
Conserved == Anywhere(Placement') = Anywhere(Placement)
-----------------------------------------------------------------------------
(* Batches: from the ring to the chamber's inbox, or to nowhere.           *)
LEMMA SendBatchPlaces ==
    ASSUME TypeOK, Separate(Placement), MainTidy, ChamberTidy,
           sendBatch(ThisChunk), ring' = NextChunks,
           UNCHANGED <<syncTodo, tracker, worker, job, outbox, readyTodo, groups,
                       flushTodo, heldBeacons, egressed, reported>>
    PROVE  Placed /\ MainTidy' /\ ChamberTidy'
<1> DEFINE B == DescriptorKeys(ThisChunk)
           R == DescriptorKeys(NextChunks)
           I == Total(EachBatch(inbox))
<1>1. ring \in Seq(Descriptor) /\ inbox \in Seq(Seq(Descriptor))
          /\ ThisChunk \in Seq(Descriptor)
    BY ChunkTypes DEF TypeOK, InstanceType, ChamberType
<1>2. Joins(ring, ThisChunk, NextChunks)
    BY <1>1, JoinChunks
<1>3. /\ DescriptorKeys(ring) = B \cup R /\ B \cap R = {}
      /\ Spread(EachEvent(ThisChunk)) /\ Spread(EachEvent(NextChunks))
    BY <1>2, EventsJoin DEF MainTidy
<1>4. Placement'["ring"] = R /\ Placement["ring"] = B \cup R
    BY <1>3, PlacementIs, PlacementWillBe
<1>5. I \cap (B \cup R) = {} /\ Placement["inbox"] = I
    BY <1>4, PlacementIs DEF Separate, Places
<1>6. \A p \in Places \ {"ring", "inbox"} : Placement'[p] = Placement[p]
    BY PlacesKept DEF Places
<1>7. MainTidy'
    BY <1>3 DEF MainTidy
<1>8. CASE worker = "up" /\ Clones(ThisChunk)
    <2>1. inbox' = Append(inbox, ThisChunk)
        BY <1>8 DEF sendBatch
    <2>2. Joins(inbox', inbox, <<ThisChunk>>)
        BY <1>1, <2>1, JoinAppend
    <2>3. Total(EachBatch(inbox')) = I \cup B
        BY <2>2, BatchesJoin, JoinTotals, Singles
    <2>4. Spread(EachBatch(inbox'))
        BY <1>5, <2>2, BatchesJoin, JoinTotals, Singles DEF ChamberTidy
    <2>5. \A i \in DOMAIN inbox' : Spread(EachEvent(inbox'[i]))
        <3>1. \A i \in DOMAIN inbox' : \/ inbox'[i] = ThisChunk
                                      \/ \E j \in DOMAIN inbox : inbox'[i] = inbox[j]
            BY <1>1, <2>1, AppendProperties, LenProperties
        <3> QED
            BY <1>3, <3>1 DEF ChamberTidy
    <2>6. ChamberTidy'
        BY <2>4, <2>5 DEF ChamberTidy
    <2>7. Placement'["inbox"] = I \cup B
        BY <2>3, PlacementWillBe
    <2>8. /\ Separate(Placement')
          /\ Anywhere(Placement') = Anywhere(Placement)
        BY <1>3, <1>4, <1>5, <1>6, <2>7, Move DEF Places
    <2> QED
        BY <1>7, <2>6, <2>8 DEF Placed, Noted
<1>9. CASE ~(worker = "up" /\ Clones(ThisChunk))
    <2>1. UNCHANGED inbox
        BY <1>9 DEF sendBatch
    <2>2. ChamberTidy'
        BY <2>1 DEF ChamberTidy, JobKeys, Tidy
    <2>3. Placement'["inbox"] = I
        BY <1>5, <2>1, PlacesKept
    <2>4. Separate(Placement') /\ Anywhere(Placement') \subseteq Anywhere(Placement)
        BY <1>3, <1>4, <1>5, <1>6, <2>3, Move DEF Places
    <2>5. ASSUME worker' = "up", NEW k \in Anywhere(Placement)
          PROVE  k \in Anywhere(Placement') \/ k[1] \in abandoned'
        <3>1. PICK p \in Places : k \in Placement[p]
            BY DEF Anywhere
        <3>2. CASE k \in Placement'[p]
            BY <3>2 DEF Anywhere
        <3>3. CASE p = "ring" /\ k \in B
            <4>1. PICK i \in DOMAIN ThisChunk : k \in KeysOf(ThisChunk[i])
                BY <3>3 DEF DescriptorKeys
            <4>2. k[1] = ThisChunk[i].seq
                BY <4>1 DEF KeysOf
            <4>3. abandoned' = abandoned \cup
                                   {ThisChunk[j].seq : j \in DOMAIN ThisChunk}
                BY <1>9, <2>5 DEF sendBatch
            <4> QED
                BY <4>1, <4>2, <4>3
        <3> QED
            BY <1>4, <1>5, <1>6, <2>3, <3>1, <3>2, <3>3
    <2> QED
        BY <1>7, <2>2, <2>4, <2>5 DEF Placed, Noted
<1> QED
    BY <1>8, <1>9

(* A step that moves no key.                                               *)
LEMMA Still ==
    ASSUME Separate(Placement), MainTidy, ChamberTidy,
           UNCHANGED <<heldBeacons, ring, loop, chamber, egressed, reported>>
    PROVE  Placed /\ MainTidy' /\ ChamberTidy' /\ (SentTidy => SentTidy')
<1>1. \A p \in Places : Placement'[p] = Placement[p]
    BY PlacesKept DEF Places, loop, chamber
<1>2. Separate(Placement') /\ Anywhere(Placement') = Anywhere(Placement)
    BY <1>1 DEF Separate, Anywhere
<1>3. MainTidy'
    BY DEF MainTidy, loop
<1>4. ChamberTidy'
    BY DEF ChamberTidy, chamber, Tidy
<1>5. SentTidy => SentTidy'
    BY DEF SentTidy
<1> QED
    BY <1>2, <1>3, <1>4, <1>5 DEF Placed, Noted
-----------------------------------------------------------------------------
(* The chamber.                                                            *)
LEMMA ChamberTidyNext ==
    ASSUME Spread(EachBatch(inbox')),
           \A i \in DOMAIN inbox' : Spread(EachEvent(inbox'[i])),
           job' # NoJob =>
              /\ Spread(EachEvent(job'.todo)) /\ Tidy(job')
              /\ DescriptorKeys(job'.todo) \cap MessageKeys(job') = {},
           Spread(EachReply(outbox')), \A i \in DOMAIN outbox' : Tidy(outbox'[i])
    PROVE  ChamberTidy'
    BY DEF ChamberTidy, Spread, EachBatch, EachEvent, EachReply, EachRequest,
       Tidy, DescriptorKeys, MessageKeys, RequestKeys, KeysOf, KeyOf, FormSet

LEMMA StartBatchPlaces ==
    ASSUME TypeOK, Separate(Placement), ChamberTidy, StartBatch
    PROVE  Placed /\ ChamberTidy'
<1> DEFINE B == Head(inbox)
           T == Tail(inbox)
           j == [todo |-> B, ready |-> <<>>, dropped |-> <<>>]
<1>1. inbox \in Seq(Seq(Descriptor)) /\ inbox # <<>> /\ job = NoJob
    BY DEF StartBatch, TypeOK, ChamberType
<1>2. job' = j /\ inbox' = T
    BY DEF StartBatch
<1>3. job' # NoJob
    <2>1. B \in Seq(Descriptor) /\ <<>> \in Seq(Request) /\ <<>> \in Seq(Descriptor)
        BY <1>1, HeadTailProperties, EmptySeq
    <2>2. j \in Job
        BY <2>1 DEF Job
    <2> QED
        BY <1>2, <2>2, NoJobAssumption
<1>4. Joins(inbox, <<B>>, T)
    BY <1>1, JoinHead
<1>5. /\ Total(EachBatch(inbox)) = DescriptorKeys(B) \cup Total(EachBatch(T))
      /\ DescriptorKeys(B) \cap Total(EachBatch(T)) = {}
      /\ Spread(EachBatch(T))
    BY <1>4, BatchesJoin, JoinTotals, Singles DEF ChamberTidy
<1>6. Spread(EachEvent(B)) /\ \A i \in DOMAIN T : Spread(EachEvent(T[i]))
    <2>1. ASSUME NEW i \in DOMAIN T PROVE \E k \in DOMAIN inbox : T[i] = inbox[k]
        <3>1. T[i] \in {inbox[k] : k \in DOMAIN inbox}
            BY <1>4, JoinEntries
        <3> QED
            BY <3>1
    <2>2. 1 \in DOMAIN inbox /\ B = inbox[1]
        BY <1>1, EmptySeq, LenProperties, HeadTailProperties
    <2> QED
        BY <2>1, <2>2 DEF ChamberTidy
<1>7. MessageKeys(j) = {} /\ Tidy(j) /\ j.todo = B
    <2>1. j.ready = <<>> /\ j.dropped = <<>> /\ j.todo = B
        OBVIOUS
    <2> HIDE DEF j
    <2> QED
        BY <2>1, Nothing DEF MessageKeys, Tidy
<1> HIDE DEF j, B, T
<1>8. JobKeys = {} /\ JobKeys' = DescriptorKeys(B)
    <2>1. JobKeys' = DescriptorKeys(job'.todo) \cup MessageKeys(job')
        BY <1>3 DEF JobKeys, DescriptorKeys, KeysOf, FormSet, MessageKeys,
           RequestKeys, KeyOf
    <2> QED
        BY <1>1, <1>2, <1>7, <2>1 DEF JobKeys
<1>9. ChamberTidy'
    <2>1. /\ Spread(EachBatch(inbox'))
          /\ \A i \in DOMAIN inbox' : Spread(EachEvent(inbox'[i]))
        BY <1>2, <1>5, <1>6
    <2>2. /\ Spread(EachEvent(job'.todo)) /\ Tidy(job')
          /\ DescriptorKeys(job'.todo) \cap MessageKeys(job') = {}
        BY <1>2, <1>6, <1>7
    <2>3. Spread(EachReply(outbox')) /\ \A i \in DOMAIN outbox' : Tidy(outbox'[i])
        BY DEF StartBatch, ChamberTidy
    <2> QED
        BY <2>1, <2>2, <2>3, ChamberTidyNext
<1>10. \A p \in Places \ {"inbox", "job"} : Placement'[p] = Placement[p]
    BY PlacesKept DEF Places, StartBatch, instance, loop, history
<1>11. /\ Placement["inbox"] = DescriptorKeys(B) \cup Total(EachBatch(T))
       /\ Placement'["inbox"] = Total(EachBatch(T))
       /\ Placement["job"] = {} /\ Placement'["job"] = DescriptorKeys(B)
    BY <1>2, <1>5, <1>8, PlacementIs, PlacementWillBe
<1>12. Separate(Placement') /\ Anywhere(Placement') = Anywhere(Placement)
    BY <1>5, <1>10, <1>11, Move DEF Places
<1> QED
    BY <1>9, <1>12 DEF Placed, Noted

(* An event maps to one request for each of its forms.                     *)
LEMMA HandleKeys ==
    ASSUME NEW d \in Descriptor
    PROVE  RequestKeys(handle(d)) = KeysOf(d) /\ Spread(EachRequest(handle(d)))
<1> DEFINE forms == FormsOf[d.type]
<1>1. \A i, j \in DOMAIN forms : forms[i] = forms[j] => i = j
    BY ConstantsAssumption DEF Descriptor
<1>2. /\ DOMAIN handle(d) = DOMAIN forms
      /\ \A i \in DOMAIN forms : handle(d)[i] = RequestOf(d, forms[i])
    BY DEF handle
<1>3. \A f : KeyOf(RequestOf(d, f)) = <<d.seq, f>>
    BY DEF KeyOf, RequestOf
<1>4. \A i \in DOMAIN forms : KeyOf(handle(d)[i]) = <<d.seq, forms[i]>>
    BY <1>2, <1>3
<1>5. RequestKeys(handle(d)) = {<<d.seq, forms[i]>> : i \in DOMAIN forms}
    BY <1>2, <1>4 DEF RequestKeys
<1>6. KeysOf(d) = {<<d.seq, forms[i]>> : i \in DOMAIN forms}
    BY DEF KeysOf, FormSet
<1>7. ASSUME NEW i \in DOMAIN forms, NEW j \in DOMAIN forms, i # j
      PROVE  {KeyOf(handle(d)[i])} \cap {KeyOf(handle(d)[j])} = {}
    BY <1>1, <1>4, <1>7
<1>8. Spread(EachRequest(handle(d)))
    BY <1>2, <1>7 DEF Spread, EachRequest
<1> QED
    BY <1>5, <1>6, <1>8

LEMMA RoutedJob ==
    ASSUME TypeOK, RouteEvent
    PROVE  job' \in Job /\ job' # NoJob
<1> DEFINE d == Head(job.todo)
           T == Tail(job.todo)
<1>1. job \in Job /\ job # NoJob /\ job.todo # <<>>
    BY DEF RouteEvent, TypeOK, ChamberType
<1>2. /\ job.todo \in Seq(Descriptor) /\ job.ready \in Seq(Request)
      /\ job.dropped \in Seq(Descriptor) /\ d \in Descriptor
    BY <1>1, HeadTailProperties DEF Job
<1>3. handle(d) \in Seq(Request) /\ T \in Seq(Descriptor)
    BY <1>1, <1>2, HandleType, HeadTailProperties
<1>4. job.ready \o handle(d) \in Seq(Request)
    BY <1>2, <1>3, ConcatProperties
<1>5. Append(job.dropped, d) \in Seq(Descriptor)
    BY <1>2, AppendProperties
<1> HIDE DEF d, T
<1>6. /\ [todo |-> T, ready |-> job.ready,
           dropped |-> Append(job.dropped, d)] \in Job
      /\ [todo |-> T, ready |-> job.ready \o handle(d),
           dropped |-> job.dropped] \in Job
    BY <1>2, <1>3, <1>4, <1>5 DEF Job
<1>7. job' \in Job
    BY <1>6 DEF RouteEvent, d, T
<1> QED
    BY <1>7, NoJobAssumption

LEMMA RouteEventPlaces ==
    ASSUME TypeOK, Separate(Placement), ChamberTidy, RouteEvent
    PROVE  Placed /\ ChamberTidy'
<1> DEFINE d == Head(job.todo)
           T == Tail(job.todo)
<1>1. job \in Job /\ job # NoJob /\ job.todo # <<>>
    BY DEF RouteEvent, TypeOK, ChamberType
<1>2. /\ job.todo \in Seq(Descriptor) /\ job.ready \in Seq(Request)
      /\ job.dropped \in Seq(Descriptor) /\ d \in Descriptor
    BY <1>1, HeadTailProperties DEF Job
<1>3. Joins(job.todo, <<d>>, T)
    BY <1>1, <1>2, JoinHead
<1>4. /\ DescriptorKeys(job.todo) = KeysOf(d) \cup DescriptorKeys(T)
      /\ KeysOf(d) \cap DescriptorKeys(T) = {}
      /\ Spread(EachEvent(T))
    BY <1>1, <1>3, EventsJoin, Singles DEF ChamberTidy
<1>5. /\ Spread(EachRequest(job.ready))
      /\ RequestKeys(job.ready) \cap DescriptorKeys(job.dropped) = {}
      /\ KeysOf(d) \cap (RequestKeys(job.ready) \cup DescriptorKeys(job.dropped)) = {}
      /\ DescriptorKeys(T) \cap
             (RequestKeys(job.ready) \cup DescriptorKeys(job.dropped)) = {}
    BY <1>1, <1>4 DEF ChamberTidy, Tidy, MessageKeys
<1>6. job' \in Job /\ job' # NoJob
    BY RoutedJob
<1>7. /\ job'.todo = T
      /\ RequestKeys(job'.ready) \cup DescriptorKeys(job'.dropped) =
            RequestKeys(job.ready) \cup DescriptorKeys(job.dropped) \cup KeysOf(d)
      /\ Spread(EachRequest(job'.ready))
      /\ RequestKeys(job'.ready) \cap DescriptorKeys(job'.dropped) = {}
    <2>1. CASE d.type \in Malformed
        <3>1. job' = [todo |-> T, ready |-> job.ready,
                      dropped |-> Append(job.dropped, d)]
            BY <2>1 DEF RouteEvent
        <3>2. Joins(Append(job.dropped, d), job.dropped, <<d>>)
            BY <1>2, JoinAppend
        <3>3. DescriptorKeys(Append(job.dropped, d)) =
                 DescriptorKeys(job.dropped) \cup KeysOf(d)
            BY <3>2, EventsJoin, Singles
        <3>4. /\ job'.todo = T /\ job'.ready = job.ready
              /\ job'.dropped = Append(job.dropped, d)
            BY <3>1
        <3> QED
            BY <1>5, <3>3, <3>4
    <2>2. CASE d.type \notin Malformed
        <3>1. job' = [todo |-> T, ready |-> job.ready \o handle(d),
                      dropped |-> job.dropped]
            BY <2>2 DEF RouteEvent
        <3>2. Joins(job.ready \o handle(d), job.ready, handle(d))
            BY <1>2, HandleType, JoinConcat
        <3>3. RequestKeys(handle(d)) = KeysOf(d) /\ Spread(EachRequest(handle(d)))
            BY <1>2, HandleKeys
        <3>4. /\ RequestKeys(job.ready \o handle(d)) =
                     RequestKeys(job.ready) \cup KeysOf(d)
              /\ Spread(EachRequest(job.ready \o handle(d)))
            BY <1>5, <3>2, <3>3, RequestsJoin
        <3>5. /\ job'.todo = T /\ job'.ready = job.ready \o handle(d)
              /\ job'.dropped = job.dropped
            BY <3>1
        <3> QED
            BY <1>5, <3>4, <3>5
    <2> QED
        BY <2>1, <2>2
<1> HIDE DEF d, T
<1>8. ChamberTidy'
    <2>1. /\ Spread(EachEvent(job'.todo)) /\ Tidy(job')
          /\ DescriptorKeys(job'.todo) \cap MessageKeys(job') = {}
        BY <1>4, <1>5, <1>7 DEF Tidy, MessageKeys
    <2>2. UNCHANGED <<inbox, outbox>>
        BY DEF RouteEvent
    <2> QED
        BY <2>1, <2>2, ChamberTidyNext DEF ChamberTidy
<1>9. JobKeys' = JobKeys
    <2>1. JobKeys' = DescriptorKeys(job'.todo) \cup MessageKeys(job')
        BY <1>6 DEF JobKeys, DescriptorKeys, KeysOf, FormSet, MessageKeys,
           RequestKeys, KeyOf
    <2> QED
        BY <1>1, <1>4, <1>7, <2>1 DEF JobKeys, MessageKeys
<1>10. \A p \in Places : Placement'[p] = Placement[p]
    BY <1>9, PlacesKept, PlacementIs, PlacementWillBe
       DEF Places, RouteEvent, instance, loop, history
<1>11. Separate(Placement') /\ Anywhere(Placement') = Anywhere(Placement)
    BY <1>10 DEF Separate, Anywhere
<1> QED
    BY <1>8, <1>11 DEF Placed, Noted

LEMMA PostReadyPlaces ==
    ASSUME TypeOK, Separate(Placement), ChamberTidy, PostReady
    PROVE  Placed /\ ChamberTidy'
<1> DEFINE m == [ready |-> job.ready, dropped |-> job.dropped]
           O == Total(EachReply(outbox))
<1>1. job \in Job /\ job # NoJob /\ job.todo = <<>> /\ outbox \in Seq(Message)
    BY DEF PostReady, TypeOK, ChamberType
<1>2. job' = NoJob /\ outbox' = Append(outbox, m) /\ UNCHANGED inbox
    BY DEF PostReady
<1>3. m \in Message
    BY <1>1 DEF Job, Message
<1>4. m.ready = job.ready /\ m.dropped = job.dropped
    OBVIOUS
<1> HIDE DEF m
<1>5. MessageKeys(m) = JobKeys /\ Tidy(m)
    BY <1>1, <1>4, Nothing DEF MessageKeys, JobKeys, ChamberTidy, Tidy
<1>6. Joins(outbox', outbox, <<m>>)
    BY <1>1, <1>2, <1>3, JoinAppend
<1>7. O \cap JobKeys = {} /\ Placement["outbox"] = O /\ Placement["job"] = JobKeys
    BY PlacementIs DEF Separate, Places
<1>8. Total(EachReply(outbox')) = O \cup JobKeys /\ Spread(EachReply(outbox'))
    BY <1>5, <1>6, <1>7, RepliesJoin, JoinTotals, Singles DEF ChamberTidy
<1>9. \A i \in DOMAIN outbox' : Tidy(outbox'[i])
    <2>1. \A i \in DOMAIN outbox' : \/ outbox'[i] = m
                                   \/ \E k \in DOMAIN outbox : outbox'[i] = outbox[k]
        BY <1>1, <1>2, <1>3, AppendProperties, LenProperties
    <2> QED
        BY <1>5, <2>1 DEF ChamberTidy
<1>10. ChamberTidy'
    BY <1>2, <1>8, <1>9, ChamberTidyNext DEF ChamberTidy
<1>11. JobKeys' = {}
    BY <1>2 DEF JobKeys
<1>12. \A p \in Places \ {"job", "outbox"} : Placement'[p] = Placement[p]
    BY PlacesKept DEF Places, PostReady, instance, loop, history
<1>13. Placement'["outbox"] = O \cup JobKeys /\ Placement'["job"] = {}
    BY <1>8, <1>11, PlacementWillBe
<1>14. Separate(Placement') /\ Anywhere(Placement') = Anywhere(Placement)
    BY <1>7, <1>12, <1>13, Move DEF Places
<1> QED
    BY <1>10, <1>14 DEF Placed, Noted

(* A chamber that dies, or is terminated, loses what was queued in it.     *)
LEMMA ChamberLostPlaces ==
    ASSUME Separate(Placement), ChamberTidy, worker' # "up", inbox' = <<>>,
           job' = NoJob, outbox' = <<>> \/ UNCHANGED outbox,
           UNCHANGED <<heldBeacons, ring, loop, egressed, reported>>
    PROVE  Placed /\ ChamberTidy'
<1>1. JobKeys' = {}
    BY DEF JobKeys
<1>2. \A p \in Places : Placement'[p] \subseteq Placement[p]
    BY <1>1, PlacesKept, PlacementWillBe, Nothing DEF Places, loop
<1>3. Separate(Placement') /\ Anywhere(Placement') \subseteq Anywhere(Placement)
    BY <1>2 DEF Separate, Anywhere
<1>4. ChamberTidy'
    <2>1. DOMAIN <<>> = {}
        OBVIOUS
    <2>2. Spread(EachReply(outbox')) /\ \A i \in DOMAIN outbox' : Tidy(outbox'[i])
        BY <2>1, Nothing DEF ChamberTidy
    <2>3. /\ Spread(EachBatch(inbox'))
          /\ \A i \in DOMAIN inbox' : Spread(EachEvent(inbox'[i]))
        BY <2>1, Nothing
    <2> QED
        BY <2>2, <2>3, ChamberTidyNext
<1> QED
    BY <1>3, <1>4 DEF Placed, Noted
-----------------------------------------------------------------------------
(* worker.onmessage: the reply's requests to the loop, its drops to the    *)
(* report.                                                                 *)
LEMMA OnmessagePlaces ==
    ASSUME TypeOK, Separate(Placement), MainTidy, ChamberTidy, onmessage
    PROVE  Placed /\ MainTidy' /\ ChamberTidy'
<1> DEFINE m == Head(outbox)
           T == Tail(outbox)
           S == {"outbox", "ready", "reported"}
<1>1. outbox \in Seq(Message) /\ outbox # <<>> /\ readyTodo = <<>>
    BY DEF onmessage, Idle, LoopDone, TypeOK, ChamberType
<1>2. /\ readyTodo' = m.ready /\ outbox' = T
      /\ reported' = reported \cup DescriptorKeys(m.dropped)
    BY DEF onmessage, DescriptorKeys
<1>3. Joins(outbox, <<m>>, T)
    BY <1>1, JoinHead
<1> HIDE DEF T
<1>4. /\ Total(EachReply(outbox)) = MessageKeys(m) \cup Total(EachReply(T))
      /\ MessageKeys(m) \cap Total(EachReply(T)) = {}
      /\ Spread(EachReply(T))
    BY <1>3, RepliesJoin, JoinTotals, Singles DEF ChamberTidy
<1>5. Tidy(m) /\ \A i \in DOMAIN T : Tidy(T[i])
    <2>1. ASSUME NEW i \in DOMAIN T PROVE Tidy(T[i])
        <3>1. T[i] \in {outbox[k] : k \in DOMAIN outbox}
            BY <1>3, JoinEntries
        <3> QED
            BY <3>1 DEF ChamberTidy
    <2>2. 1 \in DOMAIN outbox /\ m = outbox[1]
        BY <1>1, EmptySeq, LenProperties, HeadTailProperties
    <2> QED
        BY <2>1, <2>2 DEF ChamberTidy
<1> HIDE DEF m
<1>6. /\ Placement["outbox"] = MessageKeys(m) \cup Total(EachReply(T))
      /\ Placement["ready"] = {} /\ Placement["reported"] = reported
      /\ Placement'["outbox"] = Total(EachReply(T))
      /\ Placement'["ready"] = RequestKeys(m.ready)
      /\ Placement'["reported"] = reported \cup DescriptorKeys(m.dropped)
    BY <1>1, <1>2, <1>4, PlacementIs, PlacementWillBe, Nothing
<1>7. \A p \in Places \ S : Placement'[p] = Placement[p]
    BY PlacesKept DEF Places, onmessage, instance
<1>8. reported \cap (MessageKeys(m) \cup Total(EachReply(T))) = {}
    BY <1>6 DEF Separate, Places
<1>9. /\ MessageKeys(m) = RequestKeys(m.ready) \cup DescriptorKeys(m.dropped)
      /\ RequestKeys(m.ready) \cap DescriptorKeys(m.dropped) = {}
    BY <1>5 DEF MessageKeys, Tidy
<1>10. UNION {Placement'[q] : q \in S} = UNION {Placement[q] : q \in S}
    <2>1. \A K : UNION {K[q] : q \in S} = K["outbox"] \cup K["ready"] \cup K["reported"]
        OBVIOUS
    <2>2. UNION {Placement'[q] : q \in S} =
             Placement'["outbox"] \cup Placement'["ready"] \cup Placement'["reported"]
        BY <2>1
    <2>3. UNION {Placement[q] : q \in S} =
             Placement["outbox"] \cup Placement["ready"] \cup Placement["reported"]
        BY <2>1
    <2> HIDE DEF S
    <2> QED
        BY <1>6, <1>9, <2>2, <2>3
<1>11. \A p, q \in S : p # q => Placement'[p] \cap Placement'[q] = {}
    BY <1>4, <1>6, <1>8, <1>9
<1>12. S \in SUBSET Places
    BY DEF Places
<1>13. \A p \in S : Placement'[p] \subseteq UNION {Placement[q] : q \in S}
    BY <1>10
<1> HIDE DEF S
<1>14. Separate(Placement') /\ Anywhere(Placement') \subseteq Anywhere(Placement)
    BY <1>7, <1>11, <1>12, <1>13, Shuffle
<1>15. ASSUME NEW k \in Anywhere(Placement) PROVE k \in Anywhere(Placement')
    <2>1. PICK p \in Places : k \in Placement[p]
        BY DEF Anywhere
    <2>2. CASE p \in S
        <3>1. k \in UNION {Placement'[q] : q \in S}
            BY <1>10, <2>1, <2>2
        <3> QED
            BY <1>12, <3>1 DEF Anywhere
    <2>3. CASE p \notin S
        BY <1>7, <2>1, <2>3 DEF Anywhere
    <2> QED
        BY <2>2, <2>3
<1>16. MainTidy'
    BY <1>2, <1>5 DEF MainTidy, onmessage, instance, Tidy
<1>17. ChamberTidy'
    <2>1. Spread(EachReply(outbox')) /\ \A i \in DOMAIN outbox' : Tidy(outbox'[i])
        BY <1>2, <1>4, <1>5
    <2>2. UNCHANGED <<inbox, job>>
        BY DEF onmessage
    <2> QED
        BY <2>1, <2>2, ChamberTidyNext DEF ChamberTidy
<1> QED
    BY <1>14, <1>15, <1>16, <1>17 DEF Placed, Noted
-----------------------------------------------------------------------------
(* A bundle takes keys that no bundle holds.                               *)
LEMMA BundleGains ==
    ASSUME NEW G \in Seq(Group), NEW i \in DOMAIN G, NEW M \in SUBSET Key,
           Spread(EachBundle(G)), M \cap Total(EachBundle(G)) = {}
    PROVE  LET H == [G EXCEPT ![i].keys = @ \cup M]
           IN /\ Total(EachBundle(H)) = Total(EachBundle(G)) \cup M
              /\ Spread(EachBundle(H))
<1> DEFINE H == [G EXCEPT ![i].keys = @ \cup M]
           F == EachBundle(G)
           E == EachBundle(H)
<1>1. \A j \in DOMAIN G : G[j] \in Group
    BY ElementOfSeq, LenProperties
<1>2. DOMAIN H = DOMAIN G /\ \A j \in DOMAIN G : j # i => H[j] = G[j]
    OBVIOUS
<1>3. H[i].keys = G[i].keys \cup M
    <2>1. H[i] = [G[i] EXCEPT !.keys = @ \cup M]
        OBVIOUS
    <2> HIDE DEF H
    <2> QED
        BY <1>1, <2>1 DEF Group
<1> HIDE DEF H
<1>4. /\ DOMAIN F = DOMAIN G /\ DOMAIN E = DOMAIN G
      /\ \A j \in DOMAIN G : F[j] = G[j].keys
      /\ \A j \in DOMAIN G : j # i => E[j] = F[j]
      /\ E[i] = F[i] \cup M
    BY <1>2, <1>3 DEF EachBundle
<1> HIDE DEF E, F
<1>5. Total(E) = Total(F) \cup M
    <2>1. ASSUME NEW x \in Total(E) PROVE x \in Total(F) \cup M
        <3>1. PICK j \in DOMAIN G : x \in E[j]
            BY <1>4 DEF Total
        <3> QED
            BY <1>4, <3>1 DEF Total
    <2>2. ASSUME NEW x \in Total(F) PROVE x \in Total(E)
        <3>1. PICK j \in DOMAIN G : x \in F[j]
            BY <1>4 DEF Total
        <3>2. x \in E[j]
            BY <1>4, <3>1
        <3> QED
            BY <1>4, <3>2 DEF Total
    <2>3. M \subseteq Total(E)
        BY <1>4 DEF Total
    <2> QED
        BY <2>1, <2>2, <2>3
<1>6. \A j \in DOMAIN G : F[j] \cap M = {}
    BY <1>4 DEF Total, F
<1>7. Spread(E)
    <2>1. Spread(F)
        BY DEF F
    <2>2. ASSUME NEW j \in DOMAIN G, NEW k \in DOMAIN G, j # k
          PROVE  E[j] \cap E[k] = {}
        <3>1. F[j] \cap F[k] = {}
            BY <1>4, <2>1, <2>2 DEF Spread
        <3>2. CASE j = i
            BY <1>4, <1>6, <2>2, <3>1, <3>2
        <3>3. CASE k = i
            BY <1>4, <1>6, <2>2, <3>1, <3>3
        <3>4. CASE j # i /\ k # i
            BY <1>4, <3>1, <3>4
        <3> QED
            BY <3>2, <3>3, <3>4
    <2> QED
        BY <1>4, <2>2 DEF Spread
<1> QED
    BY <1>5, <1>7 DEF E, F, H

(* A bundle loses keys.                                                    *)
LEMMA BundleLoses ==
    ASSUME NEW G \in Seq(Group), NEW i \in DOMAIN G, NEW M \in SUBSET G[i].keys,
           Spread(EachBundle(G))
    PROVE  LET H == [G EXCEPT ![i].keys = @ \ M]
           IN /\ Total(EachBundle(H)) = Total(EachBundle(G)) \ M
              /\ Spread(EachBundle(H))
<1> DEFINE H == [G EXCEPT ![i].keys = @ \ M]
           F == EachBundle(G)
           E == EachBundle(H)
<1>1. \A j \in DOMAIN G : G[j] \in Group
    BY ElementOfSeq, LenProperties
<1>2. DOMAIN H = DOMAIN G /\ \A j \in DOMAIN G : j # i => H[j] = G[j]
    OBVIOUS
<1>3. H[i].keys = G[i].keys \ M
    <2>1. H[i] = [G[i] EXCEPT !.keys = @ \ M]
        OBVIOUS
    <2> HIDE DEF H
    <2> QED
        BY <1>1, <2>1 DEF Group
<1> HIDE DEF H
<1>4. /\ DOMAIN F = DOMAIN G /\ DOMAIN E = DOMAIN G
      /\ \A j \in DOMAIN G : F[j] = G[j].keys
      /\ \A j \in DOMAIN G : j # i => E[j] = F[j]
      /\ E[i] = F[i] \ M
    BY <1>2, <1>3 DEF EachBundle
<1>5. M \subseteq F[i] /\ Spread(F)
    BY <1>4
<1> HIDE DEF E, F
<1>6. \A j \in DOMAIN G : j # i => F[j] \cap M = {}
    BY <1>4, <1>5 DEF Spread
<1>7. Total(E) = Total(F) \ M
    <2>1. ASSUME NEW x \in Total(E) PROVE x \in Total(F) \ M
        <3>1. PICK j \in DOMAIN G : x \in E[j]
            BY <1>4 DEF Total
        <3>2. x \in F[j] /\ x \notin M
            BY <1>4, <1>6, <3>1
        <3> QED
            BY <1>4, <3>2 DEF Total
    <2>2. ASSUME NEW x \in Total(F), x \notin M PROVE x \in Total(E)
        <3>1. PICK j \in DOMAIN G : x \in F[j]
            BY <1>4 DEF Total
        <3>2. x \in E[j]
            BY <1>4, <2>2, <3>1
        <3> QED
            BY <1>4, <3>2 DEF Total
    <2> QED
        BY <2>1, <2>2
<1>8. Spread(E)
    <2>1. ASSUME NEW j \in DOMAIN G, NEW k \in DOMAIN G, j # k
          PROVE  E[j] \cap E[k] = {}
        <3>1. F[j] \cap F[k] = {}
            BY <1>4, <1>5, <2>1 DEF Spread
        <3>2. E[j] \subseteq F[j] /\ E[k] \subseteq F[k]
            BY <1>4
        <3> QED
            BY <3>1, <3>2
    <2> QED
        BY <1>4, <2>1 DEF Spread
<1> QED
    BY <1>7, <1>8 DEF E, F, H

(* A request that is taken off the front of a list of requests.            *)
LEMMA TakeRequest ==
    ASSUME NEW R, NEW q \in Seq(R), q # <<>>, Spread(EachRequest(q))
    PROVE  /\ RequestKeys(q) = {KeyOf(Head(q))} \cup RequestKeys(Tail(q))
           /\ KeyOf(Head(q)) \notin RequestKeys(Tail(q))
           /\ Spread(EachRequest(Tail(q)))
<1>1. Joins(q, <<Head(q)>>, Tail(q))
    BY JoinHead
<1>2. /\ RequestKeys(<<Head(q)>>) = {KeyOf(Head(q))}
      /\ Spread(EachRequest(<<Head(q)>>))
    BY Singles
<1>3. /\ RequestKeys(q) = {KeyOf(Head(q))} \cup RequestKeys(Tail(q))
      /\ {KeyOf(Head(q))} \cap RequestKeys(Tail(q)) = {}
      /\ Spread(EachRequest(Tail(q)))
    BY <1>1, <1>2, RequestsJoin
<1> QED
    BY <1>3

(* Phase 1 of onmessage: refused, held or grouped.                         *)
LEMMA GateRequestPlaces ==
    ASSUME TypeOK, Separate(Placement), MainTidy, GateRequest
    PROVE  Placed /\ MainTidy'
<1> DEFINE r == Head(readyTodo)
           T == Tail(readyTodo)
           k == KeyOf(r)
<1>1. /\ readyTodo \in Seq(Request) /\ readyTodo # <<>> /\ r \in Request
      /\ heldBeacons \in Seq(HeldItem) /\ groups \in Seq(Group)
    BY HeadTailProperties DEF GateRequest, TypeOK, LoopType, InstanceType
<1>2. k \in Key
    BY <1>1 DEF KeyOf, Key, Request
<1>3. /\ RequestKeys(readyTodo) = {k} \cup RequestKeys(T)
      /\ k \notin RequestKeys(T) /\ Spread(EachRequest(T))
    BY <1>1, TakeRequest DEF MainTidy
<1>4. readyTodo' = T
    BY DEF GateRequest
<1>5. \/ /\ reported' = reported \cup {k} /\ UNCHANGED <<heldBeacons, groups>>
      \/ /\ heldBeacons' = Append(heldBeacons,
                [seq |-> r.seq, form |-> r.form, dest |-> r.dest,
                 remap |-> canRemap])
         /\ UNCHANGED <<reported, groups>>
      \/ AddSurvivor(r) /\ UNCHANGED <<reported, heldBeacons>>
    BY DEF GateRequest
<1>6. /\ UNCHANGED <<ring, syncTodo, tracker, inbox, job, outbox, flushTodo,
                     egressed, worker>>
    BY DEF GateRequest, chamber
<1> HIDE DEF T
<1>7. /\ Placement["ready"] = {k} \cup RequestKeys(T)
      /\ Placement'["ready"] = RequestKeys(T)
    BY <1>3, <1>4, PlacementIs, PlacementWillBe
<1>8. k \in Placement["ready"] /\ k \notin RequestKeys(T)
    BY <1>3, <1>7
<1>9. \A p \in Places \ {"ready"} : k \notin Placement[p]
    BY <1>8 DEF Separate, Places
(* Whichever place takes the key, it is the only one that changes.         *)
<1>10. ASSUME NEW dst \in Places \ {"ready"},
              Placement'[dst] = Placement[dst] \cup {k},
              \A p \in Places \ {"ready", dst} : Placement'[p] = Placement[p]
       PROVE  Placed
    <2>1. "ready" \in Places /\ dst \in Places /\ dst # "ready"
        BY DEF Places
    <2>2. Placement["ready"] \cap Placement[dst] = {}
        BY <2>1 DEF Separate
    <2>3. /\ Placement'["ready"] \cup Placement'[dst] =
                Placement["ready"] \cup Placement[dst]
          /\ Placement'["ready"] \cap Placement'[dst] = {}
        BY <1>3, <1>7, <1>10, <2>2
    <2>4. Separate(Placement') /\ Anywhere(Placement') = Anywhere(Placement)
        BY <1>10, <2>1, <2>3, Move
    <2> QED
        BY <2>4 DEF Placed, Noted
<1>11. CASE reported' = reported \cup {k} /\ UNCHANGED <<heldBeacons, groups>>
    <2>1. Placement'["reported"] = Placement["reported"] \cup {k}
        BY <1>11, PlacementIs, PlacementWillBe
    <2>2. \A p \in Places \ {"ready", "reported"} : Placement'[p] = Placement[p]
        BY <1>6, <1>11, PlacesKept DEF Places
    <2>3. "reported" \in Places \ {"ready"}
        BY DEF Places
    <2>4. Placed
        BY <1>10, <2>1, <2>2, <2>3
    <2> QED
        BY <1>3, <1>4, <1>6, <1>11, <2>4 DEF MainTidy
<1>12. ASSUME NEW b, b = [seq |-> r.seq, form |-> r.form, dest |-> r.dest,
                          remap |-> canRemap],
              heldBeacons' = Append(heldBeacons, b),
              UNCHANGED <<reported, groups>>
       PROVE  Placed /\ MainTidy'
    <2>1. b \in HeldItem /\ KeyOf(b) = k
        <3>1. canRemap \in BOOLEAN
            BY ConstantsAssumption DEF canRemap
        <3> QED
            BY <1>1, <1>12, <3>1 DEF HeldItem, Request, KeyOf
    <2>2. Joins(heldBeacons', heldBeacons, <<b>>)
        BY <1>1, <1>12, <2>1, JoinAppend
    <2>3. k \notin RequestKeys(heldBeacons)
        BY <1>9, PlacementIs DEF Places
    <2>4. RequestKeys(<<b>>) = {k} /\ Spread(EachRequest(<<b>>))
        BY <2>1, Singles
    <2>5. /\ RequestKeys(heldBeacons') = RequestKeys(heldBeacons) \cup {k}
          /\ Spread(EachRequest(heldBeacons'))
        BY <2>2, <2>3, <2>4, RequestsJoin DEF MainTidy
    <2>6. Placement'["held"] = Placement["held"] \cup {k}
        BY <2>5, PlacementIs, PlacementWillBe
    <2>7. \A p \in Places \ {"ready", "held"} : Placement'[p] = Placement[p]
        BY <1>6, <1>12, PlacesKept DEF Places
    <2>8. "held" \in Places \ {"ready"}
        BY DEF Places
    <2>9. Placed
        BY <1>10, <2>6, <2>7, <2>8
    <2> QED
        BY <1>3, <1>4, <1>6, <1>12, <2>5, <2>9 DEF MainTidy
<1>13. ASSUME AddSurvivor(r), UNCHANGED <<reported, heldBeacons>>
       PROVE  Placed /\ MainTidy'
    <2>1. k \notin Total(EachBundle(groups)) /\ Spread(EachBundle(groups))
        BY <1>9, PlacementIs DEF Places, MainTidy
    <2>2. /\ Total(EachBundle(groups')) = Total(EachBundle(groups)) \cup {k}
          /\ Spread(EachBundle(groups'))
        <3>1. ASSUME NEW i \in DOMAIN groups,
                     groups' = [groups EXCEPT ![i].keys = @ \cup {k}]
              PROVE  <2>2
            <4>1. {k} \in SUBSET Key /\ {k} \cap Total(EachBundle(groups)) = {}
                BY <1>2, <2>1
            <4>2. LET H == [groups EXCEPT ![i].keys = @ \cup {k}]
                  IN /\ Total(EachBundle(H)) = Total(EachBundle(groups)) \cup {k}
                     /\ Spread(EachBundle(H))
                BY <1>1, <2>1, <4>1, BundleGains
            <4> QED
                BY <3>1, <4>2
        <3>2. ASSUME NEW g, g = [keys |-> {k}, dest |-> r.dest],
                     groups' = Append(groups, g)
              PROVE  <2>2
            <4>1. g \in Group /\ g.keys = {k}
                BY <1>1, <1>2, <3>2 DEF Group, Request
            <4>2. Joins(groups', groups, <<g>>)
                BY <1>1, <3>2, <4>1, JoinAppend
            <4> QED
                BY <2>1, <4>1, <4>2, BundlesJoin, JoinTotals, Singles
        <3> QED
            BY <1>13, <3>1, <3>2 DEF AddSurvivor
    <2>3. Placement'["groups"] = Placement["groups"] \cup {k}
        BY <2>2, PlacementIs, PlacementWillBe
    <2>4. \A p \in Places \ {"ready", "groups"} : Placement'[p] = Placement[p]
        BY <1>6, <1>13, PlacesKept DEF Places
    <2>5. "groups" \in Places \ {"ready"}
        BY DEF Places
    <2>6. Placed
        BY <1>10, <2>3, <2>4, <2>5
    <2> QED
        BY <1>3, <1>4, <1>6, <1>13, <2>2, <2>6 DEF MainTidy
<1> QED
    BY <1>5, <1>11, <1>12, <1>13

(* Keys leave the airlock: a fetch, or a reported drop.                    *)
LEMMA Leaves ==
    ASSUME TypeOK, Separate(Placement), SentTidy,
           NEW src \in Places \ {"reported", "sent"},
           NEW M, M \subseteq Placement[src], Placement'[src] = Placement[src] \ M,
           \A p \in Places \ {src, "reported", "sent"} :
                Placement'[p] = Placement[p],
           \/ reported' = reported \cup M /\ UNCHANGED egressed
           \/ /\ UNCHANGED reported
              /\ \E dest, via : Emit(M, dest, via)
    PROVE  Placed /\ SentTidy' /\ Conserved
<1>1. /\ src \in Places /\ "reported" \in Places /\ "sent" \in Places
      /\ "reported" # "sent" /\ src # "reported" /\ src # "sent"
    BY DEF Places
<1>2. /\ Placement[src] \cap Placement["sent"] = {}
      /\ Placement[src] \cap Placement["reported"] = {}
    BY <1>1 DEF Separate
<1>3. CASE reported' = reported \cup M /\ UNCHANGED egressed
    <2>1. Placement'["sent"] = Placement["sent"]
        BY <1>3, PlacesKept
    <2>2. \A p \in Places \ {src, "reported"} : Placement'[p] = Placement[p]
        BY <2>1
    <2>3. Placement'["reported"] = Placement["reported"] \cup M
        BY <1>3, PlacementIs, PlacementWillBe
    <2>4. /\ Placement'[src] \cup Placement'["reported"] =
                Placement[src] \cup Placement["reported"]
          /\ Placement'[src] \cap Placement'["reported"] = {}
        BY <1>2, <2>3
    <2>5. Separate(Placement') /\ Anywhere(Placement') = Anywhere(Placement)
        BY <1>1, <2>2, <2>4, Move
    <2>6. SentTidy'
        BY <1>3 DEF SentTidy
    <2> QED
        BY <2>5, <2>6 DEF Placed, Noted, Conserved
<1>4. ASSUME UNCHANGED reported, NEW dest, NEW via, Emit(M, dest, via)
      PROVE  Placed /\ SentTidy' /\ Conserved
    <2> DEFINE e == [keys |-> M, dest |-> dest, via |-> via]
    <2>1. egressed \in Seq(Beacon) /\ egressed' = Append(egressed, e)
        BY <1>4 DEF TypeOK, HistoryType, Emit
    <2>2. e.keys = M
        OBVIOUS
    <2> HIDE DEF e
    <2>3. Joins(egressed', egressed, <<e>>)
        BY <2>1, JoinAppend
    <2>4. M \cap Total(EachBundle(egressed)) = {}
        BY <1>2, PlacementIs
    <2>5. /\ Total(EachBundle(egressed')) = Total(EachBundle(egressed)) \cup M
          /\ Spread(EachBundle(egressed'))
        BY <2>2, <2>3, <2>4, BundlesJoin, JoinTotals, Singles DEF SentTidy
    <2>6. Placement'["sent"] = Placement["sent"] \cup M
        BY <2>5, PlacementIs, PlacementWillBe
    <2>7. Placement'["reported"] = Placement["reported"]
        BY <1>4, PlacesKept
    <2>8. \A p \in Places \ {src, "sent"} : Placement'[p] = Placement[p]
        BY <2>7
    <2>9. /\ Placement'[src] \cup Placement'["sent"] =
                Placement[src] \cup Placement["sent"]
          /\ Placement'[src] \cap Placement'["sent"] = {}
        BY <1>2, <2>6
    <2>10. Separate(Placement') /\ Anywhere(Placement') = Anywhere(Placement)
        BY <1>1, <2>8, <2>9, Move
    <2>11. SentTidy'
        BY <2>5 DEF SentTidy
    <2> QED
        BY <2>10, <2>11 DEF Placed, Noted, Conserved
<1> QED
    BY <1>3, <1>4

(* Phase 2: one output of the first group leaves.                          *)
LEMMA DispatchGroupPlaces ==
    ASSUME TypeOK, Separate(Placement), MainTidy, SentTidy, DispatchGroup
    PROVE  Placed /\ MainTidy' /\ SentTidy' /\ Conserved
<1> DEFINE g == Head(groups)
           T == Tail(groups)
<1>1. groups \in Seq(Group) /\ groups # <<>>
    BY DEF DispatchGroup, TypeOK, LoopType
<1>2. 1 \in DOMAIN groups /\ g = groups[1]
    BY <1>1, EmptySeq, LenProperties, HeadTailProperties
<1>3. PICK out \in Outputs(g) :
         /\ \/ /\ Strays(out[2])
               /\ reported' = reported \cup out[1]
               /\ UNCHANGED <<egressed, unsettled>>
            \/ /\ ~Strays(out[2])
               /\ Emit(out[1], out[2], "worker")
               /\ unsettled' = unsettled + 1
               /\ UNCHANGED reported
         /\ groups' = GroupsAfter(out[1])
    BY DEF DispatchGroup
<1> DEFINE M == out[1]
<1>4. M \subseteq g.keys
    BY DEF Outputs
<1>5. /\ Total(EachBundle(groups')) = Total(EachBundle(groups)) \ M
      /\ M \subseteq Total(EachBundle(groups))
      /\ Spread(EachBundle(groups'))
    <2>1. Spread(EachBundle(groups))
        BY DEF MainTidy
    <2>2. Joins(groups, <<g>>, T)
        BY <1>1, JoinHead
    <2>3. Total(EachBundle(<<g>>)) = g.keys
        BY Singles
    <2>4. /\ Total(EachBundle(groups)) = g.keys \cup Total(EachBundle(T))
          /\ g.keys \cap Total(EachBundle(T)) = {}
          /\ Spread(EachBundle(T))
        BY <2>1, <2>2, <2>3, BundlesJoin, JoinTotals
    <2>5. CASE M = g.keys
        <3>1. groups' = T
            BY <1>3, <2>5 DEF GroupsAfter
        <3> QED
            BY <2>4, <2>5, <3>1
    <2>6. CASE M # g.keys
        <3>1. groups' = [groups EXCEPT ![1].keys = @ \ M]
            BY <1>3, <2>6 DEF GroupsAfter
        <3>2. M \in SUBSET groups[1].keys
            BY <1>2, <1>4
        <3>3. LET H == [groups EXCEPT ![1].keys = @ \ M]
              IN /\ Total(EachBundle(H)) = Total(EachBundle(groups)) \ M
                 /\ Spread(EachBundle(H))
            BY <1>1, <1>2, <2>1, <3>2, BundleLoses
        <3> QED
            BY <1>4, <2>4, <3>1, <3>3
    <2> QED
        BY <2>5, <2>6
<1> HIDE DEF M
<1>6. /\ M \subseteq Placement["groups"]
      /\ Placement'["groups"] = Placement["groups"] \ M
    BY <1>5, PlacementIs, PlacementWillBe
<1>7. UNCHANGED <<heldBeacons, ring, readyTodo, syncTodo, tracker, flushTodo,
                 inbox, job, outbox, worker>>
    BY DEF DispatchGroup, instance, chamber
<1>8. \A p \in Places \ {"groups", "reported", "sent"} :
         Placement'[p] = Placement[p]
    BY <1>7, PlacesKept DEF Places
<1>9. \/ reported' = reported \cup M /\ UNCHANGED egressed
      \/ /\ UNCHANGED reported
         /\ \E dest, via : Emit(M, dest, via)
    BY <1>3 DEF M
<1>10. "groups" \in Places \ {"reported", "sent"}
    BY DEF Places
<1>11. Placed /\ SentTidy' /\ Conserved
    BY <1>6, <1>8, <1>9, <1>10, Leaves
<1>12. MainTidy'
    BY <1>5, <1>7 DEF MainTidy
<1> QED
    BY <1>11, <1>12

(* setConsent: what was held is handed to the flush.                       *)
LEMMA SetConsentPlaces ==
    ASSUME TypeOK, Separate(Placement), MainTidy, ChamberTidy,
           NEW u \in ConsentUpdates, setConsent(u)
    PROVE  Placed /\ MainTidy' /\ ChamberTidy' /\ Conserved
<1>1. /\ UNCHANGED <<ring, syncTodo, tracker, inbox, job, outbox, readyTodo,
                     groups, egressed, reported, worker>>
      /\ flushTodo = <<>>
    BY DEF setConsent, Idle, LoopDone, chamber, history
<1>2. ChamberTidy'
    BY <1>1 DEF ChamberTidy, Tidy
<1>3. \A p \in Places \ {"held", "flush"} : Placement'[p] = Placement[p]
    BY <1>1, PlacesKept DEF Places
<1>4. CASE TakeHeld
    <2>1. /\ Placement["flush"] = {} /\ Placement'["held"] = {}
          /\ Placement'["flush"] = Placement["held"]
        BY <1>1, <1>4, PlacementIs, PlacementWillBe, Nothing DEF TakeHeld
    <2>2. Separate(Placement') /\ Anywhere(Placement') = Anywhere(Placement)
        BY <1>3, <2>1, Move DEF Places
    <2>3. MainTidy'
        BY <1>1, <1>4, Nothing DEF MainTidy, TakeHeld
    <2> QED
        BY <1>2, <2>2, <2>3 DEF Placed, Noted, Conserved
<1>5. CASE UNCHANGED <<flushTodo, heldBeacons>>
    <2>1. \A p \in Places : Placement'[p] = Placement[p]
        BY <1>3, <1>5, PlacesKept
    <2>2. Separate(Placement') /\ Anywhere(Placement') = Anywhere(Placement)
        BY <2>1 DEF Separate, Anywhere
    <2>3. MainTidy'
        BY <1>1, <1>5 DEF MainTidy
    <2> QED
        BY <1>2, <2>2, <2>3 DEF Placed, Noted, Conserved
<1> QED
    BY <1>4, <1>5 DEF setConsent

LEMMA FlushHeldPlaces ==
    ASSUME TypeOK, Separate(Placement), MainTidy, SentTidy, FlushHeld
    PROVE  Placed /\ MainTidy' /\ SentTidy' /\ Conserved
<1> DEFINE b == Head(flushTodo)
           T == Tail(flushTodo)
           M == {KeyOf(b)}
<1>1. flushTodo \in Seq(HeldItem) /\ flushTodo # <<>>
    BY DEF FlushHeld, TypeOK, LoopType
<1>2. /\ RequestKeys(flushTodo) = M \cup RequestKeys(T)
      /\ KeyOf(b) \notin RequestKeys(T) /\ Spread(EachRequest(T))
    BY <1>1, TakeRequest DEF MainTidy
<1>3. flushTodo' = T
    BY DEF FlushHeld
<1>4. \/ reported' = reported \cup M /\ UNCHANGED egressed
      \/ /\ UNCHANGED reported
         /\ \E dest, via : Emit(M, dest, via)
    BY DEF FlushHeld
<1>5. UNCHANGED <<heldBeacons, ring, readyTodo, groups, syncTodo, tracker,
                 inbox, job, outbox, worker>>
    BY DEF FlushHeld, instance, chamber
<1> HIDE DEF T, b
<1>6. /\ M \subseteq Placement["flush"]
      /\ Placement'["flush"] = Placement["flush"] \ M
    BY <1>2, <1>3, PlacementIs, PlacementWillBe
<1>7. \A p \in Places \ {"flush", "reported", "sent"} :
         Placement'[p] = Placement[p]
    BY <1>5, PlacesKept DEF Places
<1>8. "flush" \in Places \ {"reported", "sent"}
    BY DEF Places
<1>9. Placed /\ SentTidy' /\ Conserved
    BY <1>4, <1>6, <1>7, <1>8, Leaves
<1>10. MainTidy'
    BY <1>2, <1>3, <1>5 DEF MainTidy
<1> QED
    BY <1>9, <1>10
-----------------------------------------------------------------------------
(* The synchronous loop. Before its first request of an event, all of the  *)
(* event is still to come.                                                 *)
LEMMA FormKeys ==
    ASSUME NEW d \in Descriptor
    PROVE  KeysOf(d) = {<<d.seq, FormsOf[d.type][i]>> : i \in 1..Len(FormsOf[d.type])}
<1>1. FormsOf[d.type] \in Seq(Forms)
    BY ConstantsAssumption DEF Descriptor
<1>2. DOMAIN FormsOf[d.type] = 1..Len(FormsOf[d.type])
    BY <1>1, LenProperties
<1> QED
    BY <1>2 DEF KeysOf, FormSet

LEMMA SyncKeysWhole ==
    ASSUME NEW q \in Seq(Descriptor), q # <<>>
    PROVE  DescriptorKeys(q) =
               {<<Head(q).seq, FormsOf[Head(q).type][i]>> :
                    i \in 1..Len(FormsOf[Head(q).type])}
               \cup DescriptorKeys(Tail(q))
<1>1. Joins(q, <<Head(q)>>, Tail(q)) /\ Head(q) \in Descriptor
    BY JoinHead, HeadTailProperties
<1>2. DescriptorKeys(<<Head(q)>>) = KeysOf(Head(q))
    BY Singles
<1>3. DescriptorKeys(q) = KeysOf(Head(q)) \cup DescriptorKeys(Tail(q))
    BY <1>1, <1>2, EventsJoin
<1> QED
    BY <1>1, <1>3, FormKeys

LEMMA SyncKeysAtStart ==
    /\ syncTodo \in Seq(Descriptor) /\ tracker = 1
            => SyncKeys = DescriptorKeys(syncTodo)
    /\ syncTodo' \in Seq(Descriptor) /\ tracker' = 1
            => SyncKeys' = DescriptorKeys(syncTodo')
<1>1. ASSUME syncTodo \in Seq(Descriptor), tracker = 1
      PROVE  SyncKeys = DescriptorKeys(syncTodo)
    <2>1. CASE syncTodo = <<>>
        BY <2>1, Nothing DEF SyncKeys
    <2>2. CASE syncTodo # <<>>
        BY <1>1, <2>2, SyncKeysWhole DEF SyncKeys
    <2> QED
        BY <2>1, <2>2
<1>2. ASSUME syncTodo' \in Seq(Descriptor), tracker' = 1
      PROVE  SyncKeys' = DescriptorKeys(syncTodo')
    <2>1. CASE syncTodo' = <<>>
        BY <2>1, Nothing DEF SyncKeys
    <2>2. CASE syncTodo' # <<>>
        <3>1. SyncKeys' =
                 {<<Head(syncTodo').seq, FormsOf[Head(syncTodo').type][i]>> :
                      i \in tracker'..Len(FormsOf[Head(syncTodo').type])}
                 \cup DescriptorKeys(Tail(syncTodo'))
            BY <2>2 DEF SyncKeys, DescriptorKeys, KeysOf, FormSet
        <3> QED
            BY <1>2, <2>2, <3>1, SyncKeysWhole
    <2> QED
        BY <2>1, <2>2
<1> QED
    BY <1>1, <1>2

(* The event at the head of the loop, and the others.                      *)
LEMMA SyncHead ==
    ASSUME TypeInv, MainTidy, syncTodo # <<>>
    PROVE  LET d == Head(syncTodo)
               T == Tail(syncTodo)
               forms == FormsOf[d.type]
           IN /\ d \in Descriptor /\ T \in Seq(Descriptor)
              /\ Spread(EachEvent(T)) /\ KeysOf(d) \cap DescriptorKeys(T) = {}
              /\ SyncKeys = {<<d.seq, forms[i]>> : i \in tracker..Len(forms)}
                                \cup DescriptorKeys(T)
              /\ forms \in Seq(Forms) /\ Len(forms) \in Nat
<1>1. syncTodo \in Seq(Descriptor)
    BY DEF TypeInv, TypeOK, LoopType
<1>2. Head(syncTodo) \in Descriptor /\ Tail(syncTodo) \in Seq(Descriptor)
    BY <1>1, HeadTailProperties
<1>3. Joins(syncTodo, <<Head(syncTodo)>>, Tail(syncTodo))
    BY <1>1, JoinHead
<1>4. DescriptorKeys(<<Head(syncTodo)>>) = KeysOf(Head(syncTodo))
    BY Singles
<1>5. /\ Spread(EachEvent(Tail(syncTodo)))
      /\ KeysOf(Head(syncTodo)) \cap DescriptorKeys(Tail(syncTodo)) = {}
    BY <1>3, <1>4, EventsJoin DEF MainTidy
<1>6. FormsOf[Head(syncTodo).type] \in Seq(Forms)
    BY <1>2, ConstantsAssumption DEF Descriptor
<1>7. Len(FormsOf[Head(syncTodo).type]) \in Nat
    BY <1>6, LenProperties
<1> QED
    BY <1>2, <1>5, <1>6, <1>7 DEF SyncKeys

LEMMA SyncDropPlaces ==
    ASSUME TypeInv, Separate(Placement), MainTidy, SentTidy, Gated, SyncDispatch,
           SyncDrop(Head(syncTodo))
    PROVE  Placed /\ MainTidy' /\ SentTidy' /\ Gated'
<1> DEFINE d == Head(syncTodo)
           T == Tail(syncTodo)
<1>1. syncTodo # <<>>
    BY DEF SyncDispatch
<1>2. /\ d \in Descriptor /\ T \in Seq(Descriptor)
      /\ Spread(EachEvent(T)) /\ KeysOf(d) \cap DescriptorKeys(T) = {}
    BY <1>1, SyncHead
<1>3. /\ tracker = 1 /\ tracker' = 1 /\ syncTodo' = T /\ UNCHANGED egressed
      /\ reported' = reported \cup KeysOf(d)
    BY DEF SyncDrop, NextSync, Gated
<1>4. SyncKeys = KeysOf(d) \cup DescriptorKeys(T)
    <2>1. syncTodo \in Seq(Descriptor)
        BY DEF TypeInv, TypeOK, LoopType
    <2>2. Joins(syncTodo, <<d>>, T)
        BY <1>1, <2>1, JoinHead
    <2>3. DescriptorKeys(<<d>>) = KeysOf(d)
        BY Singles
    <2> QED
        BY <1>3, <2>1, <2>2, <2>3, EventsJoin, SyncKeysAtStart
<1>5. SyncKeys' = DescriptorKeys(T)
    BY <1>2, <1>3, SyncKeysAtStart
<1>6. UNCHANGED <<heldBeacons, ring, readyTodo, groups, flushTodo, inbox, job,
                 outbox, worker>>
    BY DEF SyncDispatch, chamber
<1> HIDE DEF d, T
<1>7. /\ KeysOf(d) \subseteq Placement["sync"]
      /\ Placement'["sync"] = Placement["sync"] \ KeysOf(d)
    BY <1>2, <1>4, <1>5, PlacementIs, PlacementWillBe
<1>8. \A p \in Places \ {"sync", "reported", "sent"} :
         Placement'[p] = Placement[p]
    BY <1>6, PlacesKept DEF Places
<1>9. "sync" \in Places \ {"reported", "sent"}
    BY DEF Places
<1>10. TypeOK
    BY DEF TypeInv
<1>11. Placed /\ SentTidy'
    BY <1>3, <1>7, <1>8, <1>9, <1>10, Leaves
<1>12. MainTidy'
    BY <1>2, <1>3, <1>6 DEF MainTidy
<1> QED
    BY <1>3, <1>11, <1>12 DEF Gated

LEMMA SyncThrowPlaces ==
    ASSUME TypeInv, Separate(Placement), MainTidy, SentTidy, SyncDispatch,
           SyncThrow(Head(syncTodo))
    PROVE  Placed /\ MainTidy' /\ SentTidy' /\ Gated'
<1>1. /\ syncTodo' = <<>> /\ tracker' = 1 /\ UNCHANGED <<egressed, reported>>
      /\ abandoned' = abandoned \cup {syncTodo[i].seq : i \in DOMAIN syncTodo}
    BY DEF SyncThrow
<1>2. UNCHANGED <<heldBeacons, ring, readyTodo, groups, flushTodo, inbox, job,
                 outbox, worker>>
    BY DEF SyncDispatch, chamber
<1>3. SyncKeys' = {}
    BY <1>1 DEF SyncKeys
<1>4. \A p \in Places \ {"sync"} : Placement'[p] = Placement[p]
    BY <1>1, <1>2, PlacesKept DEF Places
<1>5. Placement'["sync"] = {}
    BY <1>3, PlacementWillBe
<1>6. \A p \in Places : Placement'[p] \subseteq Placement[p]
    BY <1>4, <1>5
<1>7. Separate(Placement') /\ Anywhere(Placement') \subseteq Anywhere(Placement)
    BY <1>6 DEF Separate, Anywhere
<1>8. ASSUME NEW k \in SyncKeys PROVE k[1] \in abandoned'
    <2> DEFINE d == Head(syncTodo)
               T == Tail(syncTodo)
    <2>1. syncTodo # <<>>
        BY DEF SyncDispatch
    <2>2. k \in {<<d.seq, FormsOf[d.type][i]>> : i \in tracker..Len(FormsOf[d.type])}
             \/ k \in DescriptorKeys(T)
        BY <1>8, <2>1 DEF SyncKeys
    <2>3. CASE k \in DescriptorKeys(T)
        <3>1. PICK i \in DOMAIN T : k \in KeysOf(T[i])
            BY <2>3 DEF DescriptorKeys
        <3>2. k[1] = T[i].seq
            BY <3>1 DEF KeysOf
        <3>3. syncTodo \in Seq(Descriptor)
            BY DEF TypeInv, TypeOK, LoopType
        <3>4. Joins(syncTodo, <<d>>, T)
            BY <2>1, <3>3, JoinHead
        <3>5. T[i] \in {syncTodo[j] : j \in DOMAIN syncTodo}
            BY <3>1, <3>4, JoinEntries
        <3> QED
            BY <1>1, <3>2, <3>5
    <2>4. CASE k \in {<<d.seq, FormsOf[d.type][i]>> :
                          i \in tracker..Len(FormsOf[d.type])}
        <3>1. k[1] = d.seq
            BY <2>4
        <3>2. 1 \in DOMAIN syncTodo /\ d = syncTodo[1]
            BY <2>1, EmptySeq, LenProperties, HeadTailProperties
               DEF TypeInv, TypeOK, LoopType
        <3> QED
            BY <1>1, <3>1, <3>2
    <2> QED
        BY <2>2, <2>3, <2>4
<1>9. ASSUME NEW k \in Anywhere(Placement)
      PROVE  k \in Anywhere(Placement') \/ k[1] \in abandoned'
    <2>1. PICK p \in Places : k \in Placement[p]
        BY DEF Anywhere
    <2>2. CASE p = "sync"
        BY <1>8, <2>1, <2>2, PlacementIs
    <2>3. CASE p # "sync"
        BY <1>4, <2>1, <2>3 DEF Anywhere
    <2> QED
        BY <2>2, <2>3
<1>10. MainTidy'
    BY <1>1, <1>2, Nothing DEF MainTidy
<1>11. SentTidy'
    BY <1>1 DEF SentTidy
<1> QED
    BY <1>1, <1>7, <1>9, <1>10, <1>11 DEF Placed, Noted, Gated

(* One request of the event at the head goes, or the event had none.       *)
LEMMA SyncSendPlaces ==
    ASSUME TypeInv, Separate(Placement), MainTidy, SentTidy, SyncDispatch,
           SyncSend(Head(syncTodo))
    PROVE  Placed /\ MainTidy' /\ SentTidy' /\ Gated' /\ Conserved
<1> DEFINE d == Head(syncTodo)
           T == Tail(syncTodo)
           forms == FormsOf[d.type]
           n == Len(forms)
           M == IF forms = <<>> THEN {} ELSE {<<d.seq, forms[tracker]>>}
           Rest(t) == {<<d.seq, forms[i]>> : i \in t..n}
<1>1. syncTodo # <<>> /\ TypeOK /\ TrackerInRange
    BY DEF SyncDispatch, TypeInv
<1>2. /\ d \in Descriptor /\ T \in Seq(Descriptor)
      /\ Spread(EachEvent(T)) /\ KeysOf(d) \cap DescriptorKeys(T) = {}
      /\ SyncKeys = Rest(tracker) \cup DescriptorKeys(T)
      /\ forms \in Seq(Forms) /\ n \in Nat
    BY <1>1, SyncHead
<1>3. tracker \in Nat \ {0}
    BY <1>1 DEF TypeOK, LoopType
<1>4. \/ reported' = reported \cup M /\ UNCHANGED egressed
      \/ /\ UNCHANGED reported
         /\ \E dest, via : Emit(M, dest, via)
    BY DEF SyncSend
<1>5. IF tracker < n THEN tracker' = tracker + 1 /\ UNCHANGED syncTodo
                     ELSE tracker' = 1 /\ syncTodo' = T
    BY DEF SyncSend, NextSync
<1>6. criticalGate /\ UNCHANGED consentVector
    BY DEF SyncSend, SyncDispatch
<1>7. UNCHANGED <<heldBeacons, ring, readyTodo, groups, flushTodo, inbox, job,
                 outbox, worker>>
    BY DEF SyncDispatch, chamber
<1>8. \A i, j \in 1..n : forms[i] = forms[j] => i = j
    <2>1. DOMAIN forms = 1..n
        BY <1>2, LenProperties
    <2> QED
        BY <1>2, <2>1, ConstantsAssumption DEF Descriptor
<1>9. tracker > n => tracker = 1 /\ n = 0
    BY <1>1, <1>2, <1>3 DEF TrackerInRange
<1>10. forms = <<>> <=> n = 0
    BY <1>2, EmptySeq
<1>11. Rest(tracker) \subseteq KeysOf(d) /\ KeysOf(d) = Rest(1)
    <2>1. KeysOf(d) = Rest(1)
        BY <1>2, FormKeys
    <2>2. \A i \in tracker..n : i \in 1..n
        BY <1>2, <1>3
    <2> QED
        BY <2>1, <2>2
<1>12. /\ M \subseteq SyncKeys /\ SyncKeys' = SyncKeys \ M
    <2>1. CASE n = 0
        <3>1. Rest(tracker) = {} /\ M = {}
            BY <1>3, <1>10, <2>1
        <3>2. tracker' = 1 /\ syncTodo' = T
            BY <1>3, <1>5, <2>1
        <3>3. SyncKeys' = DescriptorKeys(T)
            BY <1>2, <3>2, SyncKeysAtStart
        <3> QED
            BY <1>2, <3>1, <3>3
    <2>2. CASE n # 0
        <3>1. tracker \in 1..n /\ M = {<<d.seq, forms[tracker]>>}
            BY <1>2, <1>3, <1>9, <1>10, <2>2
        <3>2. M \subseteq Rest(tracker)
            BY <1>2, <3>1
        <3>3. M \cap DescriptorKeys(T) = {}
            BY <1>2, <1>11, <3>2
        <3>4. Rest(tracker) \ M = Rest(tracker + 1)
            <4>1. ASSUME NEW i \in tracker..n
                  PROVE  <<d.seq, forms[i]>> \in M <=> i = tracker
                <5>1. i \in 1..n
                    BY <1>2, <1>3, <4>1
                <5> QED
                    BY <1>8, <3>1, <5>1
            <4>2. \A i : i \in (tracker + 1)..n <=> i \in tracker..n /\ i # tracker
                BY <1>2, <1>3
            <4> HIDE DEF M
            <4> QED
                BY <4>1, <4>2
        <3>5. CASE tracker < n
            <4>1. tracker' = tracker + 1 /\ syncTodo' = syncTodo
                BY <1>5, <3>5
            <4>2. SyncKeys' = Rest(tracker + 1) \cup DescriptorKeys(T)
                BY <1>1, <4>1 DEF SyncKeys, DescriptorKeys, KeysOf, FormSet
            <4> HIDE DEF M, Rest
            <4> QED
                BY <1>2, <3>2, <3>3, <3>4, <4>2
        <3>6. CASE ~(tracker < n)
            <4>1. tracker' = 1 /\ syncTodo' = T /\ tracker = n
                BY <1>5, <3>1, <3>6
            <4>2. SyncKeys' = DescriptorKeys(T)
                BY <1>2, <4>1, SyncKeysAtStart
            <4>3. Rest(tracker + 1) = {}
                BY <1>2, <4>1
            <4> HIDE DEF M, Rest
            <4> QED
                BY <1>2, <3>2, <3>3, <3>4, <4>2, <4>3
        <3> QED
            BY <3>5, <3>6
    <2> QED
        BY <2>1, <2>2
<1>13. MainTidy'
    <2>1. Spread(EachEvent(syncTodo'))
        BY <1>2, <1>5 DEF MainTidy
    <2> QED
        BY <1>7, <2>1 DEF MainTidy
<1> HIDE DEF M, d, T, forms, n
<1>14. M \subseteq Placement["sync"] /\ Placement'["sync"] = Placement["sync"] \ M
    BY <1>12, PlacementIs, PlacementWillBe
<1>15. \A p \in Places \ {"sync", "reported", "sent"} :
          Placement'[p] = Placement[p]
    BY <1>7, PlacesKept DEF Places
<1>16. "sync" \in Places \ {"reported", "sent"}
    BY DEF Places
<1>17. Placed /\ SentTidy' /\ Conserved
    BY <1>1, <1>4, <1>14, <1>15, <1>16, Leaves
<1>18. Gated'
    BY <1>6 DEF Gated, criticalGate, SealVerdict
<1> QED
    BY <1>13, <1>17, <1>18

LEMMA SyncDispatchPlaces ==
    ASSUME TypeInv, Separate(Placement), MainTidy, SentTidy, Gated, SyncDispatch
    PROVE  Placed /\ MainTidy' /\ SentTidy' /\ Gated'
    BY SyncDropPlaces, SyncThrowPlaces, SyncSendPlaces DEF SyncDispatch
-----------------------------------------------------------------------------
(* At unload the ring goes to the synchronous loop, in another order.      *)
LEMMA SortPermutes ==
    ASSUME NEW s \in Seq(Descriptor), NEW p \in StableSorts(s)
    PROVE  /\ p \in [DOMAIN s -> DOMAIN s]
           /\ \A i, j \in DOMAIN s : p[i] = p[j] => i = j
           /\ \A k \in DOMAIN s : \E i \in DOMAIN s : p[i] = k
<1> DEFINE n == Len(s)
<1>1. n \in Nat /\ DOMAIN s = 1..n
    BY LenProperties
<1>2. /\ p \in [1..n -> 1..n]
      /\ \A i, j \in 1..n : i < j =>
             \/ Rank(s[p[i]]) < Rank(s[p[j]])
             \/ (Rank(s[p[i]]) = Rank(s[p[j]]) /\ p[i] < p[j])
    BY <1>1 DEF StableSorts
<1>3. \A i \in 1..n : p[i] \in Int /\ Rank(s[p[i]]) \in Int
    BY <1>2 DEF Rank
<1>4. \A i, j \in 1..n : i < j => p[i] # p[j]
    BY <1>2, <1>3
<1>5. \A i, j \in 1..n : p[i] = p[j] => i = j
    BY <1>4
<1>6. p \in Injection(1..n, 1..n)
    BY <1>2, <1>5 DEF Injection, IsInjective
<1>7. IsFiniteSet(1..n)
    BY <1>1, FS_Interval
<1>8. p \in Surjection(1..n, 1..n)
    BY <1>6, <1>7, FS_Injection
<1>9. \A k \in 1..n : \E i \in 1..n : p[i] = k
    BY <1>8 DEF Surjection
<1> QED
    BY <1>1, <1>2, <1>5, <1>9

LEMMA UnloadFlushPlaces ==
    ASSUME TypeInv, Separate(Placement), MainTidy, ChamberTidy, syncTodo = <<>>,
           unloadFlush,
           UNCHANGED <<heldBeacons, readyTodo, groups, tracker, flushTodo,
                       chamber, egressed, reported>>
    PROVE  Placed /\ MainTidy' /\ ChamberTidy'
<1>1. PICK p \in StableSorts(ring) : syncTodo' = [i \in DOMAIN ring |-> ring[p[i]]]
    BY DEF unloadFlush
<1>2. ring' = <<>> /\ tracker = 1 /\ tracker' = 1 /\ TypeOK
    BY DEF unloadFlush, TypeInv, TrackerInRange
<1>3. ring \in Seq(Descriptor) /\ syncTodo' \in Seq(Descriptor)
          /\ syncTodo \in Seq(Descriptor)
    BY <1>2, UnloadFlushType DEF TypeOK, InstanceType, LoopType
<1>4. /\ p \in [DOMAIN ring -> DOMAIN ring]
      /\ \A i, j \in DOMAIN ring : p[i] = p[j] => i = j
      /\ \A k \in DOMAIN ring : \E i \in DOMAIN ring : p[i] = k
    BY <1>3, SortPermutes
<1>5. /\ DOMAIN syncTodo' = DOMAIN ring
      /\ \A i \in DOMAIN ring : syncTodo'[i] = ring[p[i]]
    BY <1>1
<1>6. DescriptorKeys(syncTodo') = DescriptorKeys(ring)
    <2>1. ASSUME NEW x \in DescriptorKeys(syncTodo') PROVE x \in DescriptorKeys(ring)
        <3>1. PICK i \in DOMAIN ring : x \in KeysOf(syncTodo'[i])
            BY <1>5, <2>1 DEF DescriptorKeys
        <3>2. p[i] \in DOMAIN ring /\ x \in KeysOf(ring[p[i]])
            BY <1>4, <1>5, <3>1
        <3> QED
            BY <3>2 DEF DescriptorKeys
    <2>2. ASSUME NEW x \in DescriptorKeys(ring) PROVE x \in DescriptorKeys(syncTodo')
        <3>1. PICK k \in DOMAIN ring : x \in KeysOf(ring[k])
            BY <2>2 DEF DescriptorKeys
        <3>2. PICK i \in DOMAIN ring : p[i] = k
            BY <1>4
        <3>3. i \in DOMAIN syncTodo' /\ x \in KeysOf(syncTodo'[i])
            BY <1>5, <3>1, <3>2
        <3> QED
            BY <3>3 DEF DescriptorKeys
    <2> QED
        BY <2>1, <2>2
<1>7. Spread(EachEvent(syncTodo'))
    <2>1. ASSUME NEW i \in DOMAIN ring, NEW j \in DOMAIN ring, i # j
          PROVE  KeysOf(syncTodo'[i]) \cap KeysOf(syncTodo'[j]) = {}
        <3>1. p[i] \in DOMAIN ring /\ p[j] \in DOMAIN ring /\ p[i] # p[j]
            BY <1>4, <2>1
        <3>2. \A k, l \in DOMAIN ring : k # l => KeysOf(ring[k]) \cap KeysOf(ring[l]) = {}
            BY DEF MainTidy, Spread, EachEvent
        <3> QED
            BY <1>5, <3>1, <3>2
    <2> QED
        BY <1>5, <2>1 DEF Spread, EachEvent
<1>8. /\ Placement["ring"] = DescriptorKeys(ring) /\ Placement["sync"] = {}
      /\ Placement'["ring"] = {} /\ Placement'["sync"] = DescriptorKeys(ring)
    <2>1. SyncKeys = {} /\ SyncKeys' = DescriptorKeys(ring)
        BY <1>2, <1>3, <1>6, SyncKeysAtStart DEF SyncKeys
    <2> QED
        BY <1>2, <2>1, PlacementIs, PlacementWillBe, Nothing
<1>9. \A q \in Places \ {"ring", "sync"} : Placement'[q] = Placement[q]
    BY PlacesKept DEF Places, chamber
<1>10. Separate(Placement') /\ Anywhere(Placement') = Anywhere(Placement)
    BY <1>8, <1>9, Move DEF Places
<1>11. MainTidy'
    BY <1>2, <1>7, Nothing DEF MainTidy
<1>12. ChamberTidy'
    BY DEF ChamberTidy, chamber, Tidy
<1> QED
    BY <1>10, <1>11, <1>12 DEF Placed, Noted
-----------------------------------------------------------------------------
(* New events: their number has not been used.                             *)
LEMMA Arrives ==
    ASSUME TypeInv, Separate(Placement), Fresh, NEW d \in Descriptor,
           NEW dst \in Places,
           d.seq \notin -pushedCritical..(seq - 1),
           Placement'[dst] = Placement[dst] \cup KeysOf(d),
           \A p \in Places \ {dst} : Placement'[p] = Placement[p]
    PROVE  /\ Separate(Placement') /\ Noted
           /\ KeysOf(d) \cap Anywhere(Placement) = {}
           /\ Anywhere(Placement') = Anywhere(Placement) \cup KeysOf(d)
<1>1. \A k \in KeysOf(d) : k[1] = d.seq
    BY DEF KeysOf
<1>2. KeysOf(d) \cap Anywhere(Placement) = {}
    BY <1>1 DEF Fresh
<1>3. /\ Separate(Placement')
      /\ Anywhere(Placement') \subseteq Anywhere(Placement) \cup KeysOf(d)
    BY <1>2, Arrive
<1>4. \A p \in Places : Placement[p] \subseteq Placement'[p]
    OBVIOUS
<1>5. Anywhere(Placement) \cup KeysOf(d) \subseteq Anywhere(Placement')
    BY <1>4 DEF Anywhere
<1> QED
    BY <1>2, <1>3, <1>5 DEF Noted

LEMMA PushPlaces ==
    ASSUME TypeInv, FateInv, NEW t \in Types, push(t)
    PROVE  /\ FateInv' /\ Noted
           /\ DescriptorKeys(log') \subseteq
                   DescriptorKeys(log) \cup Anywhere(Placement')
           /\ LET d == [seq |-> seq, type |-> t]
              IN /\ KeysOf(d) \cap Anywhere(Placement) = {}
                 /\ Anywhere(Placement') = Anywhere(Placement) \cup KeysOf(d)
<1> DEFINE d == [seq |-> seq, type |-> t]
<1>1. TypeOK /\ ring \in Seq(Descriptor) /\ log \in Seq(Descriptor)
          /\ seq \in Nat /\ pushedCritical \in Nat
    BY LenProperties DEF TypeInv, TypeOK, InstanceType, EnvironmentType, seq
<1>2. d \in Descriptor /\ d.seq = seq
    BY <1>1 DEF Descriptor
<1>3. ring' = Append(ring, d) /\ log' = Append(log, d)
    BY DEF push
<1>4. UNCHANGED <<heldBeacons, loop, chamber, egressed, reported, pushedCritical,
                 consentVector>>
    BY DEF push, bounds, history
<1> HIDE DEF d
<1>5. Joins(ring', ring, <<d>>) /\ Joins(log', log, <<d>>)
    BY <1>1, <1>3, JoinAppend
<1>6. /\ DescriptorKeys(ring') = DescriptorKeys(ring) \cup KeysOf(d)
      /\ DescriptorKeys(log') = DescriptorKeys(log) \cup KeysOf(d)
    BY <1>5, EventsJoin, Singles
<1>7. Placement'["ring"] = Placement["ring"] \cup KeysOf(d)
    BY <1>6, PlacementIs, PlacementWillBe
<1>8. \A p \in Places \ {"ring"} : Placement'[p] = Placement[p]
    BY <1>4, PlacesKept DEF Places, loop, chamber
<1>9. "ring" \in Places /\ d.seq \notin -pushedCritical..(seq - 1)
    BY <1>1, <1>2 DEF Places
<1>10. Separate(Placement) /\ Fresh
    BY DEF FateInv
<1>11. /\ Separate(Placement') /\ Noted
       /\ KeysOf(d) \cap Anywhere(Placement) = {}
       /\ Anywhere(Placement') = Anywhere(Placement) \cup KeysOf(d)
    BY <1>2, <1>7, <1>8, <1>9, <1>10, Arrives
<1>12. MainTidy'
    <2>1. DescriptorKeys(ring) \cap KeysOf(d) = {}
        BY <1>9, <1>11, PlacementIs DEF Anywhere
    <2>2. DescriptorKeys(<<d>>) = KeysOf(d) /\ Spread(EachEvent(<<d>>))
        BY Singles
    <2>3. Spread(EachEvent(ring'))
        BY <1>5, <2>1, <2>2, EventsJoin DEF FateInv, MainTidy
    <2> QED
        BY <1>4, <2>3 DEF FateInv, MainTidy, loop
<1>13. ChamberTidy' /\ SentTidy' /\ Gated'
    BY <1>4 DEF FateInv, ChamberTidy, chamber, Tidy, SentTidy, Gated, loop,
       criticalGate, SealVerdict
<1>14. Fresh'
    <2>1. seq' = seq + 1
        BY <1>1, <1>3 DEF seq
    <2>2. ASSUME NEW k \in Anywhere(Placement')
          PROVE  k[1] \in -pushedCritical..seq
        <3>1. CASE k \in Anywhere(Placement)
            BY <1>1, <1>10, <3>1 DEF Fresh
        <3>2. CASE k \in KeysOf(d)
            <4>1. k[1] = seq
                BY <1>2, <3>2 DEF KeysOf
            <4> QED
                BY <1>1, <4>1
        <3> QED
            BY <1>11, <3>1, <3>2
    <2>3. seq' - 1 = seq
        BY <1>1, <2>1
    <2> QED
        BY <1>4, <2>2, <2>3 DEF Fresh
<1> QED
    BY <1>6, <1>11, <1>12, <1>13, <1>14 DEF FateInv, d

LEMMA PushCriticalPlaces ==
    ASSUME TypeInv, FateInv, NEW t \in Types, pushCritical(t)
    PROVE  /\ FateInv' /\ Noted
           /\ LET d == [seq |-> -(pushedCritical + 1), type |-> t]
              IN /\ KeysOf(d) \cap Anywhere(Placement) = {}
                 /\ Anywhere(Placement') = Anywhere(Placement) \cup KeysOf(d)
<1> DEFINE d == [seq |-> -(pushedCritical + 1), type |-> t]
<1>1. TypeOK /\ seq \in Nat /\ pushedCritical \in Nat /\ syncTodo = <<>>
          /\ tracker = 1
    BY LenProperties DEF TypeInv, TypeOK, InstanceType, EnvironmentType, seq,
       TrackerInRange, pushCritical, Idle, LoopDone
<1>2. d \in Descriptor /\ d.seq = -(pushedCritical + 1)
    BY <1>1 DEF Descriptor
<1>3. syncTodo' = <<d>> /\ pushedCritical' = pushedCritical + 1
    BY DEF pushCritical
<1>4. UNCHANGED <<heldBeacons, ring, readyTodo, groups, tracker, flushTodo,
                 chamber, egressed, reported, consentVector, log>>
    BY DEF pushCritical, instance, history
<1> HIDE DEF d
<1>5. DescriptorKeys(syncTodo') = KeysOf(d) /\ Spread(EachEvent(syncTodo'))
    BY <1>3, Singles
<1>6. SyncKeys = {} /\ SyncKeys' = KeysOf(d)
    <2>1. syncTodo' \in Seq(Descriptor)
        BY <1>1, PushCriticalType DEF TypeOK, LoopType
    <2> QED
        BY <1>1, <1>4, <1>5, <2>1, SyncKeysAtStart DEF SyncKeys
<1>7. Placement'["sync"] = Placement["sync"] \cup KeysOf(d)
    BY <1>6, PlacementIs, PlacementWillBe
<1>8. \A p \in Places \ {"sync"} : Placement'[p] = Placement[p]
    BY <1>4, PlacesKept DEF Places, chamber
<1>9. "sync" \in Places /\ d.seq \notin -pushedCritical..(seq - 1)
    BY <1>1, <1>2 DEF Places
<1>10. Separate(Placement) /\ Fresh
    BY DEF FateInv
<1>11. /\ Separate(Placement') /\ Noted
       /\ KeysOf(d) \cap Anywhere(Placement) = {}
       /\ Anywhere(Placement') = Anywhere(Placement) \cup KeysOf(d)
    BY <1>2, <1>7, <1>8, <1>9, <1>10, Arrives
<1>12. MainTidy'
    BY <1>4, <1>5 DEF FateInv, MainTidy
<1>13. ChamberTidy' /\ SentTidy' /\ Gated'
    BY <1>1, <1>4 DEF FateInv, ChamberTidy, chamber, Tidy, SentTidy, Gated
<1>14. Fresh'
    <2>1. seq' = seq
        BY <1>4 DEF seq
    <2>2. ASSUME NEW k \in Anywhere(Placement')
          PROVE  k[1] \in -(pushedCritical + 1)..(seq - 1)
        <3>1. CASE k \in Anywhere(Placement)
            <4>1. k[1] \in -pushedCritical..(seq - 1)
                BY <1>10, <3>1 DEF Fresh
            <4> QED
                BY <1>1, <4>1
        <3>2. CASE k \in KeysOf(d)
            <4>1. k[1] = -(pushedCritical + 1)
                BY <1>2, <3>2 DEF KeysOf
            <4> QED
                BY <1>1, <4>1
        <3> QED
            BY <1>11, <3>1, <3>2
    <2> QED
        BY <1>3, <2>1, <2>2 DEF Fresh
<1> QED
    BY <1>11, <1>12, <1>13, <1>14 DEF FateInv, d
-----------------------------------------------------------------------------
(* Every other step only moves keys about.                                 *)
Rearranged == /\ Placed /\ MainTidy' /\ ChamberTidy' /\ SentTidy'
              /\ UNCHANGED <<log, pushedCritical>>

LEMMA RearrangedStep ==
    ASSUME TypeInv, FateInv, [Next]_vars,
           ~\E t \in Types : push(t) \/ pushCritical(t)
    PROVE  Rearranged
<1>1. /\ TypeOK /\ Separate(Placement) /\ MainTidy /\ ChamberTidy /\ SentTidy
      /\ Gated
    BY DEF TypeInv, FateInv
<1>2. CASE UNCHANGED <<heldBeacons, ring, loop, chamber, egressed, reported, log,
                       pushedCritical>>
    BY <1>1, <1>2, Still DEF Rearranged
<1>3. CASE sendBatch(ThisChunk) /\ ring' = NextChunks /\ (drain \/ FlushNowChunk)
    <2>1. /\ UNCHANGED <<syncTodo, tracker, worker, job, outbox, readyTodo, groups,
                         flushTodo, heldBeacons, egressed, reported>>
          /\ UNCHANGED <<log, pushedCritical>>
        BY <1>3 DEF drain, FlushNowChunk, loop, bounds
    <2>2. Placed /\ MainTidy' /\ ChamberTidy'
        BY <1>1, <1>3, <2>1, SendBatchPlaces
    <2> QED
        BY <1>1, <2>1, <2>2 DEF Rearranged, SentTidy
<1>4. CASE drain \/ FlushNowChunk
    BY <1>2, <1>3, <1>4 DEF drain, FlushNowChunk, chamber, bounds
<1>5. CASE StartBatch \/ RouteEvent \/ PostReady
    <2>1. Placed /\ ChamberTidy'
        BY <1>1, <1>5, StartBatchPlaces, RouteEventPlaces, PostReadyPlaces
    <2>2. UNCHANGED <<instance, loop, bounds, history>>
        BY <1>5 DEF StartBatch, RouteEvent, PostReady
    <2> QED
        BY <1>1, <2>1, <2>2
           DEF Rearranged, MainTidy, SentTidy, instance, loop, bounds, history
<1>6. CASE WorkerFails \/ dispose
    <2>1. /\ worker' # "up" /\ inbox' = <<>> /\ job' = NoJob
          /\ outbox' = <<>> \/ UNCHANGED outbox
          /\ UNCHANGED <<heldBeacons, ring, loop, bounds, history, log>>
        BY <1>6 DEF WorkerFails, dispose, instance
    <2>2. Placed /\ ChamberTidy'
        BY <1>1, <2>1, ChamberLostPlaces DEF history
    <2> QED
        BY <1>1, <2>1, <2>2
           DEF Rearranged, MainTidy, SentTidy, loop, bounds, history
<1>7. CASE onmessage
    BY <1>1, <1>7, OnmessagePlaces
       DEF Rearranged, onmessage, SentTidy, instance, bounds
<1>8. CASE GateRequest
    BY <1>1, <1>8, GateRequestPlaces
       DEF Rearranged, GateRequest, SentTidy, ChamberTidy, Tidy, chamber, bounds
<1>9. CASE DispatchGroup
    BY <1>1, <1>9, DispatchGroupPlaces
       DEF Rearranged, DispatchGroup, ChamberTidy, Tidy, chamber, bounds, instance
<1>10. ASSUME NEW u \in ConsentUpdates, setConsent(u) PROVE Rearranged
    BY <1>1, <1>10, SetConsentPlaces DEF Rearranged, setConsent, SentTidy, history
<1>11. CASE FlushHeld
    BY <1>1, <1>11, FlushHeldPlaces
       DEF Rearranged, FlushHeld, ChamberTidy, Tidy, chamber, bounds, instance
<1>12. CASE SyncDispatch
    BY <1>1, <1>12, SyncDispatchPlaces
       DEF Rearranged, SyncDispatch, ChamberTidy, Tidy, chamber, bounds
<1>13. CASE Hide \/ PageHide
    <2>1. syncTodo = <<>> /\ FlushOnLeaving
        BY <1>13 DEF Hide, PageHide, Idle, LoopDone
    <2>2. CASE Listening
        <3>1. /\ unloadFlush
              /\ UNCHANGED <<heldBeacons, readyTodo, groups, tracker, flushTodo,
                             chamber, egressed, reported, log, pushedCritical>>
            BY <2>1, <2>2 DEF FlushOnLeaving, history
        <3> QED
            BY <1>1, <2>1, <3>1, UnloadFlushPlaces DEF Rearranged, SentTidy
    <2>3. CASE ~Listening
        BY <1>2, <2>1, <2>3 DEF FlushOnLeaving, loop, history
    <2> QED
        BY <2>2, <2>3
<1>14. CASE FetchSettles \/ Show \/ UNCHANGED vars
    BY <1>2, <1>14 DEF FetchSettles, Show, vars, instance, bounds, history
<1> QED
    BY <1>4, <1>5, <1>6, <1>7, <1>8, <1>9, <1>10, <1>11, <1>12, <1>13, <1>14
       DEF Next, Host, Browser, Chamber, Main, flushNow, flushNowContinues

(* The gate of a loop that has gone past a first request stays open: only  *)
(* setConsent moves it, and setConsent waits for the loop to end.          *)
LEMMA GatedStep ==
    ASSUME TypeInv, FateInv, [Next]_vars
    PROVE  Gated'
<1>1. CASE UNCHANGED <<tracker, consentVector>>
    BY <1>1 DEF FateInv, Gated, criticalGate, SealVerdict
<1>2. CASE SyncDispatch
    BY <1>2, SyncDispatchPlaces DEF FateInv
<1>3. ASSUME NEW u \in ConsentUpdates, setConsent(u) PROVE Gated'
    BY <1>3 DEF setConsent, Idle, LoopDone, TypeInv, TrackerInRange, Gated
<1> QED
    BY <1>1, <1>2, <1>3
       DEF Next, Host, Browser, Chamber, Main, vars, instance, loop, push,
           pushCritical, flushNow, dispose, Hide, Show, PageHide, WorkerFails,
           FlushOnLeaving, StartBatch, RouteEvent, PostReady, drain, onmessage,
           FetchSettles, GateRequest, DispatchGroup, FlushHeld,
           flushNowContinues, FlushNowChunk

LEMMA FateStep ==
    ASSUME TypeInv, FateInv, [Next]_vars
    PROVE  FateInv'
<1>1. ASSUME NEW t \in Types, push(t) \/ pushCritical(t) PROVE FateInv'
    BY <1>1, PushPlaces, PushCriticalPlaces
<1>2. CASE ~\E t \in Types : push(t) \/ pushCritical(t)
    <2>1. Rearranged
        BY <1>2, RearrangedStep
    <2>2. Fresh'
        <3>1. UNCHANGED <<seq, pushedCritical>>
            BY <2>1 DEF Rearranged, seq
        <3> QED
            BY <2>1, <3>1 DEF Rearranged, Placed, FateInv, Fresh
    <2> QED
        BY <2>1, <2>2, GatedStep DEF FateInv, Rearranged, Placed
<1> QED
    BY <1>1, <1>2

LEMMA FateInit == Init => FateInv
<1> SUFFICES ASSUME Init PROVE FateInv
    OBVIOUS
<1>1. \A p \in Places : Placement[p] = {}
    BY PlacementIs, Nothing DEF Init, Places, SyncKeys, JobKeys
<1>2. Separate(Placement) /\ Fresh
    BY <1>1 DEF Separate, Fresh, Anywhere
<1>3. DOMAIN <<>> = {}
    OBVIOUS
<1>4. MainTidy /\ ChamberTidy /\ SentTidy /\ Gated
    BY <1>3, Nothing DEF Init, MainTidy, ChamberTidy, SentTidy, Gated
<1> QED
    BY <1>2, <1>4 DEF FateInv

LEMMA FateInvariant == Spec => [](TypeInv /\ FateInv)
<1>1. Init => TypeInv /\ FateInv
    BY FateInit, InitType DEF Init, TypeInv, TrackerInRange
<1>2. TypeInv /\ FateInv /\ [Next]_vars => (TypeInv /\ FateInv)'
    BY TypeStep, FateStep
<1> QED
    BY <1>1, <1>2, PTL DEF Spec

(* The places are those the properties speak of.                           *)
LEMMA PlacesMeant ==
    /\ InTransit = UNION {Placement[p] : p \in Places \ {"held", "sent", "reported"}}
    /\ Held = Placement["held"] /\ Sent = Placement["sent"]
    /\ reported = Placement["reported"]
<1>1. /\ UNION {DescriptorKeys(inbox[i]) : i \in DOMAIN inbox} = Total(EachBatch(inbox))
      /\ UNION {MessageKeys(outbox[i]) : i \in DOMAIN outbox} = Total(EachReply(outbox))
      /\ UNION {groups[i].keys : i \in DOMAIN groups} = Total(EachBundle(groups))
      /\ Sent = Total(EachBundle(egressed))
    BY DEF Total, EachBatch, EachReply, EachBundle, Sent
<1>2. InTransit = DescriptorKeys(ring) \cup SyncKeys \cup Total(EachBatch(inbox))
                  \cup JobKeys \cup Total(EachReply(outbox))
                  \cup RequestKeys(readyTodo) \cup Total(EachBundle(groups))
                  \cup RequestKeys(flushTodo)
    <2>1. JobKeys = IF job = NoJob THEN {}
                    ELSE DescriptorKeys(job.todo) \cup MessageKeys(job)
        BY Zenon DEF JobKeys, MessageKeys
    <2> DEFINE I == UNION {DescriptorKeys(inbox[i]) : i \in DOMAIN inbox}
               J == IF job = NoJob THEN {}
                    ELSE DescriptorKeys(job.todo) \cup MessageKeys(job)
               O == UNION {MessageKeys(outbox[i]) : i \in DOMAIN outbox}
               G == UNION {groups[i].keys : i \in DOMAIN groups}
    <2>2. InTransit = DescriptorKeys(ring) \cup SyncKeys \cup I \cup J \cup O
                      \cup RequestKeys(readyTodo) \cup G \cup RequestKeys(flushTodo)
        BY DEF InTransit
    <2>3. /\ I = Total(EachBatch(inbox)) /\ J = JobKeys
          /\ O = Total(EachReply(outbox)) /\ G = Total(EachBundle(groups))
        BY <1>1, <2>1, Zenon
    <2> HIDE DEF I, J, O, G
    <2> QED
        BY <2>2, <2>3
<1>3. Places \ {"held", "sent", "reported"} =
         {"ring", "sync", "inbox", "job", "outbox", "ready", "groups", "flush"}
    BY DEF Places
<1>4. UNION {Placement[p] : p \in Places \ {"held", "sent", "reported"}} =
         Placement["ring"] \cup Placement["sync"] \cup Placement["inbox"]
         \cup Placement["job"] \cup Placement["outbox"] \cup Placement["ready"]
         \cup Placement["groups"] \cup Placement["flush"]
    <2> DEFINE S == Placement
    <2>1. UNION {S[p] : p \in {"ring", "sync", "inbox", "job", "outbox", "ready",
                                 "groups", "flush"}} =
             S["ring"] \cup S["sync"] \cup S["inbox"] \cup S["job"]
             \cup S["outbox"] \cup S["ready"] \cup S["groups"] \cup S["flush"]
        <3> HIDE DEF S
        <3> QED
            OBVIOUS
    <2> QED
        BY <1>3, <2>1
<1> QED
    BY <1>1, <1>2, <1>4, PlacementIs DEF Held

(* An event's request is fetched at most once, whichever path carries it   *)
(* and whatever crashes, flushes or hides in between (egress.js:15-19).    *)
THEOREM FetchedAtMostOnce == Spec => []AtMostOnce
<1>1. FateInv => AtMostOnce
    BY DEF FateInv, SentTidy, Spread, EachBundle, AtMostOnce
<1> QED
    BY <1>1, FateInvariant, PTL

(* What was reported dropped is neither sent nor under way, and what was   *)
(* sent is not under way or held a second time (airlock.js:497-640).       *)
THEOREM FateIsOne == Spec => []OneFate
<1>1. FateInv => OneFate
    <2> SUFFICES ASSUME FateInv PROVE OneFate
        OBVIOUS
    <2>1. Separate(Placement)
        BY DEF FateInv
    <2>2. Sent \cap reported = {}
        BY <2>1, PlacesMeant DEF Separate, Places
    <2>3. (Sent \cup reported) \cap (InTransit \cup Held) = {}
        <3>1. \A p \in Places \ {"sent", "reported"} :
                 /\ Placement[p] \cap Placement["sent"] = {}
                 /\ Placement[p] \cap Placement["reported"] = {}
            BY <2>1 DEF Separate, Places
        <3> QED
            BY <3>1, PlacesMeant DEF Places
    <2>4. InTransit \cap Held = {}
        <3>1. \A p \in Places \ {"held"} : Placement[p] \cap Placement["held"] = {}
            BY <2>1 DEF Separate, Places
        <3> QED
            BY <3>1, PlacesMeant DEF Places
    <2> QED
        BY <2>2, <2>3, <2>4 DEF OneFate
<1> QED
    BY <1>1, FateInvariant, PTL
-----------------------------------------------------------------------------
(* Every logged event is somewhere, or was abandoned.                      *)
Covered ==
    worker = "up" =>
        \A k \in DescriptorKeys(log) :
            k \in Anywhere(Placement) \/ k[1] \in abandoned

LEMMA AbandonedGrows ==
    ASSUME [Next]_vars
    PROVE  abandoned \subseteq abandoned' /\ (worker' = "up" => worker = "up")
<1>1. abandoned \subseteq abandoned'
    BY DEF Next, Host, Browser, Chamber, Main, vars, history, push,
           pushCritical, setConsent, flushNow, dispose, Hide, Show, PageHide,
           WorkerFails, FlushOnLeaving, StartBatch, RouteEvent, PostReady, drain,
           sendBatch, onmessage, FetchSettles, GateRequest, DispatchGroup,
           FlushHeld, flushNowContinues, FlushNowChunk, SyncDispatch, SyncDrop,
           SyncThrow, SyncSend
<1>2. worker' = "up" => worker = "up"
    BY DEF Next, Host, Browser, Chamber, Main, vars, chamber, push,
           pushCritical, setConsent, flushNow, dispose, Hide, Show, PageHide,
           WorkerFails, FlushOnLeaving, StartBatch, RouteEvent, PostReady, drain,
           onmessage, FetchSettles, GateRequest, DispatchGroup,
           FlushHeld, flushNowContinues, FlushNowChunk, SyncDispatch
<1> QED
    BY <1>1, <1>2

LEMMA CoveredStep ==
    ASSUME TypeInv, FateInv, Covered, [Next]_vars
    PROVE  Covered'
<1> SUFFICES ASSUME worker' = "up", NEW k \in DescriptorKeys(log')
             PROVE  k \in Anywhere(Placement') \/ k[1] \in abandoned'
    BY DEF Covered, DescriptorKeys, KeysOf, FormSet
<1>1. Noted /\ (k \in DescriptorKeys(log) \/ k \in Anywhere(Placement'))
    <2>1. ASSUME NEW t \in Types, push(t) PROVE <1>1
        BY <2>1, PushPlaces
    <2>2. ASSUME NEW t \in Types, pushCritical(t) PROVE <1>1
        BY <2>2, PushCriticalPlaces DEF pushCritical, instance
    <2>3. CASE ~\E t \in Types : push(t) \/ pushCritical(t)
        BY <2>3, RearrangedStep DEF Rearranged, Placed
    <2> QED
        BY <2>1, <2>2, <2>3
<1>2. CASE k \in DescriptorKeys(log)
    BY <1>1, <1>2, AbandonedGrows DEF Covered, Noted
<1> QED
    BY <1>1, <1>2

(* While the chamber is up, every request of every push()ed event is in    *)
(* transit, held, sent, reported or abandoned: no path drops one without a *)
(* word (airlock.js:401-470, 563-640).                                     *)
THEOREM NothingLostSilently == Spec => []NoSilentLoss
<1>1. Init => Covered
    BY Nothing DEF Init, Covered
<1>2. TypeInv /\ FateInv /\ Covered /\ [Next]_vars => Covered'
    BY CoveredStep
<1>3. Covered => NoSilentLoss
    <2> SUFFICES ASSUME Covered, worker = "up", NEW k \in DescriptorKeys(log)
                 PROVE  k \in InTransit \cup Held \cup Sent \cup reported \cup Abandoned
        BY DEF NoSilentLoss
    <2>1. CASE k[1] \in abandoned
        BY <2>1 DEF Abandoned
    <2>2. ASSUME NEW p \in Places, k \in Placement[p]
          PROVE  k \in InTransit \cup Held \cup Sent \cup reported
        BY <2>2, PlacesMeant
    <2> QED
        BY <2>1, <2>2 DEF Covered, Anywhere
<1> QED
    BY <1>1, <1>2, <1>3, FateInvariant, PTL DEF Spec
-----------------------------------------------------------------------------
(* The seal. What it takes as pending is what is somewhere but has not     *)
(* left, and it counts one fetch of what left.                             *)
Pending == InTransit \cup Held

LEMMA PendingIs ==
    Separate(Placement) => Pending = Anywhere(Placement) \ (Sent \cup reported)
<1> SUFFICES ASSUME Separate(Placement)
             PROVE  Pending = Anywhere(Placement) \ (Sent \cup reported)
    OBVIOUS
<1>1. \A p \in Places \ {"sent", "reported"} :
         Placement[p] \cap (Placement["sent"] \cup Placement["reported"]) = {}
    BY DEF Separate, Places
<1>2. \A k : k \in Pending <=> \E p \in Places \ {"sent", "reported"} : k \in Placement[p]
    <2>1. \A k : k \in InTransit <=>
                   \E p \in Places \ {"held", "sent", "reported"} : k \in Placement[p]
        BY PlacesMeant
    <2>2. "held" \in Places \ {"sent", "reported"}
        BY DEF Places
    <2> QED
        BY <2>1, <2>2, PlacesMeant DEF Pending
<1>3. \A k : k \in Anywhere(Placement) <=> \E p \in Places : k \in Placement[p]
    BY DEF Anywhere
<1> QED
    BY <1>1, <1>2, <1>3, PlacesMeant

LEMMA TimesSentIs ==
    SentTidy => \A k : TimesSent(k) = IF k \in Sent THEN 1 ELSE 0
<1> SUFFICES ASSUME SentTidy, NEW k
             PROVE  TimesSent(k) = IF k \in Sent THEN 1 ELSE 0
    OBVIOUS
<1> DEFINE I == {i \in DOMAIN egressed : k \in egressed[i].keys}
<1>1. CASE k \notin Sent
    <2>1. I = {}
        BY <1>1 DEF Sent
    <2> QED
        BY <1>1, <2>1, FS_EmptySet DEF TimesSent
<1>2. CASE k \in Sent
    <2>1. PICK i \in DOMAIN egressed : k \in egressed[i].keys
        BY <1>2 DEF Sent
    <2>2. \A j \in DOMAIN egressed : k \in egressed[j].keys => j = i
        BY <2>1 DEF SentTidy, Spread, EachBundle
    <2>3. I = {i}
        BY <2>1, <2>2
    <2> QED
        BY <1>2, <2>3, FS_Singleton DEF TimesSent
<1> QED
    BY <1>1, <1>2

(* Both, also after a step.                                                *)
LEMMA SealState ==
    ASSUME FateInv, FateInv'
    PROVE  /\ Pending = Anywhere(Placement) \ (Sent \cup reported)
           /\ Pending' = Anywhere(Placement') \ (Sent' \cup reported')
           /\ \A k : /\ TimesSent(k) = IF k \in Sent THEN 1 ELSE 0
                     /\ TimesSent(k)' = IF k \in Sent' THEN 1 ELSE 0
           /\ Sent = Placement["sent"] /\ Sent' = Placement'["sent"]
           /\ reported = Placement["reported"] /\ reported' = Placement'["reported"]
<1>1. Separate(Placement) /\ Separate(Placement') /\ SentTidy /\ SentTidy'
    BY DEF FateInv
<1>2. (Separate(Placement) => Pending = Anywhere(Placement) \ (Sent \cup reported))'
    BY PendingIs, PTL
<1>3. (SentTidy => \A k : TimesSent(k) = IF k \in Sent THEN 1 ELSE 0)'
    BY TimesSentIs, PTL
<1>4. (Sent = Placement["sent"] /\ reported = Placement["reported"])'
    BY PlacesMeant, PTL
<1> QED
    BY <1>1, <1>2, <1>3, <1>4, PendingIs, TimesSentIs, PlacesMeant


(* The steps of the seal, by what they do to what is pending and sent.     *)
LEMMA SealAccepts ==
    ASSUME FateInv, FateInv', NEW K \in SUBSET SealKeys,
           K \cap Anywhere(Placement) = {},
           Anywhere(Placement') = Anywhere(Placement) \cup K,
           UNCHANGED <<egressed, reported, consentVector>>
    PROVE  Seal!Accept
<1>1. Sent' = Sent /\ (SealVerdict = "send")' = (SealVerdict = "send")
    BY DEF Sent, SealVerdict
<1>2. Sent \cup reported \subseteq Anywhere(Placement)
    BY SealState DEF Anywhere, Places
<1>3. Pending' = Pending \cup K /\ K \cap Pending = {} /\ K \cap Sent = {}
    BY <1>1, <1>2, SealState
<1>4. \A k : TimesSent(k)' = TimesSent(k)
    BY <1>1, SealState
<1>5. [k \in SealKeys |-> TimesSent(k)]' = [k \in SealKeys |-> TimesSent(k)]
    BY <1>4 DEF SealKeys
<1>6. K \in SUBSET {k \in SealKeys \ Pending :
                        [j \in SealKeys |-> TimesSent(j)][k] = 0}
    BY <1>3, SealState
<1> QED
    BY <1>1, <1>3, <1>5, <1>6 DEF Seal!Accept, Pending

LEMMA SealSends ==
    ASSUME FateInv, FateInv', SealVerdict = "send", Sent \subseteq Sent',
           Conserved, UNCHANGED <<reported, consentVector>>
    PROVE  Seal!Send
<1> DEFINE K == Sent' \ Sent
           Times == [k \in SealKeys |-> TimesSent(k)]
<1>1. (SealVerdict = "send")' = (SealVerdict = "send")
    BY DEF SealVerdict
<1>2. Separate(Placement')
    BY DEF FateInv
<1>3. Sent' \cap reported' = {}
    BY <1>2, SealState DEF Separate, Places
<1>4. Sent' \subseteq Anywhere(Placement')
    BY SealState DEF Anywhere, Places
<1>5. K \subseteq Pending /\ Pending' = Pending \ K
    BY <1>3, <1>4, SealState DEF Conserved
<1>6. Times' = [k \in SealKeys |-> IF k \in K THEN Times[k] + 1 ELSE Times[k]]
    <2>1. Times' = [k \in SealKeys |-> TimesSent(k)']
        BY DEF SealKeys
    <2>2. \A k \in SealKeys :
             TimesSent(k)' = IF k \in K THEN Times[k] + 1 ELSE Times[k]
        BY SealState
    <2> QED
        BY <2>1, <2>2
<1> QED
    BY <1>1, <1>5, <1>6 DEF Seal!Send, Pending

LEMMA SealGivesUp ==
    ASSUME FateInv, FateInv', reported \subseteq reported',
           Anywhere(Placement') \subseteq Anywhere(Placement),
           UNCHANGED <<egressed, consentVector>>
    PROVE  Seal!GiveUp
<1>1. Sent' = Sent /\ (SealVerdict = "send")' = (SealVerdict = "send")
    BY DEF Sent, SealVerdict
<1>2. Pending' \subseteq Pending
    BY <1>1, SealState
<1>3. \A k : TimesSent(k)' = TimesSent(k)
    BY <1>1, SealState
<1>4. [k \in SealKeys |-> TimesSent(k)]' = [k \in SealKeys |-> TimesSent(k)]
    BY <1>3 DEF SealKeys
<1>5. Pending \ Pending' \in SUBSET Pending
    OBVIOUS
<1>6. Pending' = Pending \ (Pending \ Pending')
    BY <1>2
<1> QED
    BY <1>1, <1>4, <1>5, <1>6 DEF Seal!GiveUp, Pending

LEMMA SealConsents ==
    ASSUME FateInv, FateInv', Conserved, UNCHANGED <<egressed, reported>>
    PROVE  [Seal!Next]_Seal!vars
<1>1. Sent' = Sent
    BY DEF Sent
<1>2. Pending' = Pending
    BY <1>1, SealState DEF Conserved
<1>3. \A k : TimesSent(k)' = TimesSent(k)
    BY <1>1, SealState
<1>4. [k \in SealKeys |-> TimesSent(k)]' = [k \in SealKeys |-> TimesSent(k)]
    BY <1>3 DEF SealKeys
<1>5. CASE (SealVerdict = "send")' = (SealVerdict = "send")
    BY <1>2, <1>4, <1>5 DEF Seal!vars, Pending
<1>6. CASE (SealVerdict = "send")' # (SealVerdict = "send")
    <2>1. (SealVerdict = "send")' = ~(SealVerdict = "send")
        BY <1>6, Zenon
    <2> QED
        BY <1>2, <1>4, <2>1 DEF Seal!Next, Seal!ConsentChanges, Pending
<1> QED
    BY <1>5, <1>6

(* Survivors of the gate and a flush both wait for their fetch under an    *)
(* open verdict: setConsent, which alone moves it, waits for their loop.   *)
GateOpen == groups # <<>> \/ flushTodo # <<>> => SealVerdict = "send"

LEMMA GateOpenStep ==
    ASSUME TypeInv, GateOpen, [Next]_vars
    PROVE  GateOpen'
<1>1. CASE UNCHANGED <<groups, flushTodo, consentVector>>
    BY <1>1 DEF GateOpen, SealVerdict
<1>2. CASE GateRequest
    <2>1. UNCHANGED <<flushTodo, consentVector>>
        BY <1>2 DEF GateRequest
    <2>2. SealVerdict = "send" \/ UNCHANGED groups
        BY <1>2 DEF GateRequest, Survives, Refused
    <2> QED
        BY <2>1, <2>2 DEF GateOpen, SealVerdict
<1>3. CASE DispatchGroup
    BY <1>3 DEF DispatchGroup, GateOpen, SealVerdict, instance
<1>4. CASE FlushHeld
    BY <1>4 DEF FlushHeld, GateOpen, SealVerdict, instance
<1>5. ASSUME NEW u \in ConsentUpdates, setConsent(u) PROVE GateOpen'
    <2>1. groups' = <<>> /\ flushTodo = <<>>
        BY <1>5 DEF setConsent, Idle, LoopDone
    <2>2. CASE Grant
        BY <2>2 DEF Grant, GateOpen
    <2>3. CASE ~Grant
        BY <1>5, <2>1, <2>3 DEF setConsent, GateOpen
    <2> QED
        BY <2>2, <2>3
<1> QED
    BY <1>1, <1>2, <1>3, <1>4, <1>5
       DEF Next, Host, Browser, Chamber, Main, vars, instance, loop, push,
           pushCritical, flushNow, dispose, Hide, Show, PageHide, WorkerFails,
           FlushOnLeaving, StartBatch, RouteEvent, PostReady, drain, onmessage,
           FetchSettles, flushNowContinues, FlushNowChunk, SyncDispatch

LEMMA ReportedGrows ==
    ASSUME [Next]_vars
    PROVE  reported \subseteq reported'
    BY DEF Next, Host, Browser, Chamber, Main, vars, history, push,
           pushCritical, setConsent, flushNow, dispose, Hide, Show, PageHide,
           WorkerFails, FlushOnLeaving, StartBatch, RouteEvent, PostReady, drain,
           onmessage, FetchSettles, GateRequest, DispatchGroup, FlushHeld,
           flushNowContinues, FlushNowChunk, SyncDispatch, SyncDrop, SyncThrow,
           SyncSend

LEMMA SentGrows ==
    ASSUME TypeOK, NEW M, NEW dest, NEW via, Emit(M, dest, via)
    PROVE  Sent \subseteq Sent'
<1> DEFINE e == [keys |-> M, dest |-> dest, via |-> via]
<1>1. egressed \in Seq(Beacon) /\ egressed' = Append(egressed, e)
    BY DEF TypeOK, HistoryType, Emit
<1> HIDE DEF e
<1>2. Joins(egressed', egressed, <<e>>)
    BY <1>1, JoinAppend
<1>3. \A i \in DOMAIN egressed : i \in DOMAIN egressed' /\ egressed'[i] = egressed[i]
    BY <1>2 DEF Joins
<1> QED
    BY <1>3 DEF Sent

(* A fetch is a Send of the seal.                                          *)
LEMMA FetchIsSend ==
    ASSUME TypeInv, FateInv, FateInv', GateOpen, [Next]_vars,
           egressed' # egressed
    PROVE  Seal!Send
<1>1. /\ TypeOK /\ Separate(Placement) /\ MainTidy /\ SentTidy
    BY DEF TypeInv, FateInv
<1>2. CASE DispatchGroup
    <2>1. PICK M, dest : Emit(M, dest, "worker") /\ UNCHANGED reported
        BY <1>2 DEF DispatchGroup
    <2>2. SealVerdict = "send" /\ UNCHANGED consentVector
        BY <1>2 DEF DispatchGroup, GateOpen, instance
    <2> QED
        BY <1>1, <1>2, <2>1, <2>2, DispatchGroupPlaces, SentGrows, SealSends
<1>3. CASE FlushHeld
    <2>1. PICK M, dest, via : Emit(M, dest, via) /\ UNCHANGED reported
        BY <1>3 DEF FlushHeld
    <2>2. SealVerdict = "send" /\ UNCHANGED consentVector
        BY <1>3 DEF FlushHeld, GateOpen, instance
    <2> QED
        BY <1>1, <1>3, <2>1, <2>2, FlushHeldPlaces, SentGrows, SealSends
<1>4. CASE SyncDispatch
    <2>1. SyncSend(Head(syncTodo))
        BY <1>4 DEF SyncDispatch, SyncDrop, SyncThrow
    <2>2. PICK M, dest : Emit(M, dest, "sync") /\ UNCHANGED reported
        BY <2>1 DEF SyncSend
    <2>3. SealVerdict = "send" /\ UNCHANGED consentVector
        BY <1>4, <2>1 DEF SyncDispatch, SyncSend, criticalGate
    <2> QED
        BY <1>1, <1>4, <2>1, <2>2, <2>3, SyncSendPlaces, SentGrows, SealSends
<1> QED
    BY <1>2, <1>3, <1>4
       DEF Next, Host, Browser, Chamber, Main, vars, history, push,
           pushCritical, setConsent, flushNow, dispose, Hide, Show, PageHide,
           WorkerFails, FlushOnLeaving, StartBatch, RouteEvent, PostReady, drain,
           onmessage, FetchSettles, GateRequest, flushNowContinues, FlushNowChunk

(* An event the host hands over is accepted, as keys within the bounds.    *)
LEMMA HandOverIsAccept ==
    ASSUME TypeInv, FateInv, FateInv', NEW t \in Types, push(t) \/ pushCritical(t)
    PROVE  Seal!Accept
<1>1. /\ seq \in Nat /\ pushedCritical \in Nat
      /\ MaxPushes \in Nat /\ MaxCritical \in Nat
    BY LenProperties, ConstantsAssumption
       DEF TypeInv, TypeOK, InstanceType, EnvironmentType, seq
<1>2. FormSet(t) \subseteq Forms
    <2>1. FormsOf[t] \in Seq(Forms)
        BY ConstantsAssumption
    <2> QED
        BY <2>1, ElementOfSeq, LenProperties DEF FormSet
<1>3. ASSUME push(t)
      PROVE  Seal!Accept
    <2> DEFINE d == [seq |-> seq, type |-> t]
    <2>1. /\ KeysOf(d) \cap Anywhere(Placement) = {}
          /\ Anywhere(Placement') = Anywhere(Placement) \cup KeysOf(d)
        BY <1>3, PushPlaces
    <2>2. KeysOf(d) \in SUBSET SealKeys
        BY <1>1, <1>2, <1>3 DEF push, KeysOf, SealKeys
    <2>3. UNCHANGED <<egressed, reported, consentVector>>
        BY <1>3 DEF push, history
    <2> HIDE DEF d
    <2> QED
        BY <2>1, <2>2, <2>3, SealAccepts
<1>4. ASSUME pushCritical(t)
      PROVE  Seal!Accept
    <2> DEFINE d == [seq |-> -(pushedCritical + 1), type |-> t]
    <2>1. /\ KeysOf(d) \cap Anywhere(Placement) = {}
          /\ Anywhere(Placement') = Anywhere(Placement) \cup KeysOf(d)
        BY <1>4, PushCriticalPlaces
    <2>2. KeysOf(d) \in SUBSET SealKeys
        BY <1>1, <1>2, <1>4 DEF pushCritical, KeysOf, SealKeys
    <2>3. UNCHANGED <<egressed, reported, consentVector>>
        BY <1>4 DEF pushCritical, instance, history
    <2> HIDE DEF d
    <2> QED
        BY <2>1, <2>2, <2>3, SealAccepts
<1> QED
    BY <1>3, <1>4

LEMMA SealStep ==
    ASSUME TypeInv, FateInv, FateInv', GateOpen, [Next]_vars
    PROVE  [Seal!Next]_Seal!vars
<1>1. CASE egressed' # egressed
    BY <1>1, FetchIsSend DEF Seal!Next
<1>2. ASSUME NEW t \in Types, push(t) \/ pushCritical(t)
      PROVE  [Seal!Next]_Seal!vars
    BY <1>2, HandOverIsAccept DEF Seal!Next
<1>3. ASSUME NEW u \in ConsentUpdates, setConsent(u)
      PROVE  [Seal!Next]_Seal!vars
    <2>1. Conserved
        BY <1>3, SetConsentPlaces DEF FateInv, TypeInv
    <2>2. UNCHANGED <<egressed, reported>>
        BY <1>3 DEF setConsent, history
    <2> QED
        BY <2>1, <2>2, SealConsents
<1>4. CASE /\ egressed' = egressed
           /\ ~\E t \in Types : push(t) \/ pushCritical(t)
           /\ ~\E u \in ConsentUpdates : setConsent(u)
    <2>1. Anywhere(Placement') \subseteq Anywhere(Placement)
        BY <1>4, RearrangedStep DEF Rearranged, Placed
    <2>2. UNCHANGED consentVector
        BY <1>4 DEF Next, Host, Browser, Chamber, Main, vars, instance,
           flushNow, dispose, Hide, Show, PageHide, WorkerFails,
           FlushOnLeaving, StartBatch, RouteEvent, PostReady, drain, onmessage,
           FetchSettles, GateRequest, DispatchGroup, FlushHeld,
           flushNowContinues, FlushNowChunk, SyncDispatch
    <2>3. Seal!GiveUp
        BY <1>4, <2>1, <2>2, ReportedGrows, SealGivesUp
    <2> QED
        BY <2>3 DEF Seal!Next
<1> QED
    BY <1>1, <1>2, <1>3, <1>4

LEMMA SealInit == Init => Seal!Init
<1> SUFFICES ASSUME Init PROVE Seal!Init
    OBVIOUS
<1>1. Separate(Placement) /\ SentTidy
    BY FateInit DEF FateInv
<1>2. \A p \in Places : Placement[p] = {}
    BY PlacementIs, Nothing DEF Init, Places, SyncKeys, JobKeys
<1>3. Anywhere(Placement) = {} /\ Sent = {}
    BY <1>2, PlacesMeant DEF Anywhere, Places
<1>4. Pending = {} /\ \A k : TimesSent(k) = 0
    BY <1>1, <1>3, PendingIs, TimesSentIs
<1> QED
    BY <1>4 DEF Seal!Init, Pending

(* The runtime implements the seal: every step of it is an acceptance, one *)
(* fetch of what was pending under an open verdict, a give-up, a change of *)
(* consent or nothing (airlock.js:380-860, egress.js:15-120).              *)
THEOREM AirlockIsSeal == Spec => ImplementsSeal
<1>1. Init => GateOpen
    BY DEF Init, GateOpen
<1>2. TypeInv /\ GateOpen /\ [Next]_vars => GateOpen'
    BY GateOpenStep
<1>3. TypeInv /\ FateInv /\ FateInv' /\ GateOpen /\ [Next]_vars
         => [Seal!Next]_Seal!vars
    BY SealStep
<1> QED
    BY <1>1, <1>2, <1>3, SealInit, FateInvariant, PTL
       DEF Spec, ImplementsSeal, Seal!Spec
-----------------------------------------------------------------------------
(* The order. From the last fetch back to the ring, the stages a beacon of *)
(* the worker path passes: sent, flush, held, groups, ready, outbox, the   *)
(* two ends of the job, inbox, ring.                                       *)
AsyncKeys(b)  == IF b.via = "sync" THEN {} ELSE b.keys
EachFetch(s)  == [i \in DOMAIN s |-> AsyncKeys(s[i])]
EachAnswer(s) == [i \in DOMAIN s |-> RequestKeys(s[i].ready)]

JobReady == IF job = NoJob THEN {} ELSE RequestKeys(job.ready)
JobTodo  == IF job = NoJob THEN {} ELSE DescriptorKeys(job.todo)

Stages == 1..10

Line == <<Total(EachFetch(egressed)), RequestKeys(flushTodo),
          RequestKeys(heldBeacons), Total(EachBundle(groups)),
          RequestKeys(readyTodo), Total(EachAnswer(outbox)), JobReady, JobTodo,
          Total(EachBatch(inbox)), DescriptorKeys(ring)>>

Before(A, B) == \A a \in A, b \in B : a[1] <= b[1]
Rising(F)    == \A i, j \in DOMAIN F : i < j => Before(F[i], F[j])
InLine(K)    == \A i, j \in Stages : i < j => Before(K[i], K[j])

MainInTurn ==
    /\ Rising(EachEvent(ring)) /\ Rising(EachRequest(readyTodo))
    /\ Rising(EachBundle(groups)) /\ Rising(EachRequest(heldBeacons))
    /\ Rising(EachRequest(flushTodo))

ChamberInTurn ==
    /\ Rising(EachBatch(inbox))
    /\ \A i \in DOMAIN inbox : Rising(EachEvent(inbox[i]))
    /\ job # NoJob => Rising(EachRequest(job.ready)) /\ Rising(EachEvent(job.todo))
    /\ Rising(EachAnswer(outbox))
    /\ \A i \in DOMAIN outbox : Rising(EachRequest(outbox[i].ready))

SentInTurn == Rising(EachFetch(egressed))

TurnInv == InLine(Line) /\ MainInTurn /\ ChamberInTurn /\ SentInTurn

LEMMA JoinRises ==
    ASSUME NEW F, NEW A, NEW B, Joins(F, A, B)
    PROVE  Rising(F) <=> Rising(A) /\ Rising(B) /\ Before(Total(A), Total(B))
<1>1. PICK n \in Nat, m \in Nat :
         /\ DOMAIN A = 1..n /\ DOMAIN B = 1..m /\ DOMAIN F = 1..(n + m)
         /\ \A i \in 1..n : F[i] = A[i]
         /\ \A i \in 1..m : F[n + i] = B[i]
    BY DEF Joins
<1>2. \A i \in 1..n : i \in 1..(n + m)
    BY <1>1
<1>3. \A i \in 1..m : n + i \in 1..(n + m)
    BY <1>1
<1>4. ASSUME NEW i \in 1..(n + m)
      PROVE  i \in 1..n \/ \E j \in 1..m : i = n + j
    <2>1. i \in 1..n \/ (i - n \in 1..m /\ i = n + (i - n))
        BY <1>1
    <2> QED
        BY <2>1
<1>5. ASSUME Rising(F)
      PROVE  Rising(A) /\ Rising(B) /\ Before(Total(A), Total(B))
    <2>1. Rising(A)
        BY <1>1, <1>2, <1>5 DEF Rising
    <2>2. ASSUME NEW i \in 1..m, NEW j \in 1..m, i < j PROVE Before(B[i], B[j])
        <3>1. n + i \in DOMAIN F /\ n + j \in DOMAIN F /\ n + i < n + j
            BY <1>1, <1>3, <2>2
        <3>2. Before(F[n + i], F[n + j])
            BY <1>5, <3>1 DEF Rising
        <3> QED
            BY <1>1, <3>2
    <2>3. ASSUME NEW i \in 1..n, NEW j \in 1..m PROVE Before(A[i], B[j])
        <3>1. i \in DOMAIN F /\ n + j \in DOMAIN F /\ i < n + j
            BY <1>1, <1>2, <1>3
        <3>2. Before(F[i], F[n + j])
            BY <1>5, <3>1 DEF Rising
        <3> QED
            BY <1>1, <3>2
    <2>4. Rising(B)
        BY <1>1, <2>2 DEF Rising
    <2>5. Before(Total(A), Total(B))
        BY <1>1, <2>3 DEF Total, Before
    <2> QED
        BY <2>1, <2>4, <2>5
<1>6. ASSUME Rising(A), Rising(B), Before(Total(A), Total(B))
      PROVE  Rising(F)
    <2>1. \A i \in 1..n, j \in 1..m : Before(A[i], B[j])
        BY <1>1, <1>6 DEF Total, Before
    <2>2. ASSUME NEW i \in 1..(n + m), NEW j \in 1..(n + m), i < j
          PROVE  Before(F[i], F[j])
        <3>1. CASE i \in 1..n /\ j \in 1..n
            BY <1>1, <1>6, <2>2, <3>1 DEF Rising
        <3>2. ASSUME NEW k \in 1..m, j = n + k, i \in 1..n
              PROVE  Before(F[i], F[j])
            BY <1>1, <2>1, <3>2
        <3>3. ASSUME NEW k \in 1..m, i = n + k PROVE j \notin 1..n
            BY <1>1, <2>2, <3>3
        <3>4. ASSUME NEW k \in 1..m, NEW l \in 1..m, i = n + k, j = n + l
              PROVE  Before(F[i], F[j])
            <4>1. k < l
                BY <1>1, <2>2, <3>4
            <4> QED
                BY <1>1, <1>6, <3>4, <4>1 DEF Rising
        <3> QED
            BY <1>4, <3>1, <3>2, <3>3, <3>4
    <2> QED
        BY <1>1, <2>2 DEF Rising
<1> QED
    BY <1>5, <1>6

(* The same of the sequences the program keeps.                            *)
LEMMA EventsRise ==
    ASSUME NEW s, NEW a, NEW b, Joins(s, a, b)
    PROVE  Rising(EachEvent(s)) <=>
               /\ Rising(EachEvent(a)) /\ Rising(EachEvent(b))
               /\ Before(DescriptorKeys(a), DescriptorKeys(b))
<1>1. Joins(EachEvent(s), EachEvent(a), EachEvent(b))
    BY EventsAlign
<1>2. \A q : Total(EachEvent(q)) = DescriptorKeys(q)
    BY DEF Total, EachEvent, DescriptorKeys
<1> QED
    BY <1>1, <1>2, JoinRises

LEMMA RequestsRise ==
    ASSUME NEW s, NEW a, NEW b, Joins(s, a, b)
    PROVE  Rising(EachRequest(s)) <=>
               /\ Rising(EachRequest(a)) /\ Rising(EachRequest(b))
               /\ Before(RequestKeys(a), RequestKeys(b))
<1>1. Joins(EachRequest(s), EachRequest(a), EachRequest(b))
    BY RequestsAlign
<1>2. \A q : Total(EachRequest(q)) = RequestKeys(q)
    BY DEF Total, EachRequest, RequestKeys
<1> QED
    BY <1>1, <1>2, JoinRises

LEMMA BatchesRise ==
    ASSUME NEW s, NEW a, NEW b, Joins(s, a, b)
    PROVE  Rising(EachBatch(s)) <=>
               /\ Rising(EachBatch(a)) /\ Rising(EachBatch(b))
               /\ Before(Total(EachBatch(a)), Total(EachBatch(b)))
    BY BatchesJoin, JoinRises

LEMMA BundlesRise ==
    ASSUME NEW s, NEW a, NEW b, Joins(s, a, b)
    PROVE  Rising(EachBundle(s)) <=>
               /\ Rising(EachBundle(a)) /\ Rising(EachBundle(b))
               /\ Before(Total(EachBundle(a)), Total(EachBundle(b)))
    BY BundlesJoin, JoinRises

LEMMA AnswersRise ==
    ASSUME NEW s, NEW a, NEW b, Joins(s, a, b)
    PROVE  /\ Total(EachAnswer(s)) = Total(EachAnswer(a)) \cup Total(EachAnswer(b))
           /\ Rising(EachAnswer(s)) <=>
               /\ Rising(EachAnswer(a)) /\ Rising(EachAnswer(b))
               /\ Before(Total(EachAnswer(a)), Total(EachAnswer(b)))
<1> DEFINE F == EachAnswer(s)
           G == EachAnswer(a)
           H == EachAnswer(b)
<1>1. DOMAIN F = DOMAIN s /\ DOMAIN G = DOMAIN a /\ DOMAIN H = DOMAIN b
    BY DEF EachAnswer
<1>2. \A j \in DOMAIN s : \A i \in DOMAIN a : s[j] = a[i] => F[j] = G[i]
    BY DEF EachAnswer
<1>3. \A j \in DOMAIN s : \A i \in DOMAIN b : s[j] = b[i] => F[j] = H[i]
    BY DEF EachAnswer
<1> HIDE DEF F, G, H
<1>4. Joins(F, G, H)
    BY <1>1, <1>2, <1>3, JoinImages
<1>5. Joins(EachAnswer(s), EachAnswer(a), EachAnswer(b))
    BY <1>4 DEF F, G, H
<1> QED
    BY <1>5, JoinTotals, JoinRises

LEMMA FetchesRise ==
    ASSUME NEW s, NEW a, NEW b, Joins(s, a, b)
    PROVE  /\ Total(EachFetch(s)) = Total(EachFetch(a)) \cup Total(EachFetch(b))
           /\ Rising(EachFetch(s)) <=>
               /\ Rising(EachFetch(a)) /\ Rising(EachFetch(b))
               /\ Before(Total(EachFetch(a)), Total(EachFetch(b)))
<1> DEFINE F == EachFetch(s)
           G == EachFetch(a)
           H == EachFetch(b)
<1>1. DOMAIN F = DOMAIN s /\ DOMAIN G = DOMAIN a /\ DOMAIN H = DOMAIN b
    BY DEF EachFetch
<1>2. \A j \in DOMAIN s : \A i \in DOMAIN a : s[j] = a[i] => F[j] = G[i]
    BY DEF EachFetch
<1>3. \A j \in DOMAIN s : \A i \in DOMAIN b : s[j] = b[i] => F[j] = H[i]
    BY DEF EachFetch
<1> HIDE DEF F, G, H
<1>4. Joins(F, G, H)
    BY <1>1, <1>2, <1>3, JoinImages
<1>5. Joins(EachFetch(s), EachFetch(a), EachFetch(b))
    BY <1>4 DEF F, G, H
<1> QED
    BY <1>5, JoinTotals, JoinRises

(* A sequence of one, and of none.                                         *)
LEMMA SinglesRise ==
    \A e : /\ Rising(EachEvent(<<e>>)) /\ Rising(EachRequest(<<e>>))
           /\ Rising(EachBatch(<<e>>)) /\ Rising(EachAnswer(<<e>>))
           /\ Rising(EachBundle(<<e>>)) /\ Rising(EachFetch(<<e>>))
           /\ Total(EachAnswer(<<e>>)) = RequestKeys(e.ready)
           /\ Total(EachFetch(<<e>>)) = AsyncKeys(e)
<1> TAKE e
<1>1. DOMAIN <<e>> = {1} /\ <<e>>[1] = e
    OBVIOUS
<1>2. /\ Rising(EachEvent(<<e>>)) /\ Rising(EachRequest(<<e>>))
      /\ Rising(EachBatch(<<e>>)) /\ Rising(EachAnswer(<<e>>))
      /\ Rising(EachBundle(<<e>>)) /\ Rising(EachFetch(<<e>>))
    BY <1>1 DEF EachEvent, EachRequest, EachBatch, EachAnswer, EachBundle,
       EachFetch, Rising
<1>3. Total(EachAnswer(<<e>>)) = RequestKeys(e.ready)
    BY <1>1 DEF EachAnswer, Total
<1>4. Total(EachFetch(<<e>>)) = AsyncKeys(e)
    BY <1>1 DEF EachFetch, Total
<1> QED
    BY <1>2, <1>3, <1>4

LEMMA NothingRises ==
    /\ Rising(EachEvent(<<>>)) /\ Rising(EachRequest(<<>>))
    /\ Rising(EachBatch(<<>>)) /\ Rising(EachAnswer(<<>>))
    /\ Rising(EachBundle(<<>>)) /\ Rising(EachFetch(<<>>))
    /\ Total(EachAnswer(<<>>)) = {} /\ Total(EachFetch(<<>>)) = {}
<1>1. DOMAIN <<>> = {}
    OBVIOUS
<1>2. /\ DOMAIN EachEvent(<<>>) = {} /\ DOMAIN EachRequest(<<>>) = {}
      /\ DOMAIN EachBatch(<<>>) = {} /\ DOMAIN EachAnswer(<<>>) = {}
      /\ DOMAIN EachBundle(<<>>) = {} /\ DOMAIN EachFetch(<<>>) = {}
    BY <1>1 DEF EachEvent, EachRequest, EachBatch, EachAnswer, EachBundle, EachFetch
<1> QED
    BY <1>2 DEF Rising, Total

(* Keys advance from the front of one stage over empty ones to another.    *)
LEMMA Advance ==
    ASSUME NEW K, NEW L, InLine(K), NEW src \in Stages, NEW dst \in Stages,
           dst < src, NEW M, M \subseteq K[src], Before(M, L[src]),
           L[src] \subseteq K[src], L[dst] \subseteq K[dst] \cup M,
           \A i \in Stages \ {src, dst} : L[i] \subseteq K[i],
           \A i \in Stages : dst < i /\ i < src => K[i] = {}
    PROVE  InLine(L)
<1> SUFFICES ASSUME NEW i \in Stages, NEW j \in Stages, i < j,
                    NEW a \in L[i], NEW b \in L[j]
             PROVE  a[1] <= b[1]
    BY DEF InLine, Before
<1>1. i \in Int /\ j \in Int /\ src \in Int /\ dst \in Int
    BY DEF Stages
<1>2. CASE a \in K[i] /\ b \in K[j]
    BY <1>2 DEF InLine, Before
<1>3. CASE i = dst /\ a \in M
    <2>1. CASE j = src
        BY <1>3, <2>1 DEF Before
    <2>2. CASE src < j
        <3>1. a \in K[src] /\ b \in K[j]
            BY <1>1, <1>3, <2>2
        <3> QED
            BY <2>2, <3>1 DEF InLine, Before
    <2>3. CASE j < src
        BY <1>1, <1>3, <2>3
    <2> QED
        BY <1>1, <2>1, <2>2, <2>3
<1>4. CASE j = dst /\ b \in M
    <2>1. a \in K[i] /\ b \in K[src] /\ i < src
        BY <1>1, <1>4
    <2> QED
        BY <2>1 DEF InLine, Before
<1> QED
    BY <1>2, <1>3, <1>4

LEMMA Thinner ==
    ASSUME NEW K, NEW L, InLine(K), \A i \in Stages : L[i] \subseteq K[i]
    PROVE  InLine(L)
    BY DEF InLine, Before
-----------------------------------------------------------------------------
(* The stages, before and after a step.                                    *)
LEMMA LineIs ==
    /\ Line[1] = Total(EachFetch(egressed)) /\ Line[2] = RequestKeys(flushTodo)
    /\ Line[3] = RequestKeys(heldBeacons) /\ Line[4] = Total(EachBundle(groups))
    /\ Line[5] = RequestKeys(readyTodo) /\ Line[6] = Total(EachAnswer(outbox))
    /\ Line[7] = JobReady /\ Line[8] = JobTodo
    /\ Line[9] = Total(EachBatch(inbox)) /\ Line[10] = DescriptorKeys(ring)
    BY DEF Line

LEMMA LineWillBe ==
    /\ Line'[1] = Total(EachFetch(egressed')) /\ Line'[2] = RequestKeys(flushTodo')
    /\ Line'[3] = RequestKeys(heldBeacons') /\ Line'[4] = Total(EachBundle(groups'))
    /\ Line'[5] = RequestKeys(readyTodo') /\ Line'[6] = Total(EachAnswer(outbox'))
    /\ Line'[7] = JobReady' /\ Line'[8] = JobTodo'
    /\ Line'[9] = Total(EachBatch(inbox')) /\ Line'[10] = DescriptorKeys(ring')
    BY DEF Line, DescriptorKeys, KeysOf, FormSet, Total, EachBatch, EachAnswer,
       RequestKeys, KeyOf, EachBundle, EachFetch, AsyncKeys

LEMMA LineKept ==
    /\ UNCHANGED egressed => Line'[1] = Line[1]
    /\ UNCHANGED flushTodo => Line'[2] = Line[2]
    /\ UNCHANGED heldBeacons => Line'[3] = Line[3]
    /\ UNCHANGED groups => Line'[4] = Line[4]
    /\ UNCHANGED readyTodo => Line'[5] = Line[5]
    /\ UNCHANGED outbox => Line'[6] = Line[6]
    /\ UNCHANGED job => Line'[7] = Line[7] /\ Line'[8] = Line[8]
    /\ UNCHANGED inbox => Line'[9] = Line[9]
    /\ UNCHANGED ring => Line'[10] = Line[10]
<1>1. UNCHANGED job => JobReady' = JobReady /\ JobTodo' = JobTodo
    BY DEF JobReady, JobTodo, DescriptorKeys, KeysOf, FormSet, RequestKeys, KeyOf
<1> QED
    BY <1>1, LineIs, LineWillBe

LEMMA ChamberStays ==
    ASSUME ChamberInTurn, UNCHANGED <<inbox, job, outbox>>
    PROVE  ChamberInTurn'
    BY DEF ChamberInTurn

LEMMA SentStays ==
    ASSUME SentInTurn, UNCHANGED egressed
    PROVE  SentInTurn'
    BY DEF SentInTurn

(* Batches: from the ring to the chamber's inbox, or to nowhere.           *)
LEMMA SendBatchTurn ==
    ASSUME TypeOK, TurnInv, sendBatch(ThisChunk), ring' = NextChunks,
           UNCHANGED <<job, outbox, readyTodo, groups, flushTodo, heldBeacons,
                       egressed>>
    PROVE  TurnInv'
<1> DEFINE B == DescriptorKeys(ThisChunk)
           R == DescriptorKeys(NextChunks)
           I == Total(EachBatch(inbox))
<1>1. /\ ring \in Seq(Descriptor) /\ inbox \in Seq(Seq(Descriptor))
      /\ ThisChunk \in Seq(Descriptor)
      /\ InLine(Line) /\ MainInTurn /\ ChamberInTurn /\ SentInTurn
    BY ChunkTypes DEF TypeOK, InstanceType, ChamberType, TurnInv
<1>2. Joins(ring, ThisChunk, NextChunks)
    BY <1>1, JoinChunks
<1>3. /\ DescriptorKeys(ring) = B \cup R /\ Before(B, R)
      /\ Rising(EachEvent(ThisChunk)) /\ Rising(EachEvent(NextChunks))
    BY <1>1, <1>2, EventsJoin, EventsRise DEF MainInTurn
<1>4. Line[10] = B \cup R /\ Line'[10] = R /\ Line[9] = I
    BY <1>3, LineIs, LineWillBe
<1>5. \A i \in Stages \ {9, 10} : Line'[i] = Line[i]
    BY LineKept DEF Stages
<1>6. MainInTurn' /\ SentInTurn'
    BY <1>1, <1>3 DEF MainInTurn, SentInTurn
<1>7. Before(I, B)
    BY <1>1, <1>4 DEF InLine, Stages, Before
<1> HIDE DEF B, R, I
<1>8. CASE worker = "up" /\ Clones(ThisChunk)
    <2>1. inbox' = Append(inbox, ThisChunk)
        BY <1>8 DEF sendBatch
    <2>2. Joins(inbox', inbox, <<ThisChunk>>)
        BY <1>1, <2>1, JoinAppend
    <2>3. Line'[9] = I \cup B
        BY <2>2, BatchesJoin, JoinTotals, Singles, LineWillBe DEF I, B
    <2>4. Rising(EachBatch(inbox'))
        BY <1>1, <1>7, <2>2, BatchesRise, SinglesRise, Singles
           DEF ChamberInTurn, I, B
    <2>5. \A i \in DOMAIN inbox' : Rising(EachEvent(inbox'[i]))
        <3>1. \A i \in DOMAIN inbox' : \/ inbox'[i] = ThisChunk
                                      \/ \E j \in DOMAIN inbox : inbox'[i] = inbox[j]
            BY <1>1, <2>1, AppendProperties, LenProperties
        <3> QED
            BY <1>1, <1>3, <3>1 DEF ChamberInTurn
    <2>6. ChamberInTurn'
        BY <1>1, <2>4, <2>5 DEF ChamberInTurn
    <2>7. \A i \in Stages : 9 < i /\ i < 10 => Line[i] = {}
        BY DEF Stages
    <2>8. InLine(Line')
        <3>1. /\ B \subseteq Line[10] /\ Before(B, Line'[10])
              /\ Line'[10] \subseteq Line[10] /\ Line'[9] \subseteq Line[9] \cup B
            BY <1>3, <1>4, <2>3
        <3>2. \A i \in Stages \ {10, 9} : Line'[i] \subseteq Line[i]
            BY <1>5
        <3>3. 9 \in Stages /\ 10 \in Stages /\ 9 < 10
            BY DEF Stages
        <3> QED
            BY <1>1, <2>7, <3>1, <3>2, <3>3, Advance
    <2> QED
        BY <1>6, <2>6, <2>8 DEF TurnInv
<1>9. CASE ~(worker = "up" /\ Clones(ThisChunk))
    <2>1. UNCHANGED inbox
        BY <1>9 DEF sendBatch
    <2>2. \A i \in Stages : Line'[i] \subseteq Line[i]
        BY <1>4, <1>5, <2>1, LineKept
    <2> QED
        BY <1>1, <1>6, <2>1, <2>2, ChamberStays, Thinner DEF TurnInv
<1> QED
    BY <1>8, <1>9

(* The chamber.                                                            *)
LEMMA StartBatchTurn ==
    ASSUME TypeOK, TurnInv, StartBatch
    PROVE  TurnInv'
<1> DEFINE b == Head(inbox)
           I == Total(EachBatch(Tail(inbox)))
<1>1. /\ inbox \in Seq(Seq(Descriptor)) /\ inbox # <<>> /\ job = NoJob
      /\ InLine(Line) /\ MainInTurn /\ ChamberInTurn /\ SentInTurn
    BY DEF StartBatch, TypeOK, ChamberType, TurnInv
<1>2. /\ job' = [todo |-> b, ready |-> <<>>, dropped |-> <<>>]
      /\ inbox' = Tail(inbox)
      /\ UNCHANGED <<heldBeacons, ring, readyTodo, groups, flushTodo, outbox,
                     egressed>>
    BY DEF StartBatch, instance, loop, history
<1>3. b \in Seq(Descriptor) /\ b = inbox[1] /\ 1 \in DOMAIN inbox
    BY <1>1, HeadTailProperties, EmptySeq, LenProperties
<1>4. Joins(inbox, <<b>>, Tail(inbox))
    BY <1>1, JoinHead
<1>5. /\ Line[9] = DescriptorKeys(b) \cup I
      /\ Before(DescriptorKeys(b), I) /\ Rising(EachBatch(Tail(inbox)))
    <2>1. Total(EachBatch(inbox)) = DescriptorKeys(b) \cup I
        <3>1. Total(EachBatch(<<b>>)) = DescriptorKeys(b)
            BY Singles
        <3>2. Joins(EachBatch(inbox), EachBatch(<<b>>), EachBatch(Tail(inbox)))
            BY <1>4, BatchesJoin
        <3> QED
            BY <3>1, <3>2, JoinTotals
    <2>2. Before(DescriptorKeys(b), I) /\ Rising(EachBatch(Tail(inbox)))
        BY <1>1, <1>4, BatchesRise, Singles DEF ChamberInTurn
    <2> QED
        BY <2>1, <2>2, LineIs
<1>6. job' # NoJob
    <2>1. job' \in Job
        BY <1>2, <1>3 DEF Job
    <2> QED
        BY <2>1, NoJobAssumption
<1>7. Line'[9] = I /\ Line'[8] = DescriptorKeys(b) /\ Line'[7] = {}
    <2>1. JobTodo' = DescriptorKeys(b) /\ JobReady' = {}
        BY <1>2, <1>6, Nothing DEF JobTodo, JobReady, DescriptorKeys, KeysOf,
           FormSet, RequestKeys, KeyOf
    <2> QED
        BY <1>2, <2>1, LineWillBe
<1> HIDE DEF b, I
<1>8. \A i \in Stages \ {7, 8, 9} : Line'[i] = Line[i]
    BY <1>2, LineKept DEF Stages
<1>9. \A i \in Stages : 8 < i /\ i < 9 => Line[i] = {}
    BY DEF Stages
<1>10. InLine(Line')
    <2>1. /\ DescriptorKeys(b) \subseteq Line[9] /\ Before(DescriptorKeys(b), Line'[9])
          /\ Line'[9] \subseteq Line[9]
          /\ Line'[8] \subseteq Line[8] \cup DescriptorKeys(b)
        BY <1>5, <1>7
    <2>2. \A i \in Stages \ {9, 8} : Line'[i] \subseteq Line[i]
        BY <1>7, <1>8
    <2>3. 8 \in Stages /\ 9 \in Stages /\ 8 < 9
        BY DEF Stages
    <2> QED
        BY <1>1, <1>9, <2>1, <2>2, <2>3, Advance
<1>11. ChamberInTurn'
    <2>1. Rising(EachBatch(inbox'))
        BY <1>2, <1>5
    <2>2. \A i \in DOMAIN inbox' : Rising(EachEvent(inbox'[i]))
        <3>1. \A i \in DOMAIN Tail(inbox) :
                 \E j \in DOMAIN inbox : Tail(inbox)[i] = inbox[j]
            BY <1>4, JoinEntries
        <3> QED
            BY <1>1, <1>2, <3>1 DEF ChamberInTurn
    <2>3. Rising(EachRequest(job.ready))' /\ Rising(EachEvent(job.todo))'
        <3>1. Rising(EachEvent(b)) /\ job'.todo = b /\ job'.ready = <<>>
            BY <1>1, <1>2, <1>3 DEF ChamberInTurn
        <3> QED
            BY <3>1, NothingRises DEF EachEvent, EachRequest, KeysOf, FormSet,
               KeyOf, Rising, Before
    <2> QED
        BY <1>1, <1>2, <2>1, <2>2, <2>3 DEF ChamberInTurn
<1>12. MainInTurn' /\ SentInTurn'
    BY <1>1, <1>2 DEF MainInTurn, SentInTurn
<1> QED
    BY <1>10, <1>11, <1>12 DEF TurnInv

LEMMA HandleTurn ==
    ASSUME NEW d \in Descriptor
    PROVE  Rising(EachRequest(handle(d)))
<1> DEFINE forms == FormsOf[d.type]
<1>1. /\ DOMAIN handle(d) = DOMAIN forms
      /\ \A i \in DOMAIN forms : handle(d)[i] = RequestOf(d, forms[i])
    BY DEF handle
<1>2. \A f : KeyOf(RequestOf(d, f)) = <<d.seq, f>>
    BY DEF KeyOf, RequestOf
<1>3. \A i \in DOMAIN forms : KeyOf(handle(d)[i]) = <<d.seq, forms[i]>>
    BY <1>1, <1>2
<1>4. d.seq \in Int
    BY DEF Descriptor
<1>5. ASSUME NEW i \in DOMAIN forms, NEW j \in DOMAIN forms
      PROVE  Before({KeyOf(handle(d)[i])}, {KeyOf(handle(d)[j])})
    BY <1>3, <1>4 DEF Before
<1> QED
    BY <1>1, <1>5 DEF Rising, EachRequest

LEMMA RouteEventTurn ==
    ASSUME TypeOK, TurnInv, RouteEvent
    PROVE  TurnInv'
<1> DEFINE d == Head(job.todo)
           T == Tail(job.todo)
           ready == IF d.type \in Malformed THEN job.ready ELSE job.ready \o handle(d)
<1>1. /\ job \in Job /\ job # NoJob /\ job.todo # <<>>
      /\ InLine(Line) /\ MainInTurn /\ ChamberInTurn /\ SentInTurn
    BY DEF RouteEvent, TypeOK, ChamberType, TurnInv
<1>2. /\ job.todo \in Seq(Descriptor) /\ job.ready \in Seq(Request)
      /\ d \in Descriptor /\ T \in Seq(Descriptor)
      /\ handle(d) \in Seq(Request)
    BY <1>1, HeadTailProperties, HandleType DEF Job
<1>3. job'.todo = T /\ job'.ready = ready
    BY DEF RouteEvent
<1>4. UNCHANGED <<heldBeacons, ring, readyTodo, groups, flushTodo, inbox, outbox,
                 egressed>>
    BY DEF RouteEvent, instance, loop, history
<1>5. job' # NoJob
    BY RoutedJob
<1>6. /\ DescriptorKeys(job.todo) = KeysOf(d) \cup DescriptorKeys(T)
      /\ Before(KeysOf(d), DescriptorKeys(T)) /\ Rising(EachEvent(T))
    <2>1. Joins(job.todo, <<d>>, T)
        BY <1>1, <1>2, JoinHead
    <2>2. DescriptorKeys(<<d>>) = KeysOf(d)
        BY Singles
    <2>3. Rising(EachEvent(job.todo))
        BY <1>1 DEF ChamberInTurn
    <2> QED
        BY <2>1, <2>2, <2>3, EventsJoin, EventsRise
<1>7. /\ Line[7] = RequestKeys(job.ready) /\ Line[8] = KeysOf(d) \cup DescriptorKeys(T)
      /\ Line'[7] = RequestKeys(ready) /\ Line'[8] = DescriptorKeys(T)
    <2>1. JobReady = RequestKeys(job.ready) /\ JobTodo = DescriptorKeys(job.todo)
        BY <1>1 DEF JobReady, JobTodo
    <2>2. JobReady' = RequestKeys(job'.ready) /\ JobTodo' = DescriptorKeys(job'.todo)
        BY <1>5 DEF JobReady, JobTodo, DescriptorKeys, KeysOf, FormSet,
           RequestKeys, KeyOf
    <2> HIDE DEF ready, T
    <2>3. JobReady' = RequestKeys(ready) /\ JobTodo' = DescriptorKeys(T)
        BY <1>3, <2>2
    <2> QED
        BY <1>6, <2>1, <2>3, LineIs, LineWillBe
<1>8. Before(RequestKeys(job.ready), KeysOf(d))
    <2>1. Before(Line[7], Line[8])
        BY <1>1 DEF InLine, Stages
    <2> QED
        BY <1>7, <2>1 DEF Before
<1>9. /\ RequestKeys(ready) \subseteq RequestKeys(job.ready) \cup KeysOf(d)
      /\ Rising(EachRequest(ready))
    <2>1. Rising(EachRequest(job.ready))
        BY <1>1 DEF ChamberInTurn
    <2>2. CASE d.type \in Malformed
        BY <2>1, <2>2
    <2>3. CASE d.type \notin Malformed
        <3>1. Joins(ready, job.ready, handle(d))
            BY <1>2, <2>3, JoinConcat
        <3>2. RequestKeys(handle(d)) = KeysOf(d) /\ Rising(EachRequest(handle(d)))
            BY <1>2, HandleKeys, HandleTurn
        <3> HIDE DEF ready
        <3> QED
            BY <1>8, <2>1, <3>1, <3>2, RequestsJoin, RequestsRise
    <2> QED
        BY <2>2, <2>3
<1> HIDE DEF d, T, ready
<1>10. InLine(Line')
    <2>1. /\ KeysOf(d) \subseteq Line[8] /\ Before(KeysOf(d), Line'[8])
          /\ Line'[8] \subseteq Line[8] /\ Line'[7] \subseteq Line[7] \cup KeysOf(d)
        BY <1>6, <1>7, <1>9
    <2>2. \A i \in Stages \ {8, 7} : Line'[i] \subseteq Line[i]
        BY <1>4, LineKept DEF Stages
    <2>3. 7 \in Stages /\ 8 \in Stages /\ 7 < 8
        BY DEF Stages
    <2>4. \A i \in Stages : 7 < i /\ i < 8 => Line[i] = {}
        BY DEF Stages
    <2> QED
        BY <1>1, <2>1, <2>2, <2>3, <2>4, Advance
<1>11. ChamberInTurn'
    <2>1. Rising(EachRequest(job'.ready)) /\ Rising(EachEvent(job'.todo))
        BY <1>3, <1>6, <1>9
    <2> QED
        BY <1>1, <1>4, <2>1 DEF ChamberInTurn
<1>12. MainInTurn' /\ SentInTurn'
    BY <1>1, <1>4 DEF MainInTurn, SentInTurn
<1> QED
    BY <1>10, <1>11, <1>12 DEF TurnInv

LEMMA PostReadyTurn ==
    ASSUME TypeOK, TurnInv, PostReady
    PROVE  TurnInv'
<1> DEFINE m == [ready |-> job.ready, dropped |-> job.dropped]
<1>1. /\ job \in Job /\ job # NoJob /\ outbox \in Seq(Message)
      /\ InLine(Line) /\ MainInTurn /\ ChamberInTurn /\ SentInTurn
    BY DEF PostReady, TypeOK, ChamberType, TurnInv
<1>2. /\ outbox' = Append(outbox, m) /\ job' = NoJob
      /\ UNCHANGED <<heldBeacons, ring, readyTodo, groups, flushTodo, inbox,
                     egressed>>
    BY DEF PostReady, instance, loop, history
<1>3. m.ready = job.ready
    OBVIOUS
<1> HIDE DEF m
<1>4. Joins(outbox', outbox, <<m>>)
    BY <1>1, <1>2, JoinAppend
<1>5. Line[6] = Total(EachAnswer(outbox)) /\ Line[7] = RequestKeys(job.ready)
    BY <1>1, LineIs DEF JobReady
<1>6. /\ Line'[6] = Line[6] \cup Line[7] /\ Line'[7] = {} /\ Line'[8] = {}
    <2>1. Total(EachAnswer(<<m>>)) = RequestKeys(job.ready)
        BY <1>3, SinglesRise
    <2>2. Total(EachAnswer(outbox')) = Total(EachAnswer(outbox)) \cup RequestKeys(job.ready)
        BY <1>4, <2>1, AnswersRise
    <2>3. JobReady' = {} /\ JobTodo' = {}
        BY <1>2 DEF JobReady, JobTodo
    <2> QED
        BY <1>5, <2>2, <2>3, LineWillBe
<1>7. InLine(Line')
    <2>1. /\ Line[7] \subseteq Line[7] /\ Before(Line[7], Line'[7])
          /\ Line'[7] \subseteq Line[7] /\ Line'[6] \subseteq Line[6] \cup Line[7]
        BY <1>6 DEF Before
    <2>2. \A i \in Stages \ {7, 6} : Line'[i] \subseteq Line[i]
        BY <1>2, <1>6, LineKept DEF Stages
    <2>3. 7 \in Stages /\ 6 \in Stages /\ 6 < 7
        BY DEF Stages
    <2>4. \A i \in Stages : 6 < i /\ i < 7 => Line[i] = {}
        BY DEF Stages
    <2> QED
        BY <1>1, <2>1, <2>2, <2>3, <2>4, Advance
<1>8. ChamberInTurn'
    <2>1. Rising(EachAnswer(outbox'))
        <3>1. Before(Total(EachAnswer(outbox)), RequestKeys(job.ready))
            BY <1>1, <1>5 DEF InLine, Stages
        <3>2. Total(EachAnswer(<<m>>)) = RequestKeys(job.ready)
                 /\ Rising(EachAnswer(<<m>>))
            BY <1>3, SinglesRise
        <3> QED
            BY <1>1, <1>4, <3>1, <3>2, AnswersRise DEF ChamberInTurn
    <2>2. \A i \in DOMAIN outbox' : Rising(EachRequest(outbox'[i].ready))
        <3>1. \A i \in DOMAIN outbox' : \/ outbox'[i] = m
                                       \/ \E j \in DOMAIN outbox : outbox'[i] = outbox[j]
            BY <1>1, <1>2, AppendProperties, LenProperties, JoinEntries, <1>4
        <3> QED
            BY <1>1, <1>3, <3>1 DEF ChamberInTurn
    <2> QED
        BY <1>1, <1>2, <2>1, <2>2 DEF ChamberInTurn
<1>9. MainInTurn' /\ SentInTurn'
    BY <1>1, <1>2 DEF MainInTurn, SentInTurn
<1> QED
    BY <1>7, <1>8, <1>9 DEF TurnInv

(* The chamber is lost with what it had to do.                             *)
LEMMA ChamberLostTurn ==
    ASSUME TurnInv, inbox' = <<>>, job' = NoJob, outbox' = <<>> \/ UNCHANGED outbox,
           UNCHANGED <<heldBeacons, ring, readyTodo, groups, flushTodo, egressed>>
    PROVE  TurnInv'
<1>1. InLine(Line) /\ MainInTurn /\ ChamberInTurn /\ SentInTurn
    BY DEF TurnInv
<1>2. JobReady' = {} /\ JobTodo' = {}
    BY DEF JobReady, JobTodo
<1>3. Line'[7] = {} /\ Line'[8] = {} /\ Line'[9] = {}
    BY <1>2, LineWillBe, Nothing
<1>4. Line'[6] \subseteq Line[6]
    BY LineWillBe, LineKept, NothingRises
<1>5. \A i \in Stages : Line'[i] \subseteq Line[i]
    BY <1>3, <1>4, LineKept DEF Stages
<1>6. InLine(Line')
    BY <1>1, <1>5, Thinner
<1>7. DOMAIN <<>> = {}
    OBVIOUS
<1>8. ChamberInTurn'
    BY <1>1, <1>7, NothingRises DEF ChamberInTurn
<1> QED
    BY <1>1, <1>6, <1>8 DEF TurnInv, MainInTurn, SentInTurn

(* A reply comes back to the page.                                         *)
LEMMA OnmessageTurn ==
    ASSUME TypeOK, TurnInv, onmessage
    PROVE  TurnInv'
<1> DEFINE m == Head(outbox)
           T == Tail(outbox)
<1>1. /\ outbox \in Seq(Message) /\ outbox # <<>> /\ readyTodo = <<>>
      /\ InLine(Line) /\ MainInTurn /\ ChamberInTurn /\ SentInTurn
    BY DEF onmessage, TypeOK, ChamberType, TurnInv, Idle, LoopDone
<1>2. /\ readyTodo' = m.ready /\ outbox' = T
      /\ UNCHANGED <<heldBeacons, ring, groups, flushTodo, inbox, job, egressed>>
    BY DEF onmessage, instance
<1>3. m = outbox[1] /\ 1 \in DOMAIN outbox
    BY <1>1, HeadTailProperties, EmptySeq, LenProperties
<1>4. Joins(outbox, <<m>>, T)
    BY <1>1, JoinHead
<1> HIDE DEF m, T
<1>5. /\ Total(EachAnswer(outbox)) = RequestKeys(m.ready) \cup Total(EachAnswer(T))
      /\ Before(RequestKeys(m.ready), Total(EachAnswer(T)))
      /\ Rising(EachAnswer(T))
    <2>1. Total(EachAnswer(<<m>>)) = RequestKeys(m.ready)
        BY SinglesRise
    <2>2. Rising(EachAnswer(outbox))
        BY <1>1 DEF ChamberInTurn
    <2> QED
        BY <1>4, <2>1, <2>2, AnswersRise
<1>6. InLine(Line')
    <2> DEFINE M == RequestKeys(m.ready)
    <2>1. Line[6] = M \cup Total(EachAnswer(T)) /\ Line'[6] = Total(EachAnswer(T))
              /\ Line'[5] = M
        BY <1>2, <1>5, LineIs, LineWillBe
    <2> HIDE DEF M
    <2>2. /\ M \subseteq Line[6] /\ Before(M, Line'[6])
          /\ Line'[6] \subseteq Line[6] /\ Line'[5] \subseteq Line[5] \cup M
        BY <1>5, <2>1 DEF M
    <2>3. \A i \in Stages \ {6, 5} : Line'[i] \subseteq Line[i]
        BY <1>2, LineKept DEF Stages
    <2>4. 6 \in Stages /\ 5 \in Stages /\ 5 < 6
        BY DEF Stages
    <2>5. \A i \in Stages : 5 < i /\ i < 6 => Line[i] = {}
        BY DEF Stages
    <2> QED
        BY <1>1, <2>2, <2>3, <2>4, <2>5, Advance
<1>7. ChamberInTurn'
    <2>1. \A i \in DOMAIN T : Rising(EachRequest(T[i].ready))
        <3>1. \A i \in DOMAIN T : \E j \in DOMAIN outbox : T[i] = outbox[j]
            BY <1>4, JoinEntries
        <3> QED
            BY <1>1, <3>1 DEF ChamberInTurn
    <2> QED
        BY <1>1, <1>2, <1>5, <2>1 DEF ChamberInTurn
<1>8. MainInTurn'
    <2>1. Rising(EachRequest(m.ready))
        BY <1>1, <1>3 DEF ChamberInTurn
    <2> QED
        BY <1>1, <1>2, <2>1 DEF MainInTurn
<1> QED
    BY <1>1, <1>2, <1>6, <1>7, <1>8, SentStays DEF TurnInv

(* The first request of a list, and the rest of it.                        *)
LEMMA FirstInTurn ==
    ASSUME NEW T, NEW s \in Seq(T), s # <<>>, Rising(EachRequest(s))
    PROVE  LET k == KeyOf(Head(s))
           IN /\ RequestKeys(s) = {k} \cup RequestKeys(Tail(s))
              /\ Before({k}, RequestKeys(Tail(s))) /\ Rising(EachRequest(Tail(s)))
<1>1. Joins(s, <<Head(s)>>, Tail(s))
    BY JoinHead
<1>2. RequestKeys(<<Head(s)>>) = {KeyOf(Head(s))}
    BY Singles
<1>3. /\ RequestKeys(s) = {KeyOf(Head(s))} \cup RequestKeys(Tail(s))
      /\ Before({KeyOf(Head(s))}, RequestKeys(Tail(s)))
      /\ Rising(EachRequest(Tail(s)))
    <2>1. RequestKeys(s) = RequestKeys(<<Head(s)>>) \cup RequestKeys(Tail(s))
        BY <1>1, RequestsJoin
    <2>2. /\ Before(RequestKeys(<<Head(s)>>), RequestKeys(Tail(s)))
          /\ Rising(EachRequest(Tail(s)))
        BY <1>1, RequestsRise
    <2> QED
        BY <1>2, <2>1, <2>2, Zenon
<1> QED
    BY <1>3

(* A loop over held beacons and one over a reply are never both under way. *)
LoopsApart == flushTodo # <<>> => readyTodo = <<>> /\ groups = <<>>

LEMMA GateRequestTurn ==
    ASSUME ~Coalesce, TypeOK, TurnInv, GateOpen, GateRequest
    PROVE  TurnInv'
<1> DEFINE r == Head(readyTodo)
           k == KeyOf(r)
           T == Tail(readyTodo)
<1>1. /\ readyTodo \in Seq(Request) /\ readyTodo # <<>>
      /\ heldBeacons \in Seq(HeldItem) /\ groups \in Seq(Group)
      /\ InLine(Line) /\ MainInTurn /\ ChamberInTurn /\ SentInTurn
    BY DEF GateRequest, TypeOK, InstanceType, LoopType, TurnInv
<1>2. /\ readyTodo' = T
      /\ UNCHANGED <<ring, flushTodo, inbox, job, outbox, egressed>>
    BY DEF GateRequest, chamber
<1>3. /\ RequestKeys(readyTodo) = {k} \cup RequestKeys(T)
      /\ Before({k}, RequestKeys(T)) /\ Rising(EachRequest(T))
    BY <1>1, FirstInTurn DEF MainInTurn
<1>4. ChamberInTurn' /\ SentInTurn'
    BY <1>1, <1>2, ChamberStays, SentStays
<1> HIDE DEF r, k, T
<1>5. /\ Line[5] = {k} \cup RequestKeys(T) /\ Line'[5] = RequestKeys(T)
      /\ Line[3] = RequestKeys(heldBeacons) /\ Line[4] = Total(EachBundle(groups))
    BY <1>2, <1>3, LineIs, LineWillBe
<1>6. {k} \subseteq Line[5] /\ Before({k}, Line'[5]) /\ Line'[5] \subseteq Line[5]
    BY <1>3, <1>5
<1>7. Before(RequestKeys(heldBeacons), {k}) /\ Before(Total(EachBundle(groups)), {k})
    <2>1. Before(Line[3], Line[5]) /\ Before(Line[4], Line[5])
        BY <1>1 DEF InLine, Stages
    <2> QED
        BY <1>5, <2>1 DEF Before
<1>8. CASE UNCHANGED <<heldBeacons, groups>>
    <2>1. \A i \in Stages : Line'[i] \subseteq Line[i]
        BY <1>2, <1>6, <1>8, LineKept DEF Stages
    <2>2. MainInTurn'
        BY <1>1, <1>2, <1>3, <1>8 DEF MainInTurn
    <2> QED
        BY <1>1, <1>4, <2>1, <2>2, Thinner DEF TurnInv
<1>9. ASSUME SealVerdict = "hold", NEW b, KeyOf(b) = k,
             heldBeacons' = Append(heldBeacons, b), UNCHANGED groups
      PROVE  TurnInv'
    <2>1. Joins(heldBeacons', heldBeacons, <<b>>)
        BY <1>1, <1>9, JoinAppend
    <2>2. RequestKeys(<<b>>) = {k}
        BY <1>9, Singles
    <2>3. RequestKeys(heldBeacons') = RequestKeys(heldBeacons) \cup {k}
        BY <2>1, <2>2, RequestsJoin
    <2>4. Rising(EachRequest(heldBeacons'))
        <3>1. Rising(EachRequest(<<b>>)) /\ Rising(EachRequest(heldBeacons))
            BY <1>1, SinglesRise DEF MainInTurn
        <3> QED
            BY <1>7, <2>1, <2>2, <3>1, RequestsRise
    <2>5. Line[4] = {}
        <3>1. groups = <<>>
            BY <1>9 DEF GateOpen
        <3> QED
            BY <1>5, <3>1, Nothing
    <2>6. Line'[3] \subseteq Line[3] \cup {k}
        BY <1>5, <2>3, LineWillBe
    <2>7. \A i \in Stages \ {5, 3} : Line'[i] \subseteq Line[i]
        BY <1>2, <1>9, LineKept DEF Stages
    <2>8. 3 \in Stages /\ 5 \in Stages /\ 3 < 5
        BY DEF Stages
    <2>9. \A i \in Stages : 3 < i /\ i < 5 => Line[i] = {}
        BY <2>5 DEF Stages
    <2>10. InLine(Line')
        BY <1>1, <1>6, <2>6, <2>7, <2>8, <2>9, Advance
    <2>11. MainInTurn'
        BY <1>1, <1>2, <1>3, <1>9, <2>4 DEF MainInTurn
    <2> QED
        BY <1>4, <2>10, <2>11 DEF TurnInv
<1>10. ASSUME NEW g, g.keys = {k}, groups' = Append(groups, g),
              UNCHANGED heldBeacons
       PROVE  TurnInv'
    <2>1. Joins(groups', groups, <<g>>)
        BY <1>1, <1>10, JoinAppend
    <2>2. Total(EachBundle(<<g>>)) = {k}
        BY <1>10, Singles
    <2>3. Total(EachBundle(groups')) = Total(EachBundle(groups)) \cup {k}
        BY <2>1, <2>2, BundlesJoin, JoinTotals
    <2>4. Rising(EachBundle(groups'))
        <3>1. Rising(EachBundle(<<g>>)) /\ Rising(EachBundle(groups))
            BY <1>1, SinglesRise DEF MainInTurn
        <3> QED
            BY <1>7, <2>1, <2>2, <3>1, BundlesRise
    <2>5. Line'[4] \subseteq Line[4] \cup {k}
        BY <1>5, <2>3, LineWillBe
    <2>6. \A i \in Stages \ {5, 4} : Line'[i] \subseteq Line[i]
        BY <1>2, <1>10, LineKept DEF Stages
    <2>7. 4 \in Stages /\ 5 \in Stages /\ 4 < 5
        BY DEF Stages
    <2>8. \A i \in Stages : 4 < i /\ i < 5 => Line[i] = {}
        BY DEF Stages
    <2>9. InLine(Line')
        BY <1>1, <1>6, <2>5, <2>6, <2>7, <2>8, Advance
    <2>10. MainInTurn'
        BY <1>1, <1>2, <1>3, <1>10, <2>4 DEF MainInTurn
    <2> QED
        BY <1>4, <2>9, <2>10 DEF TurnInv
<1>11. \/ UNCHANGED <<heldBeacons, groups>>
       \/ /\ SealVerdict = "hold" /\ UNCHANGED groups
          /\ \E b : KeyOf(b) = k /\ heldBeacons' = Append(heldBeacons, b)
       \/ /\ UNCHANGED heldBeacons
          /\ \E g : g.keys = {k} /\ groups' = Append(groups, g)
    <2>1. CASE Refused(r)
        BY <2>1 DEF GateRequest, r, Survives, Refused
    <2>2. CASE SealVerdict = "hold"
        <3> DEFINE b == [seq |-> r.seq, form |-> r.form, dest |-> r.dest,
                         remap |-> canRemap]
        <3>1. heldBeacons' = Append(heldBeacons, b) /\ UNCHANGED groups
            BY <2>2 DEF GateRequest, r, Survives, Refused
        <3>2. KeyOf(b) = k
            BY DEF KeyOf, k
        <3> QED
            BY <2>2, <3>1, <3>2
    <2>3. CASE Survives(r)
        <3> DEFINE g == [keys |-> {KeyOf(r)}, dest |-> r.dest]
        <3>1. groups' = Append(groups, g) /\ UNCHANGED heldBeacons
            BY <2>3 DEF GateRequest, r, Survives, Refused, AddSurvivor
        <3>2. g.keys = {k}
            BY DEF k
        <3> HIDE DEF g
        <3> QED
            BY <3>1, <3>2
    <2> QED
        BY <2>1, <2>2, <2>3 DEF GateRequest, r
<1> QED
    BY <1>8, <1>9, <1>10, <1>11

(* Fetches of the worker path and of a flush.                              *)
LEMMA FetchTurn ==
    ASSUME TypeOK, SentInTurn, NEW M, NEW dest, NEW via, Emit(M, dest, via),
           via = "sync" \/ Before(Line[1], M)
    PROVE  /\ SentInTurn'
           /\ Line'[1] = Line[1] \cup (IF via = "sync" THEN {} ELSE M)
<1> DEFINE e == [keys |-> M, dest |-> dest, via |-> via]
           A == IF via = "sync" THEN {} ELSE M
<1>1. egressed \in Seq(Beacon) /\ egressed' = Append(egressed, e)
    BY DEF TypeOK, HistoryType, Emit
<1>2. AsyncKeys(e) = A
    BY DEF AsyncKeys
<1> HIDE DEF e
<1>3. Joins(egressed', egressed, <<e>>)
    BY <1>1, JoinAppend
<1>4. Total(EachFetch(<<e>>)) = A /\ Rising(EachFetch(<<e>>))
    BY <1>2, SinglesRise, Zenon
<1>5. Total(EachFetch(egressed')) = Total(EachFetch(egressed)) \cup A
    BY <1>3, <1>4, FetchesRise
<1>6. Before(Total(EachFetch(egressed)), A)
    BY LineIs DEF Before
<1>7. Rising(EachFetch(egressed'))
    BY <1>3, <1>4, <1>6, FetchesRise DEF SentInTurn
<1>8. Line'[1] = Line[1] \cup A
    BY <1>5, LineIs, LineWillBe
<1> QED
    BY <1>7, <1>8 DEF SentInTurn

LEMMA DispatchGroupTurn ==
    ASSUME ~Coalesce, TypeOK, TurnInv, GateOpen, LoopsApart, HeldOnlyWhileBlocked,
           DispatchGroup
    PROVE  TurnInv'
<1> DEFINE g == Head(groups)
           T == Tail(groups)
<1>1. /\ groups \in Seq(Group) /\ groups # <<>>
      /\ InLine(Line) /\ MainInTurn /\ ChamberInTurn /\ SentInTurn
    BY DEF DispatchGroup, TypeOK, LoopType, TurnInv
<1>2. Emit(g.keys, g.dest, "worker") /\ groups' = T
    BY DEF DispatchGroup, Outputs, Strays, GroupsAfter
<1>3. UNCHANGED <<heldBeacons, ring, readyTodo, flushTodo, inbox, job, outbox>>
    BY DEF DispatchGroup, instance, chamber
<1>4. Joins(groups, <<g>>, T)
    BY <1>1, JoinHead
<1>5. /\ Total(EachBundle(groups)) = g.keys \cup Total(EachBundle(T))
      /\ Before(g.keys, Total(EachBundle(T))) /\ Rising(EachBundle(T))
    <2>1. Total(EachBundle(<<g>>)) = g.keys
        BY Singles
    <2>2. Rising(EachBundle(groups))
        BY <1>1 DEF MainInTurn
    <2> QED
        BY <1>4, <2>1, <2>2, BundlesJoin, JoinTotals, BundlesRise
<1>6. flushTodo = <<>> /\ heldBeacons = <<>>
    BY <1>1 DEF LoopsApart, GateOpen, HeldOnlyWhileBlocked
<1> DEFINE M == g.keys
           R == Total(EachBundle(T))
<1>7. Line[4] = M \cup R /\ Line'[4] = R /\ Line[2] = {} /\ Line[3] = {}
    BY <1>2, <1>5, <1>6, LineIs, LineWillBe, Nothing
<1>8. Before(Line[1], M)
    <2>1. Before(Line[1], Line[4])
        BY <1>1 DEF InLine, Stages
    <2> QED
        BY <1>7, <2>1 DEF Before
<1>9. SentInTurn' /\ Line'[1] = Line[1] \cup M
    BY <1>1, <1>2, <1>8, FetchTurn
<1>10. MainInTurn' /\ ChamberInTurn'
    BY <1>1, <1>2, <1>3, <1>5, ChamberStays DEF MainInTurn
<1>11. Before(M, R)
    BY <1>5
<1> HIDE DEF M, R
<1>12. InLine(Line')
    <2>1. /\ M \subseteq Line[4] /\ Before(M, Line'[4])
          /\ Line'[4] \subseteq Line[4] /\ Line'[1] \subseteq Line[1] \cup M
        BY <1>7, <1>9, <1>11
    <2>2. \A i \in Stages \ {4, 1} : Line'[i] \subseteq Line[i]
        BY <1>3, LineKept DEF Stages
    <2>3. 4 \in Stages /\ 1 \in Stages /\ 1 < 4
        BY DEF Stages
    <2>4. \A i \in Stages : 1 < i /\ i < 4 => Line[i] = {}
        BY <1>7 DEF Stages
    <2> QED
        BY <1>1, <2>1, <2>2, <2>3, <2>4, Advance
<1> QED
    BY <1>9, <1>10, <1>12 DEF TurnInv

LEMMA SetConsentTurn ==
    ASSUME TurnInv, NEW u \in ConsentUpdates, setConsent(u)
    PROVE  TurnInv'
<1>1. /\ UNCHANGED <<ring, inbox, job, outbox, readyTodo, groups, egressed>>
      /\ InLine(Line) /\ MainInTurn /\ ChamberInTurn /\ SentInTurn
    BY DEF setConsent, chamber, history, TurnInv
<1>2. ChamberInTurn' /\ SentInTurn'
    BY <1>1, ChamberStays, SentStays
<1>3. CASE TakeHeld
    <2>1. Line'[2] = Line[3] /\ Line'[3] = {}
        BY <1>3, LineIs, LineWillBe, Nothing DEF TakeHeld
    <2>2. /\ Line[3] \subseteq Line[3] /\ Before(Line[3], Line'[3])
          /\ Line'[3] \subseteq Line[3] /\ Line'[2] \subseteq Line[2] \cup Line[3]
        BY <2>1 DEF Before
    <2>3. \A i \in Stages \ {3, 2} : Line'[i] \subseteq Line[i]
        BY <1>1, LineKept DEF Stages
    <2>4. 3 \in Stages /\ 2 \in Stages /\ 2 < 3
        BY DEF Stages
    <2>5. \A i \in Stages : 2 < i /\ i < 3 => Line[i] = {}
        BY DEF Stages
    <2>6. InLine(Line')
        BY <1>1, <2>2, <2>3, <2>4, <2>5, Advance
    <2>7. MainInTurn'
        BY <1>1, <1>3, NothingRises DEF MainInTurn, TakeHeld
    <2> QED
        BY <1>2, <2>6, <2>7 DEF TurnInv
<1>4. CASE UNCHANGED <<flushTodo, heldBeacons>>
    <2>1. \A i \in Stages : Line'[i] \subseteq Line[i]
        BY <1>1, <1>4, LineKept DEF Stages
    <2>2. MainInTurn'
        BY <1>1, <1>4 DEF MainInTurn
    <2> QED
        BY <1>1, <1>2, <2>1, <2>2, Thinner DEF TurnInv
<1> QED
    BY <1>3, <1>4 DEF setConsent

LEMMA FlushHeldTurn ==
    ASSUME TypeOK, TurnInv, FlushHeld
    PROVE  TurnInv'
<1> DEFINE b == Head(flushTodo)
           T == Tail(flushTodo)
           M == {KeyOf(b)}
<1>1. /\ flushTodo \in Seq(HeldItem) /\ flushTodo # <<>>
      /\ InLine(Line) /\ MainInTurn /\ ChamberInTurn /\ SentInTurn
    BY DEF FlushHeld, TypeOK, LoopType, TurnInv
<1>2. /\ RequestKeys(flushTodo) = M \cup RequestKeys(T)
      /\ Before(M, RequestKeys(T)) /\ Rising(EachRequest(T))
    BY <1>1, FirstInTurn DEF MainInTurn
<1>3. /\ flushTodo' = T
      /\ UNCHANGED <<heldBeacons, ring, readyTodo, groups, inbox, job, outbox>>
    BY DEF FlushHeld, instance, chamber
<1>4. \/ UNCHANGED egressed
      \/ \E dest, via : Emit(M, dest, via) /\ via # "sync"
    BY DEF FlushHeld
<1> HIDE DEF b, T, M
<1>5. Line[2] = M \cup RequestKeys(T) /\ Line'[2] = RequestKeys(T)
    BY <1>2, <1>3, LineIs, LineWillBe
<1>6. MainInTurn' /\ ChamberInTurn'
    BY <1>1, <1>2, <1>3, ChamberStays DEF MainInTurn
<1>7. Before(Line[1], M)
    <2>1. Before(Line[1], Line[2])
        BY <1>1 DEF InLine, Stages
    <2> QED
        BY <1>5, <2>1 DEF Before
<1>8. SentInTurn' /\ Line'[1] \subseteq Line[1] \cup M
    <2>1. CASE UNCHANGED egressed
        BY <1>1, <2>1, SentStays, LineKept
    <2>2. ASSUME NEW dest, NEW via, Emit(M, dest, via), via # "sync"
          PROVE  <1>8
        BY <1>1, <1>7, <2>2, FetchTurn
    <2> QED
        BY <1>4, <2>1, <2>2
<1>9. InLine(Line')
    <2>1. /\ M \subseteq Line[2] /\ Before(M, Line'[2]) /\ Line'[2] \subseteq Line[2]
        BY <1>2, <1>5
    <2>2. \A i \in Stages \ {2, 1} : Line'[i] \subseteq Line[i]
        BY <1>3, LineKept DEF Stages
    <2>3. 2 \in Stages /\ 1 \in Stages /\ 1 < 2
        BY DEF Stages
    <2>4. \A i \in Stages : 1 < i /\ i < 2 => Line[i] = {}
        BY DEF Stages
    <2> QED
        BY <1>1, <1>8, <2>1, <2>2, <2>3, <2>4, Advance
<1> QED
    BY <1>6, <1>8, <1>9 DEF TurnInv

(* The synchronous loop is not in the line.                                *)
LEMMA SyncDispatchTurn ==
    ASSUME TypeOK, TurnInv, SyncDispatch
    PROVE  TurnInv'
<1>1. /\ UNCHANGED <<heldBeacons, ring, readyTodo, groups, flushTodo, inbox, job,
                     outbox>>
      /\ InLine(Line) /\ MainInTurn /\ ChamberInTurn /\ SentInTurn
    BY DEF SyncDispatch, chamber, TurnInv
<1>2. UNCHANGED egressed \/ \E M, dest : Emit(M, dest, "sync")
    BY DEF SyncDispatch, SyncDrop, SyncThrow, SyncSend
<1>3. SentInTurn' /\ Line'[1] = Line[1]
    <2>1. CASE UNCHANGED egressed
        BY <1>1, <2>1, SentStays, LineKept
    <2>2. ASSUME NEW M, NEW dest, Emit(M, dest, "sync") PROVE <1>3
        BY <1>1, <2>2, FetchTurn
    <2> QED
        BY <1>2, <2>1, <2>2
<1>4. \A i \in Stages : Line'[i] \subseteq Line[i]
    BY <1>1, <1>3, LineKept DEF Stages
<1>5. MainInTurn' /\ ChamberInTurn'
    BY <1>1, ChamberStays DEF MainInTurn
<1> QED
    BY <1>1, <1>3, <1>4, <1>5, Thinner DEF TurnInv

(* A step that leaves the line alone, or empties the ring.                 *)
LEMMA LineStays ==
    ASSUME TurnInv, ring' = <<>> \/ UNCHANGED ring,
           UNCHANGED <<heldBeacons, readyTodo, groups, flushTodo, inbox, job,
                       outbox, egressed>>
    PROVE  TurnInv'
<1>1. InLine(Line) /\ MainInTurn /\ ChamberInTurn /\ SentInTurn
    BY DEF TurnInv
<1>2. Line'[10] \subseteq Line[10]
    BY LineWillBe, LineKept, Nothing
<1>3. \A i \in Stages : Line'[i] \subseteq Line[i]
    BY <1>2, LineKept DEF Stages
<1>4. MainInTurn'
    BY <1>1, NothingRises DEF MainInTurn
<1> QED
    BY <1>1, <1>3, <1>4, Thinner, ChamberStays, SentStays DEF TurnInv

(* A new event bears a number above those of every key there is.           *)
LEMMA PushTurn ==
    ASSUME TypeOK, FateInv, TurnInv, NEW t \in Types, push(t)
    PROVE  TurnInv'
<1> DEFINE d == [seq |-> seq, type |-> t]
<1>1. /\ ring \in Seq(Descriptor) /\ seq \in Nat /\ pushedCritical \in Nat
      /\ InLine(Line) /\ MainInTurn /\ ChamberInTurn /\ SentInTurn
    BY LenProperties
       DEF TypeOK, InstanceType, EnvironmentType, seq, TurnInv
<1>2. d \in Descriptor /\ d.seq = seq
    BY <1>1 DEF Descriptor
<1>3. /\ ring' = Append(ring, d)
      /\ UNCHANGED <<heldBeacons, readyTodo, groups, flushTodo, inbox, job, outbox,
                     egressed>>
    BY DEF push, loop, chamber, history
<1> HIDE DEF d
<1>4. Joins(ring', ring, <<d>>)
    BY <1>1, <1>2, <1>3, JoinAppend
<1>5. DescriptorKeys(<<d>>) = KeysOf(d) /\ Rising(EachEvent(<<d>>))
    BY Singles, SinglesRise
<1>6. Line[10] = DescriptorKeys(ring) /\ Line'[10] = Line[10] \cup KeysOf(d)
    BY <1>4, <1>5, EventsJoin, LineIs, LineWillBe
<1>7. \A i \in Stages \ {10} : Line'[i] = Line[i]
    BY <1>3, LineKept DEF Stages
<1>8. \A i \in Stages : Line[i] \subseteq Anywhere(Placement)
    <2>1. Line[1] \subseteq Placement["sent"]
        BY LineIs, PlacementIs
           DEF Total, EachFetch, AsyncKeys, EachBundle
    <2>2. Line[6] \subseteq Placement["outbox"]
        BY LineIs, PlacementIs DEF Total, EachAnswer, EachReply, MessageKeys
    <2>3. Line[7] \subseteq Placement["job"] /\ Line[8] \subseteq Placement["job"]
        BY LineIs, PlacementIs DEF JobReady, JobTodo, JobKeys, MessageKeys
    <2>4. /\ Line[2] = Placement["flush"] /\ Line[3] = Placement["held"]
          /\ Line[4] = Placement["groups"] /\ Line[5] = Placement["ready"]
          /\ Line[9] = Placement["inbox"] /\ Line[10] = Placement["ring"]
        BY LineIs, PlacementIs
    <2>5. \A p \in Places : Placement[p] \subseteq Anywhere(Placement)
        BY DEF Anywhere
    <2>6. /\ Line[1] \subseteq Anywhere(Placement) /\ Line[6] \subseteq Anywhere(Placement)
          /\ Line[7] \subseteq Anywhere(Placement) /\ Line[8] \subseteq Anywhere(Placement)
        BY <2>1, <2>2, <2>3, <2>5 DEF Places
    <2>7. /\ Line[2] \subseteq Anywhere(Placement) /\ Line[3] \subseteq Anywhere(Placement)
          /\ Line[4] \subseteq Anywhere(Placement) /\ Line[5] \subseteq Anywhere(Placement)
          /\ Line[9] \subseteq Anywhere(Placement) /\ Line[10] \subseteq Anywhere(Placement)
        BY <2>4, <2>5 DEF Places
    <2> QED
        BY <2>6, <2>7 DEF Stages
<1>9. \A i \in Stages : Before(Line[i], KeysOf(d))
    <2>1. \A k \in KeysOf(d) : k[1] = seq
        BY <1>2 DEF KeysOf
    <2>2. \A k \in Anywhere(Placement) : k[1] \in -pushedCritical..(seq - 1)
        BY DEF FateInv, Fresh
    <2>3. \A n \in -pushedCritical..(seq - 1) : n <= seq
        BY <1>1
    <2> QED
        BY <1>8, <2>1, <2>2, <2>3 DEF Before
<1>10. InLine(Line')
    <2>1. ASSUME NEW i \in Stages, NEW j \in Stages, i < j
          PROVE  Before(Line'[i], Line'[j])
        <3>1. i # 10 /\ Line'[i] = Line[i]
            BY <1>7, <2>1 DEF Stages
        <3>2. Before(Line[i], Line[j])
            BY <1>1, <2>1 DEF InLine
        <3>3. CASE j = 10
            BY <1>6, <1>9, <3>1, <3>2, <3>3 DEF Before
        <3>4. CASE j # 10
            BY <1>7, <3>1, <3>2, <3>4
        <3> QED
            BY <3>3, <3>4
    <2> QED
        BY <2>1 DEF InLine
<1>11. MainInTurn'
    <2>1. Before(DescriptorKeys(ring), KeysOf(d))
        BY <1>6, <1>9 DEF Stages
    <2>2. Rising(EachEvent(ring'))
        BY <1>1, <1>4, <1>5, <2>1, EventsRise DEF MainInTurn
    <2> QED
        BY <1>1, <1>3, <2>2 DEF MainInTurn
<1> QED
    BY <1>1, <1>3, <1>10, <1>11, ChamberStays, SentStays DEF TurnInv

LEMMA TurnStep ==
    ASSUME ~Coalesce, TypeInv, FateInv, TurnInv, GateOpen, LoopsApart,
           HeldOnlyWhileBlocked, [Next]_vars
    PROVE  TurnInv'
<1>1. TypeOK
    BY DEF TypeInv
<1>2. ASSUME NEW t \in Types, push(t) PROVE TurnInv'
    BY <1>1, <1>2, PushTurn
<1>3. CASE \/ \E t \in Types : pushCritical(t)
           \/ Hide \/ Show \/ PageHide \/ FetchSettles \/ UNCHANGED vars
    <2>1. /\ ring' = <<>> \/ UNCHANGED ring
          /\ UNCHANGED <<heldBeacons, readyTodo, groups, flushTodo, inbox, job,
                         outbox, egressed>>
        BY <1>3 DEF pushCritical, Hide, Show, PageHide, FlushOnLeaving,
           unloadFlush, FetchSettles, vars, instance, loop, chamber, history
    <2> QED
        BY <2>1, LineStays
<1>4. CASE drain \/ FlushNowChunk
    <2>1. UNCHANGED <<job, outbox, readyTodo, groups, flushTodo, heldBeacons,
                      egressed>>
        BY <1>4 DEF drain, FlushNowChunk, loop
    <2>2. CASE sendBatch(ThisChunk) /\ ring' = NextChunks
        BY <1>1, <2>1, <2>2, SendBatchTurn
    <2>3. CASE UNCHANGED <<ring, inbox>>
        BY <2>1, <2>3, LineStays
    <2> QED
        BY <1>4, <2>2, <2>3 DEF drain, FlushNowChunk
<1>5. CASE StartBatch \/ RouteEvent \/ PostReady
    BY <1>1, <1>5, StartBatchTurn, RouteEventTurn, PostReadyTurn
<1>6. CASE WorkerFails \/ dispose
    <2>1. /\ inbox' = <<>> /\ job' = NoJob /\ (outbox' = <<>> \/ UNCHANGED outbox)
          /\ UNCHANGED <<heldBeacons, ring, readyTodo, groups, flushTodo, egressed>>
        BY <1>6 DEF WorkerFails, dispose, instance, loop, history
    <2> QED
        BY <2>1, ChamberLostTurn
<1>7. CASE onmessage
    BY <1>1, <1>7, OnmessageTurn
<1>8. CASE GateRequest
    BY <1>1, <1>8, GateRequestTurn
<1>9. CASE DispatchGroup
    BY <1>1, <1>9, DispatchGroupTurn
<1>10. ASSUME NEW u \in ConsentUpdates, setConsent(u) PROVE TurnInv'
    BY <1>10, SetConsentTurn
<1>11. CASE FlushHeld
    BY <1>1, <1>11, FlushHeldTurn
<1>12. CASE SyncDispatch
    BY <1>1, <1>12, SyncDispatchTurn
<1> QED
    BY <1>2, <1>3, <1>4, <1>5, <1>6, <1>7, <1>8, <1>9, <1>10, <1>11, <1>12
       DEF Next, Host, Browser, Chamber, Main, flushNow, flushNowContinues

LEMMA LoopsApartStep ==
    ASSUME LoopsApart, [Next]_vars
    PROVE  LoopsApart'
<1>1. CASE UNCHANGED <<flushTodo, readyTodo, groups>>
    BY <1>1 DEF LoopsApart
<1>2. CASE GateRequest \/ DispatchGroup
    BY <1>2 DEF GateRequest, DispatchGroup, LoopsApart
<1>3. CASE FlushHeld
    BY <1>3 DEF FlushHeld, LoopsApart
<1>4. CASE onmessage
    BY <1>4 DEF onmessage, Idle, LoopDone, LoopsApart
<1>5. ASSUME NEW u \in ConsentUpdates, setConsent(u) PROVE LoopsApart'
    BY <1>5 DEF setConsent, Idle, LoopDone, LoopsApart
<1> QED
    BY <1>1, <1>2, <1>3, <1>4, <1>5
       DEF Next, Host, Browser, Chamber, Main, vars, loop, push,
           pushCritical, flushNow, dispose, Hide, Show, PageHide, WorkerFails,
           FlushOnLeaving, StartBatch, RouteEvent, PostReady, drain,
           FetchSettles, flushNowContinues, FlushNowChunk, SyncDispatch

LEMMA TurnInit == Init => TurnInv
<1> SUFFICES ASSUME Init PROVE TurnInv
    OBVIOUS
<1>1. JobReady = {} /\ JobTodo = {}
    BY DEF Init, JobReady, JobTodo
<1>2. \A i \in Stages : Line[i] = {}
    BY <1>1, LineIs, Nothing, NothingRises DEF Init, Stages
<1>3. InLine(Line)
    BY <1>2 DEF InLine, Before
<1>4. DOMAIN <<>> = {}
    OBVIOUS
<1> QED
    BY <1>3, <1>4, NothingRises
       DEF Init, TurnInv, MainInTurn, ChamberInTurn, SentInTurn

(* The worker path keeps the order of the pushes to its very end, whatever *)
(* is held and flushed in between, when the connector does not coalesce:   *)
(* per destination as the property asks, and in fact over all of them      *)
(* (airlock.js:401-470, 585-640, 778-860).                                 *)
THEOREM PushOrderKept == Spec => []AsyncOrder
<1>1. Init => GateOpen /\ LoopsApart /\ (~Coalesce => TurnInv)
    BY TurnInit DEF Init, GateOpen, LoopsApart
<1>2. TypeInv /\ GateOpen /\ [Next]_vars => GateOpen'
    BY GateOpenStep
<1>3. LoopsApart /\ [Next]_vars => LoopsApart'
    BY LoopsApartStep
<1>4. /\ TypeInv /\ FateInv /\ GateOpen /\ LoopsApart /\ HeldOnlyWhileBlocked
      /\ (~Coalesce => TurnInv) /\ [Next]_vars
      => (~Coalesce => TurnInv)'
    BY TurnStep
<1>5. (~Coalesce => TurnInv) => AsyncOrder
    <2> SUFFICES ASSUME ~Coalesce, SentInTurn,
                        NEW i \in DOMAIN egressed, NEW j \in DOMAIN egressed, i < j,
                        egressed[i].via # "sync", egressed[j].via # "sync",
                        NEW a \in egressed[i].keys, NEW b \in egressed[j].keys
                 PROVE  a[1] <= b[1]
        BY DEF TurnInv, AsyncOrder
    <2>1. \A n \in DOMAIN egressed : EachFetch(egressed)[n] = AsyncKeys(egressed[n])
        BY DEF EachFetch
    <2>2. DOMAIN EachFetch(egressed) = DOMAIN egressed
        BY DEF EachFetch
    <2>3. a \in EachFetch(egressed)[i] /\ b \in EachFetch(egressed)[j]
        BY <2>1 DEF AsyncKeys
    <2> QED
        BY <2>2, <2>3 DEF SentInTurn, Rising, Before
<1> QED
    BY <1>1, <1>2, <1>3, <1>4, <1>5, FateInvariant, NothingHeldWithoutReason, PTL
       DEF Spec
=============================================================================
