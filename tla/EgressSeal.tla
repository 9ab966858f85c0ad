---------------------------- MODULE EgressSeal -----------------------------
(***************************************************************************)
(* What an instance promises its host about egress, free of rings, Workers,*)
(* batches and flushes: a beacon-to-be is accepted, and from then on it is *)
(* fetched at most once, and only while consent lets it.                   *)
(***************************************************************************)
EXTENDS Naturals

CONSTANT Keys      \* beacons-to-be

VARIABLES open,    \* the seal's verdict is "send"
          pending,  \* accepted, not yet sent or given up
          sends    \* how often each was fetched

vars == <<open, pending, sends>>

TypeOK == /\ open \in BOOLEAN
          /\ pending \subseteq Keys
          /\ sends \in [Keys -> Nat]

Init == /\ open \in BOOLEAN
        /\ pending = {}
        /\ sends = [k \in Keys |-> 0]

(* The host hands over new work. *)
Accept == \E K \in SUBSET {k \in Keys \ pending : sends[k] = 0} :
            /\ pending' = pending \cup K
            /\ UNCHANGED <<open, sends>>

(* One fetch may carry several of them. *)
Send == /\ open
        /\ \E K \in SUBSET pending :
             /\ pending' = pending \ K
             /\ sends' = [k \in Keys |-> IF k \in K THEN sends[k] + 1 ELSE sends[k]]
        /\ UNCHANGED open

GiveUp == \E K \in SUBSET pending : /\ pending' = pending \ K
                                   /\ UNCHANGED <<open, sends>>

ConsentChanges == open' = ~open /\ UNCHANGED <<pending, sends>>

Next == Accept \/ Send \/ GiveUp \/ ConsentChanges

Spec == Init /\ [][Next]_vars

AtMostOnce == \A k \in Keys : sends[k] <= 1
=============================================================================
