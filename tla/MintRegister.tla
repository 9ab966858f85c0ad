---------------------------- MODULE MintRegister ----------------------------
(***************************************************************************)
(* What the broker promises the chambers: per key a register that is       *)
(* written once, and calls that read it or fail.                           *)
(***************************************************************************)
CONSTANTS Callers, Registers, Values, KeyOf, Empty, Failed

VARIABLES register,  \* [Registers -> Values \cup {Empty}]
          outcome    \* [Callers -> Values \cup {Empty, Failed}]

vars == <<register, outcome>>

Init == /\ register = [k \in Registers |-> Empty]
        /\ outcome = [c \in Callers |-> Empty]

Write(c) == /\ outcome[c] = Empty
            /\ register[KeyOf[c]] = Empty
            /\ \E v \in Values :
                 /\ register' = [register EXCEPT ![KeyOf[c]] = v]
                 /\ outcome' = [outcome EXCEPT ![c] = v]

Read(c) == /\ outcome[c] = Empty
           /\ register[KeyOf[c]] # Empty
           /\ outcome' = [outcome EXCEPT ![c] = register[KeyOf[c]]]
           /\ UNCHANGED register

Fail(c) == /\ outcome[c] = Empty
           /\ outcome' = [outcome EXCEPT ![c] = Failed]
           /\ UNCHANGED register

Next == \E c \in Callers : Write(c) \/ Read(c) \/ Fail(c)

Spec == Init /\ [][Next]_vars
=============================================================================
