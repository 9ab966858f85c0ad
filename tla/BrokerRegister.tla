--------------------------- MODULE BrokerRegister ---------------------------
(***************************************************************************)
(* The broker implements the register: the refinement mapping from         *)
(* CoalescingBroker to MintRegister. The callers are the coalesced mints;  *)
(* a register holds the retained association of its key.                   *)
(***************************************************************************)
EXTENDS CoalescingBroker

Coalesced == {c \in Calls : Coalescing /\ IsMint(c)}

CoalescedKey == [c \in Coalesced |-> MintKey[c]]

Association == [k \in Keys |-> IF completed[k] = NoCall THEN NoCall
                               ELSE settled[completed[k]]]

Answered == [c \in Coalesced |-> answer[c]]

OneTime == INSTANCE MintRegister WITH
    Callers   <- Coalesced,
    Registers <- Keys,
    Values    <- Identity,
    KeyOf     <- CoalescedKey,
    Empty     <- NoCall,
    Failed    <- Rejected,
    register  <- Association,
    outcome   <- Answered

(* Every run of the broker is a run of the register: the chambers that ask *)
(* for one key write its identity once or read the one written, over holds *)
(* in flight, late suppressions, failures and retries.                     *)
ImplementsRegister == OneTime!Spec
=============================================================================
