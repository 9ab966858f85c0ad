-------------------------- MODULE CoalescingBroker --------------------------
(***************************************************************************)
(* createCoalescingBroker() (core/coalescing-broker.js): the main-thread   *)
(* point every chamber's intercepted fetches pass, so that chambers which  *)
(* all find no identity and all ask for one end up with the same one.      *)
(*                                                                         *)
(* handleInterceptedFetch() is an async function: one action here is one   *)
(* run between two awaits. Each call of it is a member of Calls and is     *)
(* made at most once. The identity the server mints for a dispatched call  *)
(* is named by that call. The microtask between the settling of dispatch() *)
(* and the continuation of the first mint is not a step of its own: a mint *)
(* arriving in it finds the in-flight entry either way.                    *)
(***************************************************************************)
EXTENDS FiniteSets

CONSTANTS
    Calls,       \* the calls of handleInterceptedFetch()
    Keys,        \* mint keys (the datastream of an interact)
    NoKey,       \* recognize() says the request is not an identity mint
    MintKey,     \* [call -> the mintKey recognize() finds, or NoKey]
    Coalescing,  \* opts.coalescing
    NoIdentity,  \* what ecidOf() reads from a response that carries none
    NoCall,      \* an absent map entry
    Rejected     \* a promise settled by reject()

ASSUME BrokerAssumption ==
    /\ MintKey \in [Calls -> Keys \cup {NoKey}]
    /\ NoKey \notin Keys
    /\ Coalescing \in BOOLEAN
    /\ {NoIdentity, NoCall, Rejected} \cap Calls = {}
    /\ NoIdentity # NoCall /\ NoIdentity # Rejected /\ NoCall # Rejected

VARIABLES
    pc,         \* where each call is
    inFlight,   \* key -> the call whose promise is registered, or NoCall
    completed,  \* key -> the call whose response is retained, or NoCall
    pending,    \* held call -> the call whose promise it captured
    settled,    \* call -> how its dispatch settled: an identity, Rejected
    answer,     \* call -> what handleInterceptedFetch() gave the chamber
    egress      \* the calls that left the broker and were answered

vars == <<pc, inFlight, completed, pending, settled, answer, egress>>

Identity == Calls \cup {NoIdentity}
Outcome  == Identity \cup {Rejected}
Running  == {"new", "passthrough", "first", "held"}
IsMint(c) == MintKey[c] # NoKey

TypeOK ==
    /\ pc \in [Calls -> Running \cup {"done"}]
    /\ inFlight \in [Keys -> Calls \cup {NoCall}]
    /\ completed \in [Keys -> Calls \cup {NoCall}]
    /\ pending \in [Calls -> Calls \cup {NoCall}]
    /\ settled \in [Calls -> Outcome \cup {NoCall}]
    /\ answer \in [Calls -> Outcome \cup {NoCall}]
    /\ egress \subseteq Calls
    /\ \A k \in Keys : completed[k] # NoCall => settled[completed[k]] \in Identity

Init ==
    /\ pc = [c \in Calls |-> "new"]
    /\ inFlight = [k \in Keys |-> NoCall]
    /\ completed = [k \in Keys |-> NoCall]
    /\ pending = [c \in Calls |-> NoCall]
    /\ settled = [c \in Calls |-> NoCall]
    /\ answer = [c \in Calls |-> NoCall]
    /\ egress = {}
-----------------------------------------------------------------------------
(* The call returns r to its chamber, or throws.                           *)
Return(c, r) == /\ pc' = [pc EXCEPT ![c] = "done"]
                /\ answer' = [answer EXCEPT ![c] = r]

(* What the network makes of a dispatched request: the server mints and    *)
(* answers; it answers without an identity (an error status, a body that   *)
(* does not parse); dispatch() rejects.                                    *)
DispatchOutcome(c) == {c, NoIdentity, Rejected}

(* Coalescing off, or not a mint: straight to dispatch().                  *)
Passthrough(c) ==
    /\ pc[c] = "new"
    /\ ~Coalescing \/ ~IsMint(c)
    /\ pc' = [pc EXCEPT ![c] = "passthrough"]
    /\ UNCHANGED <<inFlight, completed, pending, settled, answer, egress>>

PassthroughSettles(c) ==
    /\ pc[c] = "passthrough"
    /\ \E r \in DispatchOutcome(c) :
         /\ settled' = [settled EXCEPT ![c] = r]
         /\ egress' = IF r = Rejected THEN egress ELSE egress \cup {c}
         /\ Return(c, r)
    /\ UNCHANGED <<inFlight, completed, pending>>

(* Window (b): the mint of this key completed before.                      *)
LateSuppressed(c) ==
    /\ pc[c] = "new" /\ Coalescing /\ IsMint(c)
    /\ completed[MintKey[c]] # NoCall
    /\ Return(c, settled[completed[MintKey[c]]])
    /\ UNCHANGED <<inFlight, completed, pending, settled, egress>>

(* Window (a): captures the promise registered now, before it awaits.      *)
HoldInFlight(c) ==
    /\ pc[c] = "new" /\ Coalescing /\ IsMint(c)
    /\ completed[MintKey[c]] = NoCall
    /\ inFlight[MintKey[c]] # NoCall
    /\ pending' = [pending EXCEPT ![c] = inFlight[MintKey[c]]]
    /\ pc' = [pc EXCEPT ![c] = "held"]
    /\ UNCHANGED <<inFlight, completed, settled, answer, egress>>

(* A mint that registers only after its dispatch() was awaited.            *)
RegisterLate(c) == inFlight

(* The promise a call registers when it finds neither.                     *)
Register(c) == [inFlight EXCEPT ![MintKey[c]] = c]

FirstMint(c) ==
    /\ pc[c] = "new" /\ Coalescing /\ IsMint(c)
    /\ completed[MintKey[c]] = NoCall
    /\ inFlight[MintKey[c]] = NoCall
    /\ inFlight' = Register(c)
    /\ pc' = [pc EXCEPT ![c] = "first"]
    /\ UNCHANGED <<completed, pending, settled, answer, egress>>

(* A broker that forgets the mint once nobody is held behind it.           *)
RetainNothing(c) == completed

(* dispatch() resolved: retain the association, release the held calls.    *)
(* A response is a success whatever its status.                            *)
Retain(c) == [completed EXCEPT ![MintKey[c]] = c]

MintResolves(c) ==
    /\ pc[c] = "first"
    /\ \E r \in DispatchOutcome(c) \ {Rejected} :
         /\ settled' = [settled EXCEPT ![c] = r]
         /\ Return(c, r)
    /\ completed' = Retain(c)
    /\ egress' = egress \cup {c}
    /\ inFlight' = [inFlight EXCEPT ![MintKey[c]] = NoCall]
    /\ UNCHANGED pending

(* A failure that leaves the promise of the held calls pending.            *)
RejectNobody(c) == settled

(* dispatch() rejected: the held calls get the same failure, `completed`   *)
(* stays unpopulated, the next mint of the key is a first mint again.      *)
Unpopulated(c) == completed

RejectInFlight(c) == [settled EXCEPT ![c] = Rejected]

MintRejects(c) ==
    /\ pc[c] = "first"
    /\ settled' = RejectInFlight(c)
    /\ Return(c, Rejected)
    /\ completed' = Unpopulated(c)
    /\ inFlight' = [inFlight EXCEPT ![MintKey[c]] = NoCall]
    /\ UNCHANGED <<pending, egress>>

(* A held call that looks its key up again when it resumes.                *)
HeldAnswerLookedUp(c) ==
    IF completed[MintKey[c]] = NoCall THEN Rejected
                                      ELSE settled[completed[MintKey[c]]]

(* `await pending` resumes.                                                *)
HeldAnswer(c) == settled[pending[c]]

HeldResumes(c) ==
    /\ pc[c] = "held"
    /\ settled[pending[c]] # NoCall
    /\ Return(c, HeldAnswer(c))
    /\ UNCHANGED <<inFlight, completed, pending, settled, egress>>

Finished == /\ \A c \in Calls : pc[c] = "done"
            /\ UNCHANGED vars

Next == \/ \E c \in Calls : \/ Passthrough(c) \/ PassthroughSettles(c)
                            \/ LateSuppressed(c) \/ HoldInFlight(c)
                            \/ FirstMint(c) \/ MintResolves(c)
                            \/ MintRejects(c) \/ HeldResumes(c)
        \/ Finished

Spec == Init /\ [][Next]_vars

(* The microtask queue runs a continuation whose promise settled; every    *)
(* fetch() ends, with a response or with a network error. Chambers call    *)
(* when they like.                                                         *)
Fairness == \A c \in Calls : /\ WF_vars(HeldResumes(c))
                             /\ WF_vars(PassthroughSettles(c))
                             /\ WF_vars(MintResolves(c) \/ MintRejects(c))

FairSpec == Spec /\ Fairness
-----------------------------------------------------------------------------
(* Safety.                                                                 *)

Mints(k) == {c \in Calls : Coalescing /\ MintKey[c] = k}

(* With coalescing on, chambers that were given an identity for the same   *)
(* key were all given the same one: no split identity, whatever the order  *)
(* of arrivals, failures and resumptions.                                  *)
OneIdentity ==
    \A k \in Keys : \A c, d \in Mints(k) :
        {answer[c], answer[d]} \cap {NoCall, Rejected} = {} =>
            answer[c] = answer[d]

(* "Exactly one interact egresses per coalesced identity": of the mints of *)
(* a key at most one is on the network at a time, and after one was        *)
(* answered none is sent again.                                            *)
OneMintPerKey ==
    \A k \in Keys : \A c, d \in Mints(k) :
        (pc[c] = "first" \/ c \in egress) /\ (pc[d] = "first" \/ d \in egress)
            => c = d

(* A held call ends exactly as the mint it was held behind did: the same   *)
(* answer or the same failure, even if a later mint of the key succeeded   *)
(* or started in between.                                                  *)
HeldSharesFate ==
    \A c \in Calls : pending[c] # NoCall /\ pc[c] = "done" =>
        /\ MintKey[pending[c]] = MintKey[c]
        /\ answer[c] = answer[pending[c]]

(* No chamber is held for ever behind a mint: the failure path settles it  *)
(* too (the reject-path regression of the broker's tests).                 *)
HeldSettles == \A c \in Calls : pc[c] = "held" ~> pc[c] = "done"

(* The header comment on a failed first mint, "an Edge 5xx / network       *)
(* failure": a retry mints fresh rather than replaying the failure. So no  *)
(* call that was suppressed gets the answer of a mint that brought no      *)
(* identity.                                                               *)
FailureNotReplayed ==
    \A c \in Calls : Coalescing /\ IsMint(c) /\ pc[c] = "done"
                        /\ settled[c] = NoCall /\ pending[c] = NoCall =>
        answer[c] # NoIdentity
=============================================================================
