---------------------------- MODULE BrokerProofs ----------------------------
(***************************************************************************)
(* What TLAPS proves of the coalescing broker for every set of calls, keys *)
(* and every way recognize() reads them.                                   *)
(***************************************************************************)
EXTENDS BrokerRegister, TLAPS

(* A registered promise belongs to the mint of its key that is on the      *)
(* network, and that mint is registered; nothing completed meanwhile.      *)
RegisteredIsFirst ==
    /\ \A k \in Keys : inFlight[k] # NoCall =>
          /\ inFlight[k] \in Calls
          /\ pc[inFlight[k]] = "first" /\ MintKey[inFlight[k]] = k
          /\ completed[k] = NoCall
    /\ \A c \in Calls : pc[c] = "first" =>
          /\ Coalescing /\ MintKey[c] \in Keys
          /\ inFlight[MintKey[c]] = c

(* A retained association is the response its own first mint returned.     *)
RetainedIsReturned ==
    \A k \in Keys : completed[k] # NoCall =>
        /\ completed[k] \in Calls
        /\ Coalescing /\ MintKey[completed[k]] = k
        /\ settled[completed[k]] \in Identity

(* A call has an answer once it is done; one that dispatched is done when  *)
(* its dispatch settles, and a mint that was answered is retained.         *)
SettledIsDone ==
    \A c \in Calls :
        /\ pc[c] = "done" <=> answer[c] # NoCall
        /\ settled[c] # NoCall => pc[c] = "done" /\ answer[c] = settled[c]
        /\ c \in egress => settled[c] \in Identity
        /\ settled[c] \in Identity /\ Coalescing /\ MintKey[c] \in Keys =>
              completed[MintKey[c]] = c

(* A held call captured the promise of a mint of its key, on the network   *)
(* or settled.                                                             *)
HeldBehindMint ==
    \A c \in Calls :
        /\ pc[c] = "held" => pending[c] # NoCall
        /\ pending[c] # NoCall =>
              /\ pc[c] \in {"held", "done"}
              /\ Coalescing /\ MintKey[c] \in Keys
              /\ pending[c] \in Calls /\ MintKey[pending[c]] = MintKey[c]
              /\ settled[pending[c]] = NoCall => pc[pending[c]] = "first"
              /\ pc[c] = "done" => answer[c] = settled[pending[c]]

(* What passes straight through is not a coalesced mint.                   *)
PassthroughIsNoMint ==
    \A c \in Calls : pc[c] = "passthrough" => ~(Coalescing /\ MintKey[c] \in Keys)

(* An identity given to a chamber is the retained one.                     *)
AnswerIsRetained ==
    \A c \in Calls : Coalescing /\ MintKey[c] \in Keys /\ answer[c] \in Identity =>
        /\ completed[MintKey[c]] # NoCall
        /\ answer[c] = settled[completed[MintKey[c]]]

IInv == /\ TypeOK /\ RegisteredIsFirst /\ RetainedIsReturned
        /\ SettledIsDone /\ HeldBehindMint /\ PassthroughIsNoMint
        /\ AnswerIsRetained

LEMMA InitIInv == Init => IInv
<1> SUFFICES ASSUME Init PROVE IInv
    OBVIOUS
<1> USE BrokerAssumption DEF Init, Identity, Outcome
<1>1. TypeOK
    BY DEF TypeOK, Running
<1>2. RegisteredIsFirst /\ RetainedIsReturned
    BY DEF RegisteredIsFirst, RetainedIsReturned
<1>3. SettledIsDone /\ HeldBehindMint /\ PassthroughIsNoMint /\ AnswerIsRetained
    BY DEF SettledIsDone, HeldBehindMint, PassthroughIsNoMint, AnswerIsRetained
<1> QED
    BY <1>1, <1>2, <1>3 DEF IInv

(* The distinct markers, and what a key is.                                *)
LEMMA Markers ==
    /\ NoCall \notin Outcome /\ Rejected \notin Identity
    /\ \A c \in Calls : IsMint(c) <=> MintKey[c] \in Keys
    BY BrokerAssumption DEF Outcome, Identity, IsMint

LEMMA PassthroughKeepsIInv ==
    ASSUME IInv, NEW c \in Calls, Passthrough(c)
    PROVE  IInv'
<1> USE BrokerAssumption, Markers DEF IInv, TypeOK, Passthrough, Outcome, Identity
<1>1. TypeOK'
    BY DEF Running, RegisteredIsFirst, RetainedIsReturned, SettledIsDone, HeldBehindMint
<1>2. RegisteredIsFirst'
    BY DEF RegisteredIsFirst, RetainedIsReturned, SettledIsDone
<1>3. RetainedIsReturned'
    BY DEF RegisteredIsFirst, RetainedIsReturned, SettledIsDone
<1>4. SettledIsDone'
    BY DEF RegisteredIsFirst, RetainedIsReturned, SettledIsDone, HeldBehindMint, PassthroughIsNoMint
<1>5. HeldBehindMint'
    BY DEF RegisteredIsFirst, RetainedIsReturned, SettledIsDone, HeldBehindMint
<1>6. PassthroughIsNoMint'
    BY DEF PassthroughIsNoMint
<1>7. AnswerIsRetained'
    BY DEF RegisteredIsFirst, RetainedIsReturned, SettledIsDone, HeldBehindMint, PassthroughIsNoMint, AnswerIsRetained
<1> QED
    BY <1>1, <1>2, <1>3, <1>4, <1>5, <1>6, <1>7

LEMMA PassthroughSettlesKeepsIInv ==
    ASSUME IInv, NEW c \in Calls, PassthroughSettles(c)
    PROVE  IInv'
<1> USE BrokerAssumption, Markers DEF IInv, TypeOK, PassthroughSettles, Return, DispatchOutcome, Outcome, Identity
<1>1. TypeOK'
    BY DEF Running, RegisteredIsFirst, RetainedIsReturned, SettledIsDone, HeldBehindMint
<1>2. RegisteredIsFirst'
    BY DEF RegisteredIsFirst, RetainedIsReturned, SettledIsDone
<1>3. RetainedIsReturned'
    BY DEF RegisteredIsFirst, RetainedIsReturned, SettledIsDone
<1>4. SettledIsDone'
    BY DEF RegisteredIsFirst, RetainedIsReturned, SettledIsDone, HeldBehindMint, PassthroughIsNoMint
<1>5. HeldBehindMint'
    BY DEF RegisteredIsFirst, RetainedIsReturned, SettledIsDone, HeldBehindMint
<1>6. PassthroughIsNoMint'
    BY DEF PassthroughIsNoMint
<1>7. AnswerIsRetained'
    BY DEF RegisteredIsFirst, RetainedIsReturned, SettledIsDone, HeldBehindMint, PassthroughIsNoMint, AnswerIsRetained
<1> QED
    BY <1>1, <1>2, <1>3, <1>4, <1>5, <1>6, <1>7

LEMMA LateSuppressedKeepsIInv ==
    ASSUME IInv, NEW c \in Calls, LateSuppressed(c)
    PROVE  IInv'
<1> USE BrokerAssumption, Markers DEF IInv, TypeOK, LateSuppressed, Return, Outcome, Identity
<1>1. TypeOK'
    BY DEF Running, RegisteredIsFirst, RetainedIsReturned, SettledIsDone, HeldBehindMint
<1>2. RegisteredIsFirst'
    BY DEF RegisteredIsFirst, RetainedIsReturned, SettledIsDone
<1>3. RetainedIsReturned'
    BY DEF RegisteredIsFirst, RetainedIsReturned, SettledIsDone
<1>4. SettledIsDone'
    BY DEF RegisteredIsFirst, RetainedIsReturned, SettledIsDone, HeldBehindMint, PassthroughIsNoMint
<1>5. HeldBehindMint'
    BY DEF RegisteredIsFirst, RetainedIsReturned, SettledIsDone, HeldBehindMint
<1>6. PassthroughIsNoMint'
    BY DEF PassthroughIsNoMint
<1>7. AnswerIsRetained'
    BY DEF RegisteredIsFirst, RetainedIsReturned, SettledIsDone, HeldBehindMint, PassthroughIsNoMint, AnswerIsRetained
<1> QED
    BY <1>1, <1>2, <1>3, <1>4, <1>5, <1>6, <1>7

LEMMA HoldInFlightKeepsIInv ==
    ASSUME IInv, NEW c \in Calls, HoldInFlight(c)
    PROVE  IInv'
<1> USE BrokerAssumption, Markers DEF IInv, TypeOK, HoldInFlight, Outcome, Identity
<1>1. TypeOK'
    BY DEF Running, RegisteredIsFirst, RetainedIsReturned, SettledIsDone, HeldBehindMint
<1>2. RegisteredIsFirst'
    BY DEF RegisteredIsFirst, RetainedIsReturned, SettledIsDone
<1>3. RetainedIsReturned'
    BY DEF RegisteredIsFirst, RetainedIsReturned, SettledIsDone
<1>4. SettledIsDone'
    BY DEF RegisteredIsFirst, RetainedIsReturned, SettledIsDone, HeldBehindMint, PassthroughIsNoMint
<1>5. HeldBehindMint'
    BY DEF RegisteredIsFirst, RetainedIsReturned, SettledIsDone, HeldBehindMint
<1>6. PassthroughIsNoMint'
    BY DEF PassthroughIsNoMint
<1>7. AnswerIsRetained'
    BY DEF RegisteredIsFirst, RetainedIsReturned, SettledIsDone, HeldBehindMint, PassthroughIsNoMint, AnswerIsRetained
<1> QED
    BY <1>1, <1>2, <1>3, <1>4, <1>5, <1>6, <1>7

LEMMA FirstMintKeepsIInv ==
    ASSUME IInv, NEW c \in Calls, FirstMint(c)
    PROVE  IInv'
<1> USE BrokerAssumption, Markers DEF IInv, TypeOK, FirstMint, Register, Outcome, Identity
<1>1. TypeOK'
    BY DEF Running, RegisteredIsFirst, RetainedIsReturned, SettledIsDone, HeldBehindMint
<1>2. RegisteredIsFirst'
    BY DEF RegisteredIsFirst, RetainedIsReturned, SettledIsDone
<1>3. RetainedIsReturned'
    BY DEF RegisteredIsFirst, RetainedIsReturned, SettledIsDone
<1>4. SettledIsDone'
    BY DEF RegisteredIsFirst, RetainedIsReturned, SettledIsDone, HeldBehindMint, PassthroughIsNoMint
<1>5. HeldBehindMint'
    BY DEF RegisteredIsFirst, RetainedIsReturned, SettledIsDone, HeldBehindMint
<1>6. PassthroughIsNoMint'
    BY DEF PassthroughIsNoMint
<1>7. AnswerIsRetained'
    BY DEF RegisteredIsFirst, RetainedIsReturned, SettledIsDone, HeldBehindMint, PassthroughIsNoMint, AnswerIsRetained
<1> QED
    BY <1>1, <1>2, <1>3, <1>4, <1>5, <1>6, <1>7

LEMMA MintResolvesKeepsIInv ==
    ASSUME IInv, NEW c \in Calls, MintResolves(c)
    PROVE  IInv'
<1> USE BrokerAssumption, Markers DEF IInv, TypeOK, MintResolves, Return, DispatchOutcome, Retain, Outcome, Identity
<1>1. TypeOK'
    BY DEF Running, RegisteredIsFirst, RetainedIsReturned, SettledIsDone, HeldBehindMint
<1>2. RegisteredIsFirst'
    BY DEF RegisteredIsFirst, RetainedIsReturned, SettledIsDone
<1>3. RetainedIsReturned'
    BY DEF RegisteredIsFirst, RetainedIsReturned, SettledIsDone
<1>4. SettledIsDone'
    BY DEF RegisteredIsFirst, RetainedIsReturned, SettledIsDone, HeldBehindMint, PassthroughIsNoMint
<1>5. HeldBehindMint'
    BY DEF RegisteredIsFirst, RetainedIsReturned, SettledIsDone, HeldBehindMint
<1>6. PassthroughIsNoMint'
    BY DEF PassthroughIsNoMint
<1>7. AnswerIsRetained'
    BY DEF RegisteredIsFirst, RetainedIsReturned, SettledIsDone, HeldBehindMint, PassthroughIsNoMint, AnswerIsRetained
<1> QED
    BY <1>1, <1>2, <1>3, <1>4, <1>5, <1>6, <1>7

LEMMA MintRejectsKeepsIInv ==
    ASSUME IInv, NEW c \in Calls, MintRejects(c)
    PROVE  IInv'
<1> USE BrokerAssumption, Markers DEF IInv, TypeOK, MintRejects, Return, RejectInFlight, Unpopulated, Outcome, Identity
<1>1. TypeOK'
    BY DEF Running, RegisteredIsFirst, RetainedIsReturned, SettledIsDone, HeldBehindMint
<1>2. RegisteredIsFirst'
    BY DEF RegisteredIsFirst, RetainedIsReturned, SettledIsDone
<1>3. RetainedIsReturned'
    BY DEF RegisteredIsFirst, RetainedIsReturned, SettledIsDone
<1>4. SettledIsDone'
    BY DEF RegisteredIsFirst, RetainedIsReturned, SettledIsDone, HeldBehindMint, PassthroughIsNoMint
<1>5. HeldBehindMint'
    BY DEF RegisteredIsFirst, RetainedIsReturned, SettledIsDone, HeldBehindMint
<1>6. PassthroughIsNoMint'
    BY DEF PassthroughIsNoMint
<1>7. AnswerIsRetained'
    BY DEF RegisteredIsFirst, RetainedIsReturned, SettledIsDone, HeldBehindMint, PassthroughIsNoMint, AnswerIsRetained
<1> QED
    BY <1>1, <1>2, <1>3, <1>4, <1>5, <1>6, <1>7

LEMMA HeldResumesKeepsIInv ==
    ASSUME IInv, NEW c \in Calls, HeldResumes(c)
    PROVE  IInv'
<1> USE BrokerAssumption, Markers DEF IInv, TypeOK, HeldResumes, Return, HeldAnswer, Outcome, Identity
<1>1. TypeOK'
    BY DEF Running, RegisteredIsFirst, RetainedIsReturned, SettledIsDone, HeldBehindMint
<1>2. RegisteredIsFirst'
    BY DEF RegisteredIsFirst, RetainedIsReturned, SettledIsDone
<1>3. RetainedIsReturned'
    BY DEF RegisteredIsFirst, RetainedIsReturned, SettledIsDone
<1>4. SettledIsDone'
    BY DEF RegisteredIsFirst, RetainedIsReturned, SettledIsDone, HeldBehindMint, PassthroughIsNoMint
<1>5. HeldBehindMint'
    BY DEF RegisteredIsFirst, RetainedIsReturned, SettledIsDone, HeldBehindMint
<1>6. PassthroughIsNoMint'
    BY DEF PassthroughIsNoMint
<1>7. AnswerIsRetained'
    BY DEF RegisteredIsFirst, RetainedIsReturned, SettledIsDone, HeldBehindMint, PassthroughIsNoMint, AnswerIsRetained
<1> QED
    BY <1>1, <1>2, <1>3, <1>4, <1>5, <1>6, <1>7

LEMMA NextKeepsIInv == IInv /\ [Next]_vars => IInv'
<1> SUFFICES ASSUME IInv, [Next]_vars PROVE IInv'
    OBVIOUS
<1>1. CASE UNCHANGED vars
    BY <1>1 DEF vars, IInv, TypeOK, RegisteredIsFirst, RetainedIsReturned,
                SettledIsDone, HeldBehindMint, PassthroughIsNoMint,
                AnswerIsRetained
<1>2. ASSUME NEW c \in Calls,
             \/ Passthrough(c) \/ PassthroughSettles(c) \/ LateSuppressed(c)
             \/ HoldInFlight(c) \/ FirstMint(c) \/ MintResolves(c)
             \/ MintRejects(c) \/ HeldResumes(c)
      PROVE  IInv'
    BY <1>2, PassthroughKeepsIInv, PassthroughSettlesKeepsIInv,
       LateSuppressedKeepsIInv, HoldInFlightKeepsIInv, FirstMintKeepsIInv,
       MintResolvesKeepsIInv, MintRejectsKeepsIInv, HeldResumesKeepsIInv
<1> QED
    BY <1>1, <1>2 DEF Next, Finished

LEMMA IInvHolds == Spec => []IInv
    BY InitIInv, NextKeepsIInv, PTL DEF Spec

(* The types of the broker's state, and that what it retains is a response *)
(* and never a failure.                                                    *)
THEOREM BrokerTypeCorrect == Spec => []TypeOK
<1>1. IInv => TypeOK
    BY DEF IInv
<1> QED
    BY <1>1, IInvHolds, PTL

(* Chambers that mint for one key are given one identity.                  *)
THEOREM NoSplitIdentity == Spec => []OneIdentity
<1>1. IInv => OneIdentity
  <2> SUFFICES ASSUME IInv, NEW k \in Keys, NEW c \in Mints(k), NEW d \in Mints(k),
                      {answer[c], answer[d]} \cap {NoCall, Rejected} = {}
               PROVE  answer[c] = answer[d]
      BY DEF OneIdentity
  <2>1. c \in Calls /\ d \in Calls /\ Coalescing /\ MintKey[c] = k /\ MintKey[d] = k
      BY DEF Mints
  <2>2. answer[c] \in Identity /\ answer[d] \in Identity
      BY <2>1 DEF IInv, TypeOK, Outcome
  <2> QED
      BY <2>1, <2>2 DEF IInv, AnswerIsRetained
<1> QED
    BY <1>1, IInvHolds, PTL

(* One mint a key on the network, none after one was answered.             *)
THEOREM SecondMintNeverLeaves == Spec => []OneMintPerKey
<1>1. IInv => OneMintPerKey
    BY BrokerAssumption
       DEF IInv, TypeOK, RegisteredIsFirst, RetainedIsReturned, SettledIsDone,
           OneMintPerKey, Mints
<1> QED
    BY <1>1, IInvHolds, PTL

(* A held call ends as the mint it was held behind.                        *)
THEOREM HeldEndsAsItsMint == Spec => []HeldSharesFate
<1>1. IInv => HeldSharesFate
  <2> SUFFICES ASSUME IInv, NEW c \in Calls, pending[c] # NoCall, pc[c] = "done"
               PROVE  /\ MintKey[pending[c]] = MintKey[c]
                      /\ answer[c] = answer[pending[c]]
      BY DEF HeldSharesFate
  <2>1. /\ pending[c] \in Calls /\ MintKey[pending[c]] = MintKey[c]
        /\ answer[c] = settled[pending[c]]
      BY DEF IInv, HeldBehindMint
  <2>2. settled[pending[c]] # NoCall
      BY <2>1 DEF IInv, SettledIsDone
  <2> QED
      BY <2>1, <2>2 DEF IInv, SettledIsDone
<1> QED
    BY <1>1, IInvHolds, PTL
-----------------------------------------------------------------------------
(* Refinement: the broker implements the one-time register.                *)

(* A step that leaves `completed` alone and settles only calls no          *)
(* association points to leaves the associations alone.                    *)
LEMMA AssociationStays ==
    ASSUME IInv, NEW c \in Calls, settled[c] = NoCall,
           UNCHANGED completed,
           \A d \in Calls : d # c => settled'[d] = settled[d]
    PROVE  Association' = Association
<1>1. \A k \in Keys : completed[k] # NoCall => completed[k] \in Calls /\ completed[k] # c
    BY Markers DEF IInv, RetainedIsReturned, Outcome
<1> QED
    BY <1>1 DEF Association

LEMMA CoalescedMints ==
    \A c \in Calls : c \in Coalesced <=> Coalescing /\ MintKey[c] \in Keys
    BY Markers DEF Coalesced

(* A running call has not settled and has no answer.                       *)
LEMMA RunningIsOpen ==
    ASSUME IInv, NEW c \in Calls, pc[c] # "done"
    PROVE  settled[c] = NoCall /\ answer[c] = NoCall
    BY DEF IInv, SettledIsDone

LEMMA InitMaps == Init => OneTime!Init
<1> SUFFICES ASSUME Init PROVE OneTime!Init
    OBVIOUS
<1>1. Association = [k \in Keys |-> NoCall]
    BY DEF Init, Association
<1>2. Answered = [c \in Coalesced |-> NoCall]
    BY DEF Init, Answered, Coalesced
<1> QED
    BY <1>1, <1>2 DEF OneTime!Init

(* Steps of a call that give no coalesced mint an answer are stutters.     *)
LEMMA QuietStep ==
    ASSUME IInv, NEW c \in Calls,
           Passthrough(c) \/ PassthroughSettles(c) \/ HoldInFlight(c) \/ FirstMint(c)
    PROVE  UNCHANGED OneTime!vars
<1>1. settled[c] = NoCall /\ answer[c] = NoCall
    BY RunningIsOpen
       DEF Passthrough, PassthroughSettles, HoldInFlight, FirstMint
<1>2. UNCHANGED completed /\ \A d \in Calls : d # c => settled'[d] = settled[d]
    BY DEF IInv, TypeOK, Passthrough, PassthroughSettles, HoldInFlight, FirstMint
<1>3. Association' = Association
    BY <1>1, <1>2, AssociationStays
<1>4. Answered' = Answered
  <2>1. CASE PassthroughSettles(c)
    <3>1. c \notin Coalesced
        BY <2>1, CoalescedMints DEF IInv, PassthroughIsNoMint, PassthroughSettles
    <3>2. \A d \in Coalesced : answer'[d] = answer[d]
        BY <2>1, <3>1 DEF PassthroughSettles, Return, Coalesced, IInv, TypeOK
    <3> QED
        BY <3>2 DEF Answered
  <2>2. CASE Passthrough(c) \/ HoldInFlight(c) \/ FirstMint(c)
      BY <2>2 DEF Passthrough, HoldInFlight, FirstMint, Answered
  <2> QED
      BY <2>1, <2>2
<1> QED
    BY <1>3, <1>4 DEF OneTime!vars

(* A coalesced call that returns changes its own answer and no other.      *)
LEMMA ReturnMaps ==
    ASSUME IInv, NEW c \in Coalesced, NEW r, Return(c, r)
    PROVE  Answered' = [Answered EXCEPT ![c] = r]
    BY DEF Return, Answered, IInv, TypeOK, Coalesced

LEMMA MintResolvesMaps ==
    ASSUME IInv, NEW c \in Calls, MintResolves(c)
    PROVE  OneTime!Write(c)
<1>1. c \in Coalesced /\ MintKey[c] \in Keys /\ CoalescedKey[c] = MintKey[c]
    BY CoalescedMints DEF MintResolves, IInv, RegisteredIsFirst, CoalescedKey
<1>2. PICK r \in DispatchOutcome(c) \ {Rejected} :
          settled' = [settled EXCEPT ![c] = r] /\ Return(c, r)
    BY DEF MintResolves
<1>3. r \in Identity
    BY <1>2 DEF DispatchOutcome, Identity
<1>4. settled[c] = NoCall /\ answer[c] = NoCall /\ completed[MintKey[c]] = NoCall
    BY <1>1, RunningIsOpen, BrokerAssumption
       DEF MintResolves, IInv, RegisteredIsFirst
<1>5. Association' = [Association EXCEPT ![MintKey[c]] = r]
  <2>1. \A k \in Keys : completed[k] # NoCall => completed[k] \in Calls /\ completed[k] # c
      BY <1>4, Markers DEF IInv, RetainedIsReturned, Outcome
  <2>2. completed' = [completed EXCEPT ![MintKey[c]] = c]
      BY DEF MintResolves, Retain
  <2>3. settled'[c] = r /\ \A d \in Calls : d # c => settled'[d] = settled[d]
      BY <1>2 DEF IInv, TypeOK
  <2>4. \A k \in Keys : k # MintKey[c] => Association'[k] = Association[k]
      BY <2>1, <2>2, <2>3 DEF IInv, TypeOK, Association
  <2>5. c # NoCall
      BY BrokerAssumption
  <2>6. Association'[MintKey[c]] = r
      BY <1>1, <2>2, <2>3, <2>5 DEF IInv, TypeOK, Association
  <2> QED
      BY <1>1, <2>4, <2>6 DEF Association
<1>6. Answered' = [Answered EXCEPT ![c] = r]
    BY <1>1, <1>2, ReturnMaps
<1>7. Answered[c] = NoCall /\ Association[CoalescedKey[c]] = NoCall
    BY <1>1, <1>4 DEF Answered, Association
<1> QED
    BY <1>1, <1>3, <1>5, <1>6, <1>7 DEF OneTime!Write

LEMMA MintRejectsMaps ==
    ASSUME IInv, NEW c \in Calls, MintRejects(c)
    PROVE  c \in Coalesced /\ OneTime!Fail(c)
<1>1. c \in Coalesced
    BY CoalescedMints DEF MintRejects, IInv, RegisteredIsFirst
<1>2. settled[c] = NoCall /\ answer[c] = NoCall
    BY RunningIsOpen DEF MintRejects
<1>3. UNCHANGED completed /\ \A d \in Calls : d # c => settled'[d] = settled[d]
    BY DEF MintRejects, Unpopulated, RejectInFlight, IInv, TypeOK
<1>4. Association' = Association
    BY <1>2, <1>3, AssociationStays
<1>5. Answered' = [Answered EXCEPT ![c] = Rejected]
    BY <1>1, ReturnMaps DEF MintRejects
<1> QED
    BY <1>1, <1>2, <1>4, <1>5 DEF OneTime!Fail, Answered

LEMMA LateSuppressedMaps ==
    ASSUME IInv, NEW c \in Calls, LateSuppressed(c)
    PROVE  c \in Coalesced /\ OneTime!Read(c)
<1>1. c \in Coalesced /\ MintKey[c] \in Keys /\ CoalescedKey[c] = MintKey[c]
    BY Markers, CoalescedMints DEF LateSuppressed, CoalescedKey
<1>2. answer[c] = NoCall
    BY RunningIsOpen DEF LateSuppressed
<1>3. /\ Association[MintKey[c]] = settled[completed[MintKey[c]]]
      /\ Association[MintKey[c]] # NoCall
    BY <1>1, Markers
       DEF LateSuppressed, Association, IInv, RetainedIsReturned, Outcome
<1>4. UNCHANGED Association
    BY DEF LateSuppressed, Association
<1>5. Answered' = [Answered EXCEPT ![c] = Association[MintKey[c]]]
    BY <1>1, <1>3, ReturnMaps DEF LateSuppressed
<1> QED
    BY <1>1, <1>2, <1>3, <1>4, <1>5 DEF OneTime!Read, Answered

LEMMA HeldResumesMaps ==
    ASSUME IInv, NEW c \in Calls, HeldResumes(c)
    PROVE  c \in Coalesced /\ (OneTime!Read(c) \/ OneTime!Fail(c))
<1>1. /\ c \in Coalesced /\ MintKey[c] \in Keys /\ CoalescedKey[c] = MintKey[c]
      /\ pending[c] \in Calls /\ MintKey[pending[c]] = MintKey[c] /\ Coalescing
    BY CoalescedMints DEF HeldResumes, IInv, HeldBehindMint, CoalescedKey
<1>2. answer[c] = NoCall
    BY RunningIsOpen DEF HeldResumes
<1>3. UNCHANGED Association
    BY DEF HeldResumes, Association
<1>4. Answered' = [Answered EXCEPT ![c] = settled[pending[c]]]
    BY <1>1, ReturnMaps DEF HeldResumes, HeldAnswer
<1>5. CASE settled[pending[c]] = Rejected
    BY <1>1, <1>2, <1>3, <1>4, <1>5 DEF OneTime!Fail, Answered
<1>6. CASE settled[pending[c]] # Rejected
  <2>1. settled[pending[c]] \in Identity
      BY <1>1, <1>6 DEF HeldResumes, IInv, TypeOK, Outcome
  <2>2. completed[MintKey[c]] = pending[c]
      BY <1>1, <2>1 DEF IInv, SettledIsDone
  <2>3. pending[c] # NoCall /\ settled[pending[c]] # NoCall
      BY <1>1, <2>1, BrokerAssumption, Markers DEF Outcome
  <2>4. Association[MintKey[c]] = settled[pending[c]]
      BY <1>1, <2>2, <2>3 DEF Association
  <2> QED
      BY <1>1, <1>2, <1>3, <1>4, <2>3, <2>4 DEF OneTime!Read, Answered
<1> QED
    BY <1>1, <1>5, <1>6

LEMMA StepMaps == IInv /\ [Next]_vars => [OneTime!Next]_OneTime!vars
<1> SUFFICES ASSUME IInv, [Next]_vars PROVE OneTime!Next \/ UNCHANGED OneTime!vars
    OBVIOUS
<1>1. CASE UNCHANGED vars
    BY <1>1 DEF vars, OneTime!vars, Association, Answered
<1>2. ASSUME NEW c \in Calls,
             Passthrough(c) \/ PassthroughSettles(c) \/ HoldInFlight(c) \/ FirstMint(c)
      PROVE  UNCHANGED OneTime!vars
    BY <1>2, QuietStep
<1>3. ASSUME NEW c \in Calls, MintResolves(c)
      PROVE  OneTime!Next
  <2>1. c \in Coalesced
      BY <1>3, CoalescedMints DEF MintResolves, IInv, RegisteredIsFirst
  <2> QED
      BY <1>3, <2>1, MintResolvesMaps DEF OneTime!Next
<1>4. ASSUME NEW c \in Calls,
             MintRejects(c) \/ LateSuppressed(c) \/ HeldResumes(c)
      PROVE  OneTime!Next
    BY <1>4, MintRejectsMaps, LateSuppressedMaps, HeldResumesMaps DEF OneTime!Next
<1> QED
    BY <1>1, <1>2, <1>3, <1>4 DEF Next, Finished

(* The broker implements the register that is written once.                *)
THEOREM BrokerIsRegister == Spec => ImplementsRegister
    BY InitMaps, StepMaps, IInvHolds, PTL DEF Spec, ImplementsRegister, OneTime!Spec
=============================================================================
