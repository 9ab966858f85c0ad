------------------------ MODULE WrappedSdkHostProofs ------------------------
(***************************************************************************)
(* What TLAPS proves of a wrapped SDK, for any vectors, any number of      *)
(* events and consent updates, and a boot, a configure and a network that  *)
(* may all fail.                                                           *)
(***************************************************************************)
EXTENDS WrappedSdkHost, SequenceTheorems, TLAPS

-----------------------------------------------------------------------------
(* Sequences, element by element.                                          *)

LEMMA AppendElements ==
    ASSUME NEW S, NEW s \in Seq(S), NEW x \in S
    PROVE  /\ Append(s, x) \in Seq(S)
           /\ Len(Append(s, x)) = Len(s) + 1
           /\ DOMAIN s = 1..Len(s) /\ DOMAIN Append(s, x) = 1..(Len(s) + 1)
           /\ Len(s) \in Nat
           /\ \A i \in 1..Len(s) : Append(s, x)[i] = s[i]
           /\ Append(s, x)[Len(s) + 1] = x
    OBVIOUS

LEMMA TailElements ==
    ASSUME NEW S, NEW s \in Seq(S), s # <<>>
    PROVE  /\ Tail(s) \in Seq(S) /\ Head(s) \in S /\ Head(s) = s[1]
           /\ DOMAIN s = 1..Len(s) /\ DOMAIN Tail(s) = 1..(Len(s) - 1)
           /\ Len(s) \in Nat \ {0} /\ Len(Tail(s)) = Len(s) - 1
           /\ \A i \in 1..(Len(s) - 1) : Tail(s)[i] = s[i + 1]
    OBVIOUS
-----------------------------------------------------------------------------
(* Types.                                                                  *)

ToChamberMessage ==
    [type : {"init", "setConsent"}, consent : ConsentVector]
      \cup [type : {"event"}, event : Events]
      \cup [type : {"response"}, id : FetchIds, ok : BOOLEAN]

ToMainMessage ==
    [type : {"configured"}]
      \cup [type : {"result", "fatal"}, event : Events \cup {None}]
      \cup [type : {"intercepted-fetch"}, id : FetchIds, url : Urls,
            personalization : BOOLEAN]

Channels == toChamber \in Seq(ToChamberMessage) /\ toMain \in Seq(ToMainMessage)

(* A command on its way is the first of alloy's queue, and alloy only sends*)
(* once configured.                                                        *)
CommandInStep ==
    /\ commandOut # None => commands # <<>> /\ boot \in {"consenting", "ready"}
    /\ \A i \in DOMAIN toMain : toMain[i].type = "result" => toMain[i].event # None

(* The init message is the first the chamber gets.                         *)
InitFirst == \A i \in DOMAIN toChamber : toChamber[i].type = "init" => i = 1 /\ boot = "new"

TInv == TypeOK /\ Channels /\ CommandInStep /\ InitFirst

LEMMA MergeType ==
    ASSUME NEW v \in ConsentVector, NEW u \in ConsentVector
    PROVE  MergeConsent(v, u) \in ConsentVector
<1>1. PICK D \in SUBSET CONSENT_PURPOSES : v \in [D -> RawSignal]
    BY DEF ConsentVector, VectorsOver
<1>2. PICK E \in SUBSET CONSENT_PURPOSES : u \in [E -> RawSignal]
    BY DEF ConsentVector, VectorsOver
<1>3. MergeConsent(v, u) \in [D \cup E -> RawSignal]
    BY <1>1, <1>2 DEF MergeConsent
<1> QED
    BY <1>3 DEF ConsentVector, VectorsOver

LEMMA ToChamberType ==
    ASSUME Channels, NEW m \in ToChamberMessage, ToChamber(m)
    PROVE  /\ toChamber' \in Seq(ToChamberMessage)
           /\ toChamber' = toChamber \/ toChamber' = Append(toChamber, m)
           /\ m.type # "init" /\ InitFirst /\ boot' = boot => InitFirst'
<1>1. CASE disposed
    BY <1>1 DEF Channels, ToChamber, InitFirst
<1>2. CASE ~disposed
  <2>1. toChamber' = Append(toChamber, m) /\ toChamber \in Seq(ToChamberMessage)
      BY <1>2 DEF ToChamber, Channels
  <2>2. /\ toChamber' \in Seq(ToChamberMessage) /\ DOMAIN toChamber = 1..Len(toChamber)
        /\ DOMAIN toChamber' = 1..(Len(toChamber) + 1) /\ Len(toChamber) \in Nat
        /\ \A i \in 1..Len(toChamber) : toChamber'[i] = toChamber[i]
        /\ toChamber'[Len(toChamber) + 1] = m
      BY <2>1, AppendElements
  <2>3. ASSUME m.type # "init", InitFirst, boot' = boot, NEW i \in DOMAIN toChamber',
               toChamber'[i].type = "init"
        PROVE  i = 1 /\ boot' = "new"
    <3>1. i \in 1..Len(toChamber)
        BY <2>2, <2>3
    <3> QED
        BY <2>2, <2>3, <3>1 DEF InitFirst
  <2> QED
      BY <2>1, <2>2, <2>3 DEF InitFirst
<1> QED
    BY <1>1, <1>2

LEMMA PostType ==
    ASSUME Channels, NEW m \in ToMainMessage, Post(m)
    PROVE  toMain' \in Seq(ToMainMessage) /\ toMain' = Append(toMain, m)
    BY AppendElements DEF Channels, Post

LEMMA MainReceivesType ==
    ASSUME Channels, NEW type, MainReceives(type)
    PROVE  /\ toMain' \in Seq(ToMainMessage) /\ toMain' = Tail(toMain) /\ toMain # <<>>
           /\ Head(toMain) \in ToMainMessage /\ Head(toMain).type = type
           /\ Head(toMain) = toMain[1] /\ 1 \in DOMAIN toMain
    BY TailElements DEF Channels, MainReceives

LEMMA ChamberReceivesType ==
    ASSUME Channels, NEW type, ChamberReceives(type)
    PROVE  /\ toChamber' \in Seq(ToChamberMessage) /\ toChamber' = Tail(toChamber)
           /\ toChamber # <<>> /\ ~disposed
           /\ Head(toChamber) \in ToChamberMessage /\ Head(toChamber).type = type
           /\ Head(toChamber) = toChamber[1] /\ 1 \in DOMAIN toChamber
           /\ InitFirst => InitFirst'
<1>1. /\ toChamber' = Tail(toChamber) /\ toChamber \in Seq(ToChamberMessage)
      /\ toChamber # <<>> /\ ~disposed /\ Head(toChamber).type = type
    BY DEF Channels, ChamberReceives
<1>2. /\ Tail(toChamber) \in Seq(ToChamberMessage) /\ Head(toChamber) \in ToChamberMessage
      /\ Head(toChamber) = toChamber[1] /\ DOMAIN toChamber = 1..Len(toChamber)
      /\ DOMAIN Tail(toChamber) = 1..(Len(toChamber) - 1) /\ Len(toChamber) \in Nat \ {0}
      /\ \A i \in 1..(Len(toChamber) - 1) : Tail(toChamber)[i] = toChamber[i + 1]
    BY <1>1, TailElements
<1>3. ASSUME InitFirst, NEW i \in DOMAIN toChamber', toChamber'[i].type = "init"
      PROVE  FALSE
  <2>1. i \in 1..(Len(toChamber) - 1) /\ i + 1 \in DOMAIN toChamber /\ i + 1 # 1
      BY <1>1, <1>2, <1>3
  <2> QED
      BY <1>1, <1>2, <1>3, <2>1 DEF InitFirst
<1> QED
    BY <1>1, <1>2, <1>3 DEF InitFirst

(* What a message of each type carries. *)
LEMMA Carries ==
    /\ \A m \in ToChamberMessage :
         /\ m.type \in {"init", "setConsent"} => m.consent \in ConsentVector
         /\ m.type = "event" => m.event \in Events
         /\ m.type = "response" => m.id \in FetchIds /\ m.ok \in BOOLEAN
    /\ \A m \in ToMainMessage :
         /\ m.type \in {"result", "fatal"} => m.event \in Events \cup {None}
         /\ m.type = "intercepted-fetch" =>
              m.id \in FetchIds /\ m.url \in Urls /\ m.personalization \in BOOLEAN
    BY DEF ToChamberMessage, ToMainMessage

LEMMA InitTInv == Init => TInv
<1> SUFFICES ASSUME Init PROVE TInv
    OBVIOUS
<1> USE HostAssumption DEF Init
<1>a. bootConsent \in ConsentVector
    OBVIOUS
<1>b. DOMAIN answers = {}
    OBVIOUS
<1>c. outcome \in [Events -> Outcome] /\ settledBy \in [Events -> Events \cup {None}]
    BY DEF Outcome
<1>d. /\ tail \in Seq(Events) /\ commands \in Seq([value : {"y", "n"}, fromBoot : BOOLEAN])
      /\ dispatched \in Seq([id : FetchIds, url : {"edge"}, personalization : BOOLEAN])
    OBVIOUS
<1>e. pushed \in 0..MaxEvents /\ updates \in 0..MaxUpdates
    OBVIOUS
<1>f. DOMAIN answers \subseteq FetchIds /\ \A id \in DOMAIN answers : answers[id] \in Nat
    BY <1>b
<1>1. TypeOK
    BY <1>a, <1>c, <1>d, <1>e, <1>f DEF TypeOK
<1>2. [type |-> "init", consent |-> bootConsent] \in ToChamberMessage
    BY DEF ToChamberMessage
<1>3. Channels
    BY <1>2 DEF Channels
<1>4. CommandInStep /\ InitFirst
    BY DEF CommandInStep, InitFirst
<1> QED
    BY <1>1, <1>3, <1>4 DEF TInv

(* Actions of the page.                                                    *)
LEMMA PageKeepsTInv ==
    ASSUME TInv, push \/ driveEvent \/ setConsent \/ dispose
    PROVE  TInv'
<1> USE HostAssumption DEF TInv
<1>1. CASE push
  <2>1. pushed + 1 \in Events /\ Append(tail, pushed + 1) \in Seq(Events)
      BY <1>1, AppendElements DEF push, TypeOK, Events
  <2> QED
      BY <1>1, <2>1 DEF push, TypeOK, Channels, CommandInStep, InitFirst, consent, seal, chamber, alloy
<1>2. CASE driveEvent
  <2>1. Head(tail) \in Events /\ Tail(tail) \in Seq(Events)
      BY <1>2, TailElements DEF driveEvent, TypeOK
  <2>2. [type |-> "event", event |-> Head(tail)] \in ToChamberMessage
      BY <2>1 DEF ToChamberMessage
  <2>3. toChamber' \in Seq(ToChamberMessage) /\ InitFirst'
      BY <1>2, <2>2, ToChamberType DEF driveEvent, Channels, InitFirst, chamber
  <2> QED
      BY <1>2, <2>1, <2>3 DEF driveEvent, TypeOK, Channels, CommandInStep, Outcome, consent, seal,
           chamber, alloy
<1>3. CASE setConsent
  <2>1. PICK v \in ConsentUpdates :
           /\ consentRef' = MergeConsent(consentRef, v)
           /\ ToChamber([type |-> "setConsent", consent |-> MergeConsent(consentRef, v)])
      BY <1>3 DEF setConsent
  <2>2. MergeConsent(consentRef, v) \in ConsentVector
      BY MergeType DEF TypeOK
  <2>3. [type |-> "setConsent", consent |-> MergeConsent(consentRef, v)] \in ToChamberMessage
      BY <2>2 DEF ToChamberMessage
  <2>4. toChamber' \in Seq(ToChamberMessage) /\ InitFirst'
      BY <1>3, <2>1, <2>3, ToChamberType DEF setConsent, chamber
  <2> QED
      BY <1>3, <2>1, <2>2, <2>4 DEF setConsent, TypeOK, Channels, CommandInStep, driver, seal, chamber, alloy
<1>4. CASE dispose
    BY <1>4 DEF dispose, TypeOK, Channels, CommandInStep, InitFirst, driver, consent, seal, chamber, alloy
<1> QED
    BY <1>1, <1>2, <1>3, <1>4

(* The host's handlers.                                                    *)
LEMMA TailKeepsResults ==
    ASSUME Channels, CommandInStep, NEW type, MainReceives(type), commandOut' = commandOut,
           commands' = commands, boot' = boot
    PROVE  CommandInStep'
<1>1. toMain' = Tail(toMain) /\ toMain \in Seq(ToMainMessage) /\ toMain # <<>>
    BY MainReceivesType DEF Channels
<1>2. \A i \in DOMAIN toMain' : i + 1 \in DOMAIN toMain /\ toMain'[i] = toMain[i + 1]
    BY <1>1, TailElements
<1> QED
    BY <1>2 DEF CommandInStep

LEMMA HandlersKeepTInv ==
    ASSUME TInv, handleConfigured \/ handleResult \/ handleFatal
    PROVE  TInv'
<1> USE HostAssumption DEF TInv
<1>1. CASE handleConfigured
  <2>1. MainReceives("configured") /\ toMain' \in Seq(ToMainMessage)
      BY <1>1, MainReceivesType DEF handleConfigured
  <2>2. toChamber' \in Seq(ToChamberMessage) /\ InitFirst'
    <3>1. CASE queuedEvent # None
      <4>1. [type |-> "event", event |-> queuedEvent] \in ToChamberMessage
          BY <3>1 DEF ToChamberMessage, TypeOK
      <4> QED
          BY <1>1, <3>1, <4>1, ToChamberType DEF handleConfigured, chamber
    <3> QED
        BY <1>1, <3>1 DEF handleConfigured, Channels, InitFirst, chamber
  <2>3. CommandInStep'
      BY <1>1, <2>1, TailKeepsResults DEF handleConfigured, chamber, alloy
  <2> QED
      BY <1>1, <2>1, <2>2, <2>3 DEF handleConfigured, TypeOK, Channels, consent, seal, chamber, alloy
<1>2. ASSUME NEW type \in {"result", "fatal"}, NEW as \in Outcome, handleReport(type, as)
      PROVE  TInv'
  <2>1. MainReceives(type) /\ toMain' \in Seq(ToMainMessage)
      BY <1>2, MainReceivesType DEF handleReport
  <2>2. Head(toMain).event \in Events \cup {None}
      BY <2>1, MainReceivesType, Carries
  <2>3. CommandInStep'
      BY <1>2, <2>1, TailKeepsResults DEF handleReport, chamber, alloy
  <2> QED
      BY <1>2, <2>1, <2>2, <2>3 DEF handleReport, TypeOK, Channels, InitFirst, consent, seal, chamber, alloy
<1> QED
    BY <1>1, <1>2 DEF handleResult, handleFatal, Outcome

(* The seal and the network.                                               *)
LEMMA RespondType ==
    ASSUME TInv, NEW id \in FetchIds, NEW ok \in BOOLEAN, PostResponse(id, ok)
    PROVE  /\ toChamber' \in Seq(ToChamberMessage)
           /\ boot' = boot => InitFirst'
           /\ DOMAIN answers' = DOMAIN answers \cup {id}
           /\ DOMAIN answers' \subseteq FetchIds
           /\ \A i \in DOMAIN answers' : answers'[i] \in Nat
           /\ \A i \in DOMAIN answers : i # id => answers'[i] = answers[i]
           /\ id \notin DOMAIN answers => answers'[id] = 1
<1>1. Response(id, ok) \in ToChamberMessage /\ Response(id, ok).type # "init"
    BY DEF Response, ToChamberMessage
<1>2. toChamber' \in Seq(ToChamberMessage) /\ (boot' = boot => InitFirst')
    BY <1>1, ToChamberType DEF PostResponse, TInv
<1>3. DOMAIN answers \subseteq FetchIds /\ \A i \in DOMAIN answers : answers[i] \in Nat
    BY DEF TInv, TypeOK
<1>4. answers' = [i \in DOMAIN answers \cup {id} |->
                      (IF i \in DOMAIN answers THEN answers[i] ELSE 0) + (IF i = id THEN 1 ELSE 0)]
    BY DEF PostResponse
<1> QED
    BY <1>2, <1>3, <1>4

LEMMA SealKeepsTInv ==
    ASSUME TInv, dispatchInterceptedFetch \/ NetworkSettles \/ timeout
    PROVE  TInv'
<1> USE HostAssumption DEF TInv
<1>1. CASE dispatchInterceptedFetch
  <2> DEFINE m == Head(toMain)
  <2>1. MainReceives("intercepted-fetch") /\ toMain' \in Seq(ToMainMessage)
      BY <1>1, MainReceivesType DEF dispatchInterceptedFetch
  <2>2. m \in ToMainMessage /\ m.type = "intercepted-fetch"
      BY <2>1, MainReceivesType
  <2>3. m.id \in FetchIds /\ m.url \in Urls /\ m.personalization \in BOOLEAN
      BY <2>2, Carries
  <2>4. CommandInStep'
      BY <1>1, <2>1, TailKeepsResults DEF dispatchInterceptedFetch, chamber, alloy
  <2>5. CASE SealHolds(m) /\ PostResponse(m.id, FALSE)
             /\ UNCHANGED <<unanswered, onNetwork, dispatched>>
      BY <1>1, <2>1, <2>3, <2>4, <2>5, RespondType
         DEF dispatchInterceptedFetch, TypeOK, Channels, InitFirst, driver, consent, chamber, alloy
  <2>6. CASE /\ ~SealHolds(m)
             /\ dispatched' = Append(dispatched, SealedRequest(m))
             /\ unanswered' = unanswered \cup {m.id}
             /\ onNetwork' = onNetwork \cup {m.id}
             /\ UNCHANGED <<toChamber, answers>>
    <3>1. SealedRequest(m) \in [id : FetchIds, url : {"edge"}, personalization : BOOLEAN]
        BY <2>3, <2>6 DEF SealedRequest, SealHolds
    <3>2. dispatched' \in Seq([id : FetchIds, url : {"edge"}, personalization : BOOLEAN])
        BY <2>6, <3>1, AppendElements DEF TypeOK
    <3> QED
        BY <1>1, <2>1, <2>3, <2>4, <2>6, <3>2
           DEF dispatchInterceptedFetch, TypeOK, Channels, InitFirst, driver, consent, chamber, alloy
  <2> QED
      BY <1>1, <2>5, <2>6 DEF dispatchInterceptedFetch
<1>2. ASSUME NEW id \in onNetwork, NEW ok \in BOOLEAN, respond(id, ok),
             onNetwork' \in {onNetwork, onNetwork \ {id}}, id \in onNetwork' => id \in unanswered,
             UNCHANGED <<driver, consent, disposed, dispatched, toMain, chamber, alloy>>
      PROVE  TInv'
  <2>1. id \in FetchIds
      BY <1>2 DEF TypeOK
  <2>2. unanswered' \subseteq onNetwork' /\ onNetwork' \subseteq FetchIds
      BY <1>2 DEF respond, TypeOK
  <2>3. CASE id \in unanswered
    <3>1. PostResponse(id, ok)
        BY <1>2, <2>3 DEF respond, RespondGuard
    <3> QED
        BY <1>2, <2>1, <2>2, <3>1, RespondType
           DEF TypeOK, Channels, CommandInStep, InitFirst, driver, consent, chamber, alloy
  <2>4. CASE id \notin unanswered
      BY <1>2, <2>2, <2>4 DEF respond, RespondGuard, TypeOK, Channels, CommandInStep, InitFirst, driver, consent,
         chamber, alloy
  <2> QED
      BY <2>3, <2>4
<1>3. CASE NetworkSettles
    BY <1>2, <1>3 DEF NetworkSettles
<1>4. CASE timeout
    BY <1>2, <1>4 DEF timeout, Armed, TypeOK
<1> QED
    BY <1>1, <1>3, <1>4

(* The chamber.                                                            *)
LEMMA CommandType ==
    ASSUME NEW v, NEW b \in BOOLEAN
    PROVE  /\ CommandFor(v) \in {"y", "n"}
           /\ Command(v, b) \in [value : {"y", "n"}, fromBoot : BOOLEAN]
    BY DEF CommandFor, Command

LEMMA CommandsType ==
    ASSUME TInv, NEW v, NEW b \in BOOLEAN, commands' = Append(commands, Command(v, b))
    PROVE  commands' \in Seq([value : {"y", "n"}, fromBoot : BOOLEAN]) /\ commands' # <<>>
<1>1. Command(v, b) \in [value : {"y", "n"}, fromBoot : BOOLEAN]
    BY CommandType
<1>2. commands \in Seq([value : {"y", "n"}, fromBoot : BOOLEAN])
    BY DEF TInv, TypeOK
<1> HIDE DEF Command
<1>3. commands' \in Seq([value : {"y", "n"}, fromBoot : BOOLEAN]) /\ Len(commands') = Len(commands) + 1
      /\ Len(commands) \in Nat
    BY <1>1, <1>2, AppendElements
<1> QED
    BY <1>3

LEMMA PostKeepsResults ==
    ASSUME Channels, CommandInStep, NEW m \in ToMainMessage, Post(m),
           m.type = "result" => m.event # None
    PROVE  /\ toMain' \in Seq(ToMainMessage)
           /\ \A i \in DOMAIN toMain' : toMain'[i].type = "result" => toMain'[i].event # None
<1>1. toMain' = Append(toMain, m) /\ toMain \in Seq(ToMainMessage)
    BY DEF Post, Channels
<1>2. /\ toMain' \in Seq(ToMainMessage) /\ DOMAIN toMain = 1..Len(toMain)
      /\ DOMAIN toMain' = 1..(Len(toMain) + 1) /\ Len(toMain) \in Nat
      /\ \A i \in 1..Len(toMain) : toMain'[i] = toMain[i]
      /\ toMain'[Len(toMain) + 1] = m
    BY <1>1, AppendElements
<1>3. ASSUME NEW i \in DOMAIN toMain', toMain'[i].type = "result"
      PROVE  toMain'[i].event # None
  <2>1. CASE i = Len(toMain) + 1
      BY <1>2, <1>3, <2>1
  <2>2. CASE i \in 1..Len(toMain)
      BY <1>2, <1>3, <2>2 DEF CommandInStep
  <2> QED
      BY <1>2, <2>1, <2>2
<1> QED
    BY <1>2, <1>3

LEMMA ChamberKeepsTInv ==
    ASSUME TInv, chamberBoot \/ configureSettles \/ applyConsent \/ drive
    PROVE  TInv'
<1> USE HostAssumption DEF TInv
<1>c. [type |-> "configured"] \in ToMainMessage
    BY DEF ToMainMessage
<1>1. CASE chamberBoot
  <2>1. toChamber' \in Seq(ToChamberMessage) /\ Head(toChamber).consent \in ConsentVector
      BY <1>1, ChamberReceivesType, Carries DEF chamberBoot
  <2>2. [type |-> "fatal", event |-> None] \in ToMainMessage
      BY DEF ToMainMessage
  <2>3. InitFirst' /\ boot = "new"
      BY <1>1, ChamberReceivesType DEF chamberBoot, InitFirst
  <2>4. CASE boot' = "configuring" /\ UNCHANGED toMain
      BY <1>1, <2>1, <2>3, <2>4 DEF chamberBoot, TypeOK, Channels, CommandInStep, driver, consent, seal
  <2>5. CASE boot' = "failed" /\ Post([type |-> "fatal", event |-> None])
      BY <1>1, <2>1, <2>2, <2>3, <2>5, PostKeepsResults
         DEF chamberBoot, TypeOK, Channels, CommandInStep, driver, consent, seal
  <2> QED
      BY <1>1, <2>4, <2>5 DEF chamberBoot
<1>2. CASE configureSettles
  <2>1. commandOut = None /\ boot = "configuring"
      BY <1>2 DEF configureSettles, CommandInStep
  <2>2. InitFirst'
      BY <1>2, <2>1 DEF configureSettles, InitFirst
  <2>3. toMain' \in Seq(ToMainMessage)
        /\ \A i \in DOMAIN toMain' : toMain'[i].type = "result" => toMain'[i].event # None
      BY <1>2, <1>c, PostKeepsResults DEF configureSettles, Configured, Channels, CommandInStep
  <2>4. boot' \in {"consenting", "ready"} /\ lastCommand' \in {"none", "y", "n"}
        /\ alloyMode' \in {"in", "pending", "out", "broken"}
      BY <1>2, CommandType DEF configureSettles, Configured, TypeOK
  <2>5. commands' \in Seq([value : {"y", "n"}, fromBoot : BOOLEAN])
    <3>1. CASE commands' = Append(commands, Command(bootConsent, TRUE))
        BY <3>1, CommandsType
    <3>2. CASE commands' = commands
        BY <3>2 DEF TypeOK
    <3>3. CASE commands' = <<>>
        BY <3>3
    <3> QED
        BY <1>2, <3>1, <3>2, <3>3 DEF configureSettles
  <2> QED
      BY <1>2, <2>1, <2>2, <2>3, <2>4, <2>5
         DEF configureSettles, TypeOK, Channels, CommandInStep, driver, consent, seal
<1>3. CASE applyConsent
  <2>1. toChamber' \in Seq(ToChamberMessage) /\ Head(toChamber).consent \in ConsentVector /\ InitFirst'
      BY <1>3, ChamberReceivesType, Carries DEF applyConsent
  <2>2. chamberVector' \in ConsentVector
      BY <1>3, <2>1, MergeType DEF applyConsent, TypeOK
  <2>3. lastCommand' \in {"none", "y", "n"}
      BY <1>3, CommandType DEF applyConsent, TypeOK
  <2>4. commands' \in Seq([value : {"y", "n"}, fromBoot : BOOLEAN]) /\ (commands # <<>> => commands' # <<>>)
    <3>1. CASE commands' = Append(commands, Command(chamberVector', FALSE))
        BY <3>1, CommandsType
    <3>2. CASE commands' = commands
        BY <3>2 DEF TypeOK
    <3> QED
        BY <1>3, <3>1, <3>2 DEF applyConsent
  <2> QED
      BY <1>3, <2>1, <2>2, <2>3, <2>4 DEF applyConsent, TypeOK, Channels, CommandInStep, driver, consent, seal
<1>4. CASE drive
  <2>1. toChamber' \in Seq(ToChamberMessage) /\ Head(toChamber).event \in Events /\ InitFirst'
      BY <1>4, ChamberReceivesType, Carries DEF drive
  <2> QED
      BY <1>4, <2>1 DEF drive, TypeOK, Channels, CommandInStep, driver, consent, seal, alloy
<1> QED
    BY <1>1, <1>2, <1>3, <1>4

(* The vendor bundle.                                                      *)
LEMMA FetchType ==
    ASSUME TInv, NEW p \in BOOLEAN, interceptedFetch(p)
    PROVE  /\ fetchSeq' = fetchSeq + 1 /\ fetchSeq' \in Nat /\ NextFetchId \in FetchIds
           /\ toMain' \in Seq(ToMainMessage)
           /\ \A i \in DOMAIN toMain' : toMain'[i].type = "result" => toMain'[i].event # None
<1>1. fetchSeq' = fetchSeq + 1 /\ fetchSeq' \in Nat /\ NextFetchId \in FetchIds
    BY DEF TInv, TypeOK, interceptedFetch, NextFetchId, FetchIds
<1>2. PICK u \in Urls : Post([type |-> "intercepted-fetch", id |-> NextFetchId, url |-> u,
                             personalization |-> p])
    BY DEF interceptedFetch
<1>3. [type |-> "intercepted-fetch", id |-> NextFetchId, url |-> u, personalization |-> p] \in ToMainMessage
    BY <1>1 DEF ToMainMessage
<1> QED
    BY <1>1, <1>2, <1>3, PostKeepsResults DEF TInv

LEMMA ReportType ==
    ASSUME TInv, NEW e \in Events, Report(e)
    PROVE  /\ toMain' \in Seq(ToMainMessage)
           /\ \A i \in DOMAIN toMain' : toMain'[i].type = "result" => toMain'[i].event # None
<1>1. PICK t \in {"result", "fatal"} : Post([type |-> t, event |-> e])
    BY DEF Report
<1>2. [type |-> t, event |-> e] \in ToMainMessage /\ e # None
    BY DEF ToMainMessage, Events, None
<1> QED
    BY <1>1, <1>2, PostKeepsResults DEF TInv

LEMMA AlloyKeepsTInv ==
    ASSUME TInv, alloySendsCommand \/ alloySendsEvent \/ alloyDeclines \/ commandAnswered \/ eventAnswered
    PROVE  TInv'
<1> USE HostAssumption DEF TInv
<1>1. CASE alloySendsCommand
    BY <1>1, FetchType DEF alloySendsCommand, TypeOK, Channels, CommandInStep, InitFirst, driver, consent, seal
<1>2. CASE alloySendsEvent
  <2>1. PICK d \in drives : drives' = (drives \ {d}) \cup {[d EXCEPT !.fetch = NextFetchId]}
      BY <1>2 DEF alloySendsEvent
  <2>2. interceptedFetch(TRUE)
      BY <1>2 DEF alloySendsEvent
  <2>3. drives' \subseteq [event : Events, fetch : FetchIds \cup {None}]
      BY <2>1, <2>2, FetchType DEF TypeOK
  <2> QED
      BY <1>2, <2>2, <2>3, FetchType
         DEF alloySendsEvent, TypeOK, Channels, CommandInStep, InitFirst, driver, consent, seal, alloy
<1>3. CASE alloyDeclines
  <2>1. PICK d \in drives : drives' = drives \ {d} /\ Report(d.event)
      BY <1>3 DEF alloyDeclines
  <2>2. d.event \in Events
      BY DEF TypeOK
  <2> QED
      BY <1>3, <2>1, <2>2, ReportType
         DEF alloyDeclines, TypeOK, Channels, CommandInStep, InitFirst, driver, consent, seal, alloy
<1>4. CASE commandAnswered
  <2>1. /\ toChamber' \in Seq(ToChamberMessage) /\ InitFirst' /\ ChamberReceives("response")
        /\ Head(toChamber).id \in FetchIds
      BY <1>4, ChamberReceivesType, Carries DEF commandAnswered
  <2>2. commands # <<>> /\ boot \in {"consenting", "ready"}
      BY <1>4, <2>1 DEF commandAnswered, CommandInStep, FetchIds, None
  <2>3. commands' \in Seq([value : {"y", "n"}, fromBoot : BOOLEAN])
      BY <1>4, <2>2, TailElements DEF commandAnswered, TypeOK
  <2>4. alloyMode' \in {"in", "pending", "out", "broken"}
      BY <1>4 DEF commandAnswered, TypeOK
  <2>5. [type |-> "configured"] \in ToMainMessage
      BY DEF ToMainMessage
  <2>6. /\ toMain' \in Seq(ToMainMessage) /\ boot' \in {boot, "ready"}
        /\ \A i \in DOMAIN toMain' : toMain'[i].type = "result" => toMain'[i].event # None
      BY <1>4, <2>5, PostKeepsResults DEF commandAnswered, Configured, Channels, CommandInStep
  <2>7. InitFirst'
      BY <2>1
  <2> QED
      BY <1>4, <2>1, <2>2, <2>3, <2>4, <2>6
         DEF commandAnswered, TypeOK, Channels, CommandInStep, driver, consent, seal
<1>5. CASE eventAnswered
  <2>1. toChamber' \in Seq(ToChamberMessage) /\ InitFirst'
      BY <1>5, ChamberReceivesType DEF eventAnswered
  <2>2. drives' \subseteq drives
      BY <1>5 DEF eventAnswered
  <2>3. /\ toMain' \in Seq(ToMainMessage)
        /\ \A i \in DOMAIN toMain' : toMain'[i].type = "result" => toMain'[i].event # None
    <3>1. CASE drives' = drives
        BY <1>5, <3>1 DEF eventAnswered, Channels, CommandInStep
    <3>2. CASE drives' # drives
      <4>1. PICK d \in drives \ drives' : Report(d.event)
          BY <1>5, <3>2 DEF eventAnswered
      <4>2. d.event \in Events
          BY DEF TypeOK
      <4> QED
          BY <4>1, <4>2, ReportType
    <3> QED
        BY <3>1, <3>2
  <2> QED
      BY <1>5, <2>1, <2>2, <2>3
         DEF eventAnswered, TypeOK, Channels, CommandInStep, driver, consent, seal, alloy
<1> QED
    BY <1>1, <1>2, <1>3, <1>4, <1>5

LEMMA StepKeepsTInv == TInv /\ [Next]_vars => TInv'
<1> SUFFICES ASSUME TInv, [Next]_vars PROVE TInv'
    OBVIOUS
<1>1. CASE UNCHANGED vars
    BY <1>1 DEF TInv, TypeOK, Channels, CommandInStep, InitFirst, vars, driver, consent, seal, chamber, alloy
<1> QED
    BY <1>1, PageKeepsTInv, HandlersKeepTInv, SealKeepsTInv, ChamberKeepsTInv, AlloyKeepsTInv DEF Next

LEMMA TInvHolds == Spec => []TInv
    BY InitTInv, StepKeepsTInv, PTL DEF Spec

(* The page's, the host's and the chamber's state keep their types.        *)
THEOREM HostTypeCorrect == Spec => []TypeOK
<1>1. TInv => TypeOK
    BY DEF TInv
<1> QED
    BY <1>1, TInvHolds, PTL
-----------------------------------------------------------------------------
(* One answer per fetch. An id is in one place at a time: on its way to the*)
(* host, waiting for an answer, or answered.                               *)

IsFetch(m) == m.type = "intercepted-fetch"

FreshIds ==
    \A i \in DOMAIN toMain : IsFetch(toMain[i]) =>
        /\ toMain[i].id \in 1..fetchSeq
        /\ toMain[i].id \notin unanswered \cup DOMAIN answers
        /\ \A j \in DOMAIN toMain : IsFetch(toMain[j]) /\ j # i => toMain[j].id # toMain[i].id

UsedIds ==
    /\ unanswered \cup DOMAIN answers \subseteq 1..fetchSeq
    /\ unanswered \cap DOMAIN answers = {}
    /\ \A id \in DOMAIN answers : answers[id] = 1

FetchInv == FreshIds /\ UsedIds

(* Messages taken from the channel, and messages other than a fetch added. *)
LEMMA ChannelKeepsFetches ==
    ASSUME TInv, FetchInv, UNCHANGED <<unanswered, answers, fetchSeq>>,
           \/ toMain' = toMain
           \/ toMain # <<>> /\ toMain' = Tail(toMain)
           \/ \E m \in ToMainMessage : ~IsFetch(m) /\ toMain' = Append(toMain, m)
    PROVE  FetchInv'
<1>1. toMain \in Seq(ToMainMessage)
    BY DEF TInv, Channels
<1>2. UsedIds'
    BY DEF FetchInv, UsedIds
<1>3. CASE toMain' = toMain
    BY <1>2, <1>3 DEF FetchInv, FreshIds
<1>4. CASE toMain # <<>> /\ toMain' = Tail(toMain)
  <2>1. \A i \in DOMAIN toMain' : i + 1 \in DOMAIN toMain /\ toMain'[i] = toMain[i + 1] /\ i \in Nat
      BY <1>1, <1>4, TailElements
  <2> QED
      BY <1>2, <2>1 DEF FetchInv, FreshIds
<1>5. ASSUME NEW m \in ToMainMessage, ~IsFetch(m), toMain' = Append(toMain, m)
      PROVE  FetchInv'
  <2>1. /\ DOMAIN toMain' = 1..(Len(toMain) + 1) /\ DOMAIN toMain = 1..Len(toMain)
        /\ Len(toMain) \in Nat /\ toMain'[Len(toMain) + 1] = m
        /\ \A i \in 1..Len(toMain) : toMain'[i] = toMain[i]
      BY <1>1, <1>5, AppendElements
  <2>2. ASSUME NEW i \in DOMAIN toMain', IsFetch(toMain'[i])
        PROVE  i \in DOMAIN toMain /\ toMain'[i] = toMain[i]
    <3>1. i # Len(toMain) + 1
        BY <1>5, <2>1, <2>2 DEF IsFetch
    <3>a. DOMAIN toMain' = 1..(Len(toMain) + 1) /\ Len(toMain) \in Nat
        BY <2>1
    <3>b. i \in 1..(Len(toMain) + 1)
        BY <3>a
    <3>2. i \in 1..Len(toMain)
        BY <3>1, <3>a, <3>b
    <3> QED
        BY <2>1, <3>2
  <2> QED
      BY <1>2, <2>2 DEF FetchInv, FreshIds
<1> QED
    BY <1>3, <1>4, <1>5

LEMMA FetchKeepsFetches ==
    ASSUME TInv, FetchInv, UNCHANGED <<unanswered, answers>>, NEW p \in BOOLEAN, interceptedFetch(p)
    PROVE  FetchInv'
<1>1. fetchSeq' = fetchSeq + 1 /\ fetchSeq \in Nat /\ NextFetchId = fetchSeq + 1 /\ NextFetchId \in FetchIds
    BY FetchType DEF TInv, TypeOK, NextFetchId
<1>2. PICK u \in Urls : Post([type |-> "intercepted-fetch", id |-> NextFetchId, url |-> u,
                             personalization |-> p])
    BY DEF interceptedFetch
<1> DEFINE m == [type |-> "intercepted-fetch", id |-> NextFetchId, url |-> u, personalization |-> p]
<1>3. m \in ToMainMessage /\ toMain \in Seq(ToMainMessage) /\ toMain' = Append(toMain, m)
    BY <1>1, <1>2 DEF ToMainMessage, TInv, Channels, Post
<1>4. m.id = fetchSeq + 1
    BY <1>1
<1> HIDE DEF m
<1>5. /\ DOMAIN toMain' = 1..(Len(toMain) + 1) /\ DOMAIN toMain = 1..Len(toMain)
      /\ Len(toMain) \in Nat /\ toMain'[Len(toMain) + 1] = m
      /\ \A i \in 1..Len(toMain) : toMain'[i] = toMain[i]
    BY <1>3, AppendElements
<1>6. UsedIds'
    BY <1>1 DEF FetchInv, UsedIds
<1>7. \A i \in 1..Len(toMain) : IsFetch(toMain[i]) => toMain[i].id \in 1..fetchSeq
    BY <1>5 DEF FetchInv, FreshIds
<1>8. m.id \notin unanswered \cup DOMAIN answers
    BY <1>1, <1>4 DEF FetchInv, UsedIds
<1>9. FreshIds'
  <2> SUFFICES ASSUME NEW i \in DOMAIN toMain', IsFetch(toMain'[i])
               PROVE  /\ toMain'[i].id \in 1..fetchSeq'
                      /\ toMain'[i].id \notin unanswered \cup DOMAIN answers
                      /\ \A j \in DOMAIN toMain' : IsFetch(toMain'[j]) /\ j # i => toMain'[j].id # toMain'[i].id
      BY DEF FreshIds, IsFetch
  <2>1. CASE i = Len(toMain) + 1
      BY <1>1, <1>4, <1>5, <1>7, <1>8, <2>1
  <2>2. CASE i \in 1..Len(toMain)
    <3>1. toMain[i].id \notin unanswered \cup DOMAIN answers
          /\ \A j \in DOMAIN toMain : IsFetch(toMain[j]) /\ j # i => toMain[j].id # toMain[i].id
        BY <1>5, <2>2 DEF FetchInv, FreshIds
    <3> QED
        BY <1>1, <1>4, <1>5, <1>7, <2>2, <3>1
  <2> QED
      BY <1>5, <2>1, <2>2
<1> QED
    BY <1>6, <1>9 DEF FetchInv

LEMMA AnswerKeepsUsed ==
    ASSUME TInv, UsedIds, NEW id \in FetchIds, NEW ok \in BOOLEAN, PostResponse(id, ok),
           id \notin DOMAIN answers, id \in 1..fetchSeq, fetchSeq' = fetchSeq,
           unanswered' = unanswered \ {id}
    PROVE  UsedIds'
<1>1. /\ DOMAIN answers' = DOMAIN answers \cup {id}
      /\ \A i \in DOMAIN answers : i # id => answers'[i] = answers[i]
      /\ answers'[id] = 1
    BY RespondType
<1> QED
    BY <1>1 DEF UsedIds

LEMMA SealKeepsFetches ==
    ASSUME TInv, FetchInv, dispatchInterceptedFetch \/ NetworkSettles \/ timeout
    PROVE  FetchInv'
<1>1. CASE dispatchInterceptedFetch
  <2> DEFINE m == Head(toMain)
  <2>1. /\ toMain \in Seq(ToMainMessage) /\ toMain # <<>> /\ toMain' = Tail(toMain)
        /\ m = toMain[1] /\ 1 \in DOMAIN toMain /\ m \in ToMainMessage /\ IsFetch(m)
      BY <1>1, MainReceivesType DEF dispatchInterceptedFetch, TInv, Channels, IsFetch
  <2>2. m.id \in FetchIds
      BY <2>1, Carries DEF IsFetch
  <2>3. /\ m.id \in 1..fetchSeq /\ m.id \notin unanswered \cup DOMAIN answers
        /\ \A j \in DOMAIN toMain : IsFetch(toMain[j]) /\ j # 1 => toMain[j].id # m.id
      BY <2>1 DEF FetchInv, FreshIds
  <2>4. \A i \in DOMAIN toMain' : i + 1 \in DOMAIN toMain /\ toMain'[i] = toMain[i + 1] /\ i \in Nat /\ i + 1 # 1
    <3>1. /\ DOMAIN toMain = 1..Len(toMain) /\ DOMAIN toMain' = 1..(Len(toMain) - 1)
          /\ Len(toMain) \in Nat /\ \A i \in 1..(Len(toMain) - 1) : toMain'[i] = toMain[i + 1]
        BY <2>1, TailElements
    <3> QED
        BY <3>1
  <2>5. fetchSeq' = fetchSeq
      BY <1>1 DEF dispatchInterceptedFetch, chamber
  <2>6. CASE PostResponse(m.id, FALSE) /\ UNCHANGED unanswered
    <3>1. unanswered' = unanswered \ {m.id}
        BY <2>3, <2>6
    <3>2. UsedIds'
        BY <2>2, <2>3, <2>5, <2>6, <3>1, AnswerKeepsUsed DEF FetchInv
    <3>3. DOMAIN answers' = DOMAIN answers \cup {m.id}
        BY <2>6, <2>2, RespondType
    <3>4. FreshIds'
        BY <2>1, <2>3, <2>4, <2>5, <2>6, <3>3 DEF FetchInv, FreshIds
    <3> QED
        BY <3>2, <3>4 DEF FetchInv
  <2>7. CASE unanswered' = unanswered \cup {m.id} /\ UNCHANGED answers
    <3>1. UsedIds'
        BY <2>3, <2>5, <2>7 DEF FetchInv, UsedIds
    <3>2. FreshIds'
        BY <2>1, <2>3, <2>4, <2>5, <2>7 DEF FetchInv, FreshIds
    <3> QED
        BY <3>1, <3>2 DEF FetchInv
  <2> QED
      BY <1>1, <2>6, <2>7 DEF dispatchInterceptedFetch
<1>2. ASSUME NEW id \in onNetwork, NEW ok \in BOOLEAN, respond(id, ok), UNCHANGED <<toMain, fetchSeq>>
      PROVE  FetchInv'
  <2>1. id \in FetchIds
      BY <1>2 DEF TInv, TypeOK
  <2>2. CASE id \in unanswered
    <3>1. PostResponse(id, ok) /\ unanswered' = unanswered \ {id}
        BY <1>2, <2>2 DEF respond, RespondGuard
    <3>2. id \notin DOMAIN answers /\ id \in 1..fetchSeq
        BY <2>2 DEF FetchInv, UsedIds
    <3>3. UsedIds'
        BY <1>2, <2>1, <3>1, <3>2, AnswerKeepsUsed DEF FetchInv
    <3>4. DOMAIN answers' = DOMAIN answers \cup {id}
        BY <2>1, <3>1, RespondType
    <3>5. FreshIds'
        BY <1>2, <2>2, <3>1, <3>4 DEF FetchInv, FreshIds
    <3> QED
        BY <3>3, <3>5 DEF FetchInv
  <2>3. CASE id \notin unanswered
    <3>1. UNCHANGED <<unanswered, answers>>
        BY <1>2, <2>3 DEF respond, RespondGuard
    <3> QED
        BY <1>2, <3>1, ChannelKeepsFetches
  <2> QED
      BY <2>2, <2>3
<1>3. CASE NetworkSettles
    BY <1>2, <1>3 DEF NetworkSettles, chamber
<1>4. CASE timeout
    BY <1>2, <1>4 DEF timeout, Armed, chamber, TInv, TypeOK
<1> QED
    BY <1>1, <1>3, <1>4

LEMMA StepKeepsFetches == TInv /\ FetchInv /\ [Next]_vars => FetchInv'
<1> SUFFICES ASSUME TInv, FetchInv, [Next]_vars PROVE FetchInv'
    OBVIOUS
<1>c. [type |-> "configured"] \in ToMainMessage /\ ~IsFetch([type |-> "configured"])
    BY DEF ToMainMessage, IsFetch
<1>r. ASSUME NEW e \in Events \cup {None}, NEW t \in {"result", "fatal"}
      PROVE  [type |-> t, event |-> e] \in ToMainMessage /\ ~IsFetch([type |-> t, event |-> e])
    BY <1>r DEF ToMainMessage, IsFetch
<1>1. CASE push \/ driveEvent \/ setConsent \/ dispose \/ applyConsent \/ drive \/ UNCHANGED vars
  <2>1. UNCHANGED <<unanswered, answers, fetchSeq, toMain>>
      BY <1>1 DEF push, driveEvent, setConsent, dispose, applyConsent, drive, vars, seal, chamber
  <2> QED
      BY <2>1, ChannelKeepsFetches
<1>2. CASE handleConfigured \/ handleResult \/ handleFatal
  <2>1. UNCHANGED <<unanswered, answers, fetchSeq>> /\ toMain # <<>> /\ toMain' = Tail(toMain)
      BY <1>2 DEF handleConfigured, handleResult, handleFatal, handleReport, MainReceives, seal, chamber
  <2> QED
      BY <2>1, ChannelKeepsFetches
<1>3. CASE chamberBoot \/ configureSettles \/ commandAnswered
  <2>1. UNCHANGED <<unanswered, answers, fetchSeq>>
      BY <1>3 DEF chamberBoot, configureSettles, commandAnswered, seal
  <2>2. \/ toMain' = toMain
        \/ \E m \in ToMainMessage : ~IsFetch(m) /\ toMain' = Append(toMain, m)
      BY <1>3, <1>c, <1>r DEF chamberBoot, configureSettles, commandAnswered, Configured, Post
  <2> QED
      BY <2>1, <2>2, ChannelKeepsFetches
<1>4. CASE alloySendsCommand \/ alloySendsEvent
  <2>1. UNCHANGED <<unanswered, answers>> /\ \E p \in BOOLEAN : interceptedFetch(p)
      BY <1>4 DEF alloySendsCommand, alloySendsEvent, seal
  <2> QED
      BY <2>1, FetchKeepsFetches
<1>5. CASE alloyDeclines \/ eventAnswered
  <2>1. UNCHANGED <<unanswered, answers, fetchSeq>>
      BY <1>5 DEF alloyDeclines, eventAnswered, seal
  <2>2. toMain' = toMain \/ \E d \in drives : Report(d.event)
      BY <1>5 DEF alloyDeclines, eventAnswered
  <2>3. \A d \in drives : d.event \in Events
      BY DEF TInv, TypeOK
  <2>4. \/ toMain' = toMain
        \/ \E m \in ToMainMessage : ~IsFetch(m) /\ toMain' = Append(toMain, m)
      BY <2>2, <2>3, <1>r DEF Report, Post
  <2> QED
      BY <2>1, <2>4, ChannelKeepsFetches
<1>6. CASE dispatchInterceptedFetch \/ NetworkSettles \/ timeout
    BY <1>6, SealKeepsFetches
<1> QED
    BY <1>1, <1>2, <1>3, <1>4, <1>5, <1>6 DEF Next

LEMMA FetchInvHolds == Spec => []FetchInv
<1>1. Init => FetchInv
    BY DEF Init, FetchInv, FreshIds, UsedIds
<1> QED
    BY <1>1, TInvHolds, StepKeepsFetches, PTL DEF Spec

(* The chamber gets one answer for each intercepted fetch, whatever order  *)
(* the network's answer, the timer and the seal's refusal come in.         *)
THEOREM FetchAnsweredOnce == Spec => []AnsweredOnce
<1>1. FetchInv => AnsweredOnce
    BY DEF FetchInv, UsedIds, AnsweredOnce
<1> QED
    BY <1>1, FetchInvHolds, PTL

(* Every request leaves under the vector the page set last, and with its   *)
(* personalization query only if that vector grants it.                    *)
THEOREM SealAlwaysLive == Spec => SealIsLive
<1> DEFINE P == ConsentWired => \A i \in DOMAIN dispatched' \ DOMAIN dispatched :
          /\ resolveConsent(consentRef, "analytics_storage") = "granted"
          /\ dispatched'[i].personalization =>
                resolveConsent(consentRef, "personalization") = "granted"
<1>1. ASSUME TInv, [Next]_vars PROVE [P]_vars
  <2>1. CASE dispatchInterceptedFetch
    <3> DEFINE m == Head(toMain)
    <3>1. CASE ~SealHolds(m) /\ dispatched' = Append(dispatched, SealedRequest(m))
      <4>1. /\ dispatched' = Append(dispatched, SealedRequest(m))
            /\ dispatched \in Seq([id : FetchIds, url : {"edge"}, personalization : BOOLEAN])
          BY <1>1, <3>1 DEF TInv, TypeOK
      <4>2. SealedRequest(m) \in [id : FetchIds, url : {"edge"}, personalization : BOOLEAN]
        <5>1. m \in ToMainMessage /\ m.type = "intercepted-fetch"
            BY <1>1, <2>1, MainReceivesType DEF dispatchInterceptedFetch, TInv
        <5>2. m.id \in FetchIds /\ m.url \in Urls /\ m.personalization \in BOOLEAN
            BY <5>1, Carries
        <5> QED
            BY <3>1, <5>2, HostAssumption DEF SealedRequest, SealHolds
      <4>3. \A i \in DOMAIN dispatched' \ DOMAIN dispatched : dispatched'[i] = SealedRequest(m)
          BY <4>1, <4>2, AppendElements
      <4>4. ASSUME ConsentWired
            PROVE  /\ resolveConsent(consentRef, "analytics_storage") = "granted"
                   /\ SealedRequest(m).personalization => resolveConsent(consentRef, "personalization") = "granted"
        <5>1. egressVerdict(consentRef, effectivePurposes, TRUE, FALSE) = "send"
            BY <3>1 DEF SealHolds, SealVector
        <5>2. "analytics_storage" \in effectivePurposes
            BY <4>4 DEF effectivePurposes, EgressPurposes
        <5>3. SealedRequest(m).personalization => ~splitPersonalization
            BY DEF SealedRequest
        <5> QED
            BY <4>4, <5>1, <5>2, <5>3 DEF egressVerdict, splitPersonalization, EgressPurposes, SealVector
      <4> QED
          BY <4>3, <4>4
    <3>2. CASE UNCHANGED dispatched
        BY <3>2
    <3> QED
        BY <2>1, <3>1, <3>2 DEF dispatchInterceptedFetch
  <2>2. CASE ~dispatchInterceptedFetch
    <3>1. UNCHANGED dispatched
        BY <1>1, <2>2 DEF Next, vars, push, driveEvent, setConsent, dispose, handleConfigured, handleResult,
           handleFatal, handleReport, NetworkSettles, timeout, chamberBoot, configureSettles, applyConsent,
           drive, alloySendsCommand, alloySendsEvent, alloyDeclines, commandAnswered, eventAnswered, seal
    <3> QED
        BY <3>1
  <2> QED
      BY <2>1, <2>2
<1>2. TInv /\ [Next]_vars => [P]_vars
    BY <1>1
<1> QED
    BY <1>2, TInvHolds, PTL DEF Spec, SealIsLive
-----------------------------------------------------------------------------
(* Consent. The updates on their way carry ever larger vectors, the last of*)
(* them is the page's, and the chamber's is the one before the first.      *)

IsUpdate(m) == m.type = "setConsent"

LastUpdate(i) == /\ i \in DOMAIN toChamber /\ IsUpdate(toChamber[i])
                 /\ \A j \in DOMAIN toChamber : j > i => ~IsUpdate(toChamber[j])

UpdatesGrow ==
    \A i \in DOMAIN toChamber : IsUpdate(toChamber[i]) =>
        /\ DOMAIN chamberVector \subseteq DOMAIN toChamber[i].consent
        /\ DOMAIN toChamber[i].consent \subseteq DOMAIN consentRef
        /\ \A j \in DOMAIN toChamber : IsUpdate(toChamber[j]) /\ i < j =>
              DOMAIN toChamber[i].consent \subseteq DOMAIN toChamber[j].consent

UpdatesArrive ==
    /\ \A i \in DOMAIN toChamber : LastUpdate(i) => toChamber[i].consent = consentRef
    /\ (\A i \in DOMAIN toChamber : ~IsUpdate(toChamber[i])) => chamberVector = consentRef
    /\ DOMAIN chamberVector \subseteq DOMAIN consentRef

BootVector ==
    \A i \in DOMAIN toChamber : toChamber[i].type = "init" =>
        toChamber[i].consent = bootConsent /\ chamberVector = bootConsent

LastTold ==
    Analytics(bootConsent) = "pending" =>
        /\ DrivesConsent(chamberVector) => lastCommand = CommandFor(chamberVector)
        /\ updates = 0 => lastCommand = "none"

NoUpdateYet == updates = 0 => \A i \in DOMAIN toChamber : ~IsUpdate(toChamber[i])

ConsentInv ==
    ~disposed => UpdatesGrow /\ UpdatesArrive /\ BootVector /\ LastTold /\ NoUpdateYet

LEMMA MergeGrows ==
    ASSUME NEW v \in ConsentVector, NEW u \in ConsentVector
    PROVE  /\ DOMAIN MergeConsent(v, u) = DOMAIN v \cup DOMAIN u
           /\ DOMAIN v \subseteq DOMAIN u => MergeConsent(v, u) = u
<1>1. PICK E \in SUBSET CONSENT_PURPOSES : u \in [E -> RawSignal]
    BY DEF ConsentVector, VectorsOver
<1>2. DOMAIN MergeConsent(v, u) = DOMAIN v \cup DOMAIN u
    BY DEF MergeConsent
<1>3. ASSUME DOMAIN v \subseteq DOMAIN u PROVE MergeConsent(v, u) = u
  <2>1. DOMAIN v \cup DOMAIN u = E
      BY <1>1, <1>3
  <2>2. MergeConsent(v, u) = [p \in E |-> u[p]]
      BY <1>1, <2>1 DEF MergeConsent
  <2> QED
      BY <1>1, <2>2
<1> QED
    BY <1>2, <1>3

(* The chamber's channel, with a message added or the first one taken.     *)
LEMMA ToChamberElements ==
    ASSUME TInv, NEW m \in ToChamberMessage, toChamber' = Append(toChamber, m)
    PROVE  /\ DOMAIN toChamber \subseteq Nat /\ DOMAIN toChamber' = DOMAIN toChamber \cup {Len(toChamber) + 1}
           /\ Len(toChamber) + 1 \notin DOMAIN toChamber /\ toChamber'[Len(toChamber) + 1] = m
           /\ \A i \in DOMAIN toChamber : toChamber'[i] = toChamber[i] /\ i < Len(toChamber) + 1
           /\ Len(toChamber) + 1 \in Nat
<1>1. /\ DOMAIN toChamber' = 1..(Len(toChamber) + 1) /\ DOMAIN toChamber = 1..Len(toChamber)
      /\ Len(toChamber) \in Nat /\ toChamber'[Len(toChamber) + 1] = m
      /\ \A i \in 1..Len(toChamber) : toChamber'[i] = toChamber[i]
    BY AppendElements DEF TInv, Channels
<1>2. 1..(Len(toChamber) + 1) = 1..Len(toChamber) \cup {Len(toChamber) + 1}
    BY <1>1
<1> QED
    BY <1>1, <1>2

LEMMA FromChamberElements ==
    ASSUME TInv, toChamber # <<>>, toChamber' = Tail(toChamber)
    PROVE  /\ DOMAIN toChamber \subseteq Nat /\ 1 \in DOMAIN toChamber /\ Head(toChamber) = toChamber[1]
           /\ \A i \in DOMAIN toChamber : i # 1 => i > 1
           /\ DOMAIN toChamber' \subseteq Nat
           /\ \A i \in DOMAIN toChamber' : /\ i + 1 \in DOMAIN toChamber /\ i + 1 > 1
                                         /\ toChamber'[i] = toChamber[i + 1]
           /\ \A j \in DOMAIN toChamber : j # 1 => /\ j - 1 \in DOMAIN toChamber'
                                                 /\ toChamber'[j - 1] = toChamber[j]
<1>1. /\ Head(toChamber) = toChamber[1] /\ DOMAIN toChamber = 1..Len(toChamber)
      /\ DOMAIN toChamber' = 1..(Len(toChamber) - 1) /\ Len(toChamber) \in Nat \ {0}
      /\ \A i \in 1..(Len(toChamber) - 1) : toChamber'[i] = toChamber[i + 1]
    BY TailElements DEF TInv, Channels
<1>2. \A i \in DOMAIN toChamber' : i + 1 \in DOMAIN toChamber /\ i + 1 > 1 /\ toChamber'[i] = toChamber[i + 1]
    BY <1>1
<1>3. ASSUME NEW j \in DOMAIN toChamber, j # 1
      PROVE  j - 1 \in DOMAIN toChamber' /\ toChamber'[j - 1] = toChamber[j]
  <2>1. j - 1 \in 1..(Len(toChamber) - 1)
      BY <1>1, <1>3
  <2>2. (j - 1) + 1 = j
      BY <1>1, <1>3
  <2> QED
      BY <1>1, <2>1, <2>2
<1> QED
    BY <1>1, <1>2, <1>3

LEMMA OtherMessageKeepsConsent ==
    ASSUME TInv, ConsentInv,
           UNCHANGED <<bootConsent, consentRef, updates, disposed, chamberVector, lastCommand>>,
           NEW m \in ToChamberMessage, ~IsUpdate(m), m.type # "init",
           toChamber' = toChamber \/ toChamber' = Append(toChamber, m)
    PROVE  ConsentInv'
<1> SUFFICES ASSUME ~disposed PROVE ConsentInv'
    BY DEF ConsentInv
<1>1. UpdatesGrow /\ UpdatesArrive /\ BootVector /\ LastTold /\ NoUpdateYet
    BY DEF ConsentInv
<1>2. LastTold'
    BY <1>1 DEF LastTold
<1>3. CASE toChamber' = toChamber
    BY <1>1, <1>2, <1>3 DEF ConsentInv, UpdatesGrow, UpdatesArrive, BootVector, NoUpdateYet, LastUpdate
<1>4. CASE toChamber' = Append(toChamber, m)
  <2> DEFINE n == Len(toChamber) + 1
  <2>1. /\ DOMAIN toChamber \subseteq Nat /\ DOMAIN toChamber' = DOMAIN toChamber \cup {n}
        /\ n \notin DOMAIN toChamber /\ toChamber'[n] = m
        /\ \A i \in DOMAIN toChamber : toChamber'[i] = toChamber[i] /\ i < n
      BY <1>4, ToChamberElements
  <2>2. \A i \in DOMAIN toChamber' : IsUpdate(toChamber'[i]) \/ toChamber'[i].type = "init" =>
            i \in DOMAIN toChamber /\ toChamber'[i] = toChamber[i]
      BY <2>1 DEF IsUpdate
  <2>3. UpdatesGrow'
      BY <1>1, <2>2 DEF UpdatesGrow
  <2>4. \A i \in DOMAIN toChamber' : LastUpdate(i)' => LastUpdate(i)
      BY <2>1, <2>2 DEF LastUpdate
  <2>5. UpdatesArrive'
      BY <1>1, <2>1, <2>2, <2>4 DEF UpdatesArrive, LastUpdate
  <2>6. BootVector' /\ NoUpdateYet'
      BY <1>1, <2>2 DEF BootVector, NoUpdateYet
  <2> QED
      BY <1>2, <2>3, <2>5, <2>6 DEF ConsentInv
<1> QED
    BY <1>3, <1>4

LEMMA OtherReceiptKeepsConsent ==
    ASSUME TInv, ConsentInv,
           UNCHANGED <<bootConsent, consentRef, updates, disposed, chamberVector, lastCommand>>,
           NEW type, type # "setConsent", ChamberReceives(type)
    PROVE  ConsentInv'
<1>1. ~disposed /\ toChamber # <<>> /\ toChamber' = Tail(toChamber) /\ ~IsUpdate(Head(toChamber))
    BY DEF ChamberReceives, IsUpdate
<1>2. UpdatesGrow /\ UpdatesArrive /\ BootVector /\ LastTold /\ NoUpdateYet
    BY <1>1 DEF ConsentInv
<1>3. /\ DOMAIN toChamber \subseteq Nat /\ 1 \in DOMAIN toChamber /\ Head(toChamber) = toChamber[1]
      /\ DOMAIN toChamber' \subseteq Nat
      /\ \A i \in DOMAIN toChamber' : i + 1 \in DOMAIN toChamber /\ toChamber'[i] = toChamber[i + 1]
      /\ \A j \in DOMAIN toChamber : j # 1 => /\ j - 1 \in DOMAIN toChamber'
                                            /\ toChamber'[j - 1] = toChamber[j]
    BY <1>1, FromChamberElements
<1>4. UpdatesGrow'
    BY <1>2, <1>3 DEF UpdatesGrow
<1>5. ASSUME NEW i \in DOMAIN toChamber', LastUpdate(i)' PROVE LastUpdate(i + 1)
  <2>1. i + 1 \in DOMAIN toChamber /\ IsUpdate(toChamber[i + 1]) /\ i \in Nat
      BY <1>3, <1>5 DEF LastUpdate
  <2>2. ASSUME NEW j \in DOMAIN toChamber, j > i + 1 PROVE ~IsUpdate(toChamber[j])
    <3>1. j \in Nat /\ j # 1 /\ j - 1 > i
        BY <1>3, <2>1, <2>2
    <3>2. j - 1 \in DOMAIN toChamber' /\ toChamber'[j - 1] = toChamber[j]
        BY <1>3, <3>1
    <3>3. ~IsUpdate(toChamber'[j - 1])
        BY <1>5, <3>1, <3>2 DEF LastUpdate
    <3> QED
        BY <3>2, <3>3
  <2> QED
      BY <2>1, <2>2 DEF LastUpdate
<1>6. (\A i \in DOMAIN toChamber' : ~IsUpdate(toChamber'[i])) => \A i \in DOMAIN toChamber : ~IsUpdate(toChamber[i])
    BY <1>1, <1>3
<1>7. UpdatesArrive'
    BY <1>2, <1>3, <1>5, <1>6 DEF UpdatesArrive
<1>8. BootVector' /\ NoUpdateYet' /\ LastTold'
    BY <1>2, <1>3 DEF BootVector, NoUpdateYet, LastTold
<1> QED
    BY <1>4, <1>7, <1>8 DEF ConsentInv

LEMMA SetConsentKeepsConsent == ASSUME TInv, ConsentInv, setConsent PROVE ConsentInv'
<1> SUFFICES ASSUME ~disposed' PROVE ConsentInv'
    BY DEF ConsentInv
<1>1. PICK v \in ConsentUpdates :
         /\ consentRef' = MergeConsent(consentRef, v)
         /\ ToChamber([type |-> "setConsent", consent |-> MergeConsent(consentRef, v)])
    BY DEF setConsent
<1> DEFINE m == [type |-> "setConsent", consent |-> consentRef']
           n == Len(toChamber) + 1
<1>2. ~disposed /\ UNCHANGED <<bootConsent, chamberVector, lastCommand>> /\ updates' # 0
  <2>1. updates \in Nat /\ updates' = updates + 1
      BY HostAssumption DEF setConsent, TInv, TypeOK
  <2> QED
      BY <2>1 DEF setConsent, chamber, alloy
<1>3. UpdatesGrow /\ UpdatesArrive /\ BootVector /\ LastTold /\ NoUpdateYet
    BY <1>2 DEF ConsentInv
<1>4. consentRef' \in ConsentVector /\ DOMAIN consentRef \subseteq DOMAIN consentRef'
  <2>1. v \in ConsentVector /\ consentRef \in ConsentVector
      BY HostAssumption DEF TInv, TypeOK
  <2>2. MergeConsent(consentRef, v) \in ConsentVector
      BY <2>1, MergeType
  <2>3. DOMAIN MergeConsent(consentRef, v) = DOMAIN consentRef \cup DOMAIN v
      BY <2>1, MergeGrows
  <2> QED
      BY <1>1, <2>2, <2>3
<1>5. m \in ToChamberMessage /\ IsUpdate(m) /\ m.type # "init" /\ m.consent = consentRef'
    BY <1>4 DEF ToChamberMessage, IsUpdate
<1>6. toChamber' = Append(toChamber, m)
    BY <1>1, <1>2 DEF ToChamber
<1> HIDE DEF m
<1>7. /\ DOMAIN toChamber \subseteq Nat /\ DOMAIN toChamber' = DOMAIN toChamber \cup {n}
      /\ n \notin DOMAIN toChamber /\ toChamber'[n] = m /\ n \in Nat
      /\ \A i \in DOMAIN toChamber : toChamber'[i] = toChamber[i] /\ i < n
    BY <1>5, <1>6, ToChamberElements
<1>8. UpdatesGrow'
  <2> SUFFICES ASSUME NEW i \in DOMAIN toChamber', IsUpdate(toChamber'[i])
               PROVE  /\ DOMAIN chamberVector \subseteq DOMAIN toChamber'[i].consent
                      /\ DOMAIN toChamber'[i].consent \subseteq DOMAIN consentRef'
                      /\ \A j \in DOMAIN toChamber' : IsUpdate(toChamber'[j]) /\ i < j =>
                            DOMAIN toChamber'[i].consent \subseteq DOMAIN toChamber'[j].consent
      BY <1>2 DEF UpdatesGrow, IsUpdate
  <2>1. CASE i = n
    <3>1. \A j \in DOMAIN toChamber' : ~(i < j)
        BY <1>7, <2>1
    <3>2. DOMAIN chamberVector \subseteq DOMAIN consentRef'
        BY <1>3, <1>4 DEF UpdatesArrive
    <3> QED
        BY <1>5, <1>7, <2>1, <3>1, <3>2
  <2>2. CASE i \in DOMAIN toChamber
    <3>1. toChamber'[i] = toChamber[i] /\ IsUpdate(toChamber[i])
        BY <1>7, <2>2
    <3>2. /\ DOMAIN chamberVector \subseteq DOMAIN toChamber[i].consent
          /\ DOMAIN toChamber[i].consent \subseteq DOMAIN consentRef
          /\ \A j \in DOMAIN toChamber : IsUpdate(toChamber[j]) /\ i < j =>
                DOMAIN toChamber[i].consent \subseteq DOMAIN toChamber[j].consent
        BY <1>3, <2>2, <3>1 DEF UpdatesGrow
    <3> QED
        BY <1>4, <1>5, <1>7, <3>1, <3>2
  <2> QED
      BY <1>7, <2>1, <2>2
<1>9. \A i \in DOMAIN toChamber' : LastUpdate(i)' => i = n
    BY <1>5, <1>7 DEF LastUpdate
<1>10. UpdatesArrive'
    BY <1>2, <1>3, <1>4, <1>5, <1>7, <1>9 DEF UpdatesArrive
<1>11. BootVector'
    BY <1>2, <1>3, <1>5, <1>7 DEF BootVector
<1>12. LastTold' /\ NoUpdateYet'
    BY <1>2, <1>3 DEF LastTold, NoUpdateYet
<1> QED
    BY <1>8, <1>10, <1>11, <1>12 DEF ConsentInv

LEMMA ApplyConsentKeepsConsent == ASSUME TInv, ConsentInv, applyConsent PROVE ConsentInv'
<1> DEFINE u == Head(toChamber).consent
<1>1. /\ ~disposed /\ toChamber # <<>> /\ toChamber' = Tail(toChamber) /\ IsUpdate(Head(toChamber))
      /\ UNCHANGED <<bootConsent, consentRef, updates, disposed>>
    BY DEF applyConsent, ChamberReceives, consent, IsUpdate
<1>2. UpdatesGrow /\ UpdatesArrive /\ BootVector /\ LastTold /\ NoUpdateYet
    BY <1>1 DEF ConsentInv
<1>3. /\ DOMAIN toChamber \subseteq Nat /\ 1 \in DOMAIN toChamber /\ Head(toChamber) = toChamber[1]
      /\ DOMAIN toChamber' \subseteq Nat /\ \A i \in DOMAIN toChamber : i # 1 => i > 1
      /\ \A i \in DOMAIN toChamber' : /\ i + 1 \in DOMAIN toChamber /\ i + 1 > 1
                                    /\ toChamber'[i] = toChamber[i + 1]
      /\ \A j \in DOMAIN toChamber : j # 1 => /\ j - 1 \in DOMAIN toChamber'
                                            /\ toChamber'[j - 1] = toChamber[j]
    BY <1>1, FromChamberElements
<1>4. u \in ConsentVector
    BY ChamberReceivesType, Carries DEF applyConsent, TInv
<1>5. DOMAIN chamberVector \subseteq DOMAIN u /\ DOMAIN u \subseteq DOMAIN consentRef
    BY <1>1, <1>2, <1>3 DEF UpdatesGrow
<1>6. chamberVector' = u
    BY <1>4, <1>5, MergeGrows DEF applyConsent, TInv, TypeOK
<1> HIDE DEF u
<1>7. \A i \in DOMAIN toChamber : IsUpdate(toChamber[i]) /\ 1 < i => DOMAIN u \subseteq DOMAIN toChamber[i].consent
    BY <1>1, <1>2, <1>3 DEF UpdatesGrow, u
<1>8. UpdatesGrow'
  <2> SUFFICES ASSUME NEW i \in DOMAIN toChamber', IsUpdate(toChamber'[i])
               PROVE  /\ DOMAIN u \subseteq DOMAIN toChamber'[i].consent
                      /\ DOMAIN toChamber'[i].consent \subseteq DOMAIN consentRef
                      /\ \A j \in DOMAIN toChamber' : IsUpdate(toChamber'[j]) /\ i < j =>
                            DOMAIN toChamber'[i].consent \subseteq DOMAIN toChamber'[j].consent
      BY <1>1, <1>6 DEF UpdatesGrow, IsUpdate
  <2>1. i + 1 \in DOMAIN toChamber /\ IsUpdate(toChamber[i + 1]) /\ 1 < i + 1 /\ toChamber'[i] = toChamber[i + 1]
      BY <1>3
  <2>2. \A j \in DOMAIN toChamber' : i < j =>
            i + 1 < j + 1 /\ j + 1 \in DOMAIN toChamber /\ toChamber'[j] = toChamber[j + 1]
      BY <1>3
  <2> QED
      BY <1>2, <1>7, <2>1, <2>2 DEF UpdatesGrow
<1>9. ASSUME NEW i \in DOMAIN toChamber', LastUpdate(i)' PROVE LastUpdate(i + 1)
  <2>1. i + 1 \in DOMAIN toChamber /\ IsUpdate(toChamber[i + 1]) /\ i \in Nat
      BY <1>3, <1>9 DEF LastUpdate
  <2>2. ASSUME NEW j \in DOMAIN toChamber, j > i + 1 PROVE ~IsUpdate(toChamber[j])
    <3>1. j \in Nat /\ j # 1 /\ j - 1 > i
        BY <1>3, <2>1, <2>2
    <3>2. j - 1 \in DOMAIN toChamber' /\ toChamber'[j - 1] = toChamber[j]
        BY <1>3, <3>1
    <3> QED
        BY <1>9, <3>1, <3>2 DEF LastUpdate
  <2> QED
      BY <2>1, <2>2 DEF LastUpdate
<1>10. ASSUME \A i \in DOMAIN toChamber' : ~IsUpdate(toChamber'[i]) PROVE u = consentRef
  <2>1. \A j \in DOMAIN toChamber : j > 1 => ~IsUpdate(toChamber[j])
      BY <1>3, <1>10
  <2>2. LastUpdate(1)
      BY <1>1, <1>3, <2>1 DEF LastUpdate
  <2> QED
      BY <1>2, <1>3, <2>2 DEF UpdatesArrive, u
<1>11. UpdatesArrive'
    BY <1>1, <1>2, <1>3, <1>5, <1>6, <1>9, <1>10 DEF UpdatesArrive
<1>12. BootVector'
  <2>1. \A i \in DOMAIN toChamber' : toChamber'[i].type # "init"
      BY <1>3 DEF TInv, InitFirst
  <2> QED
      BY <2>1 DEF BootVector
<1>13. LastTold' /\ NoUpdateYet'
    BY <1>1, <1>2, <1>3 DEF LastTold, NoUpdateYet, applyConsent
<1> QED
    BY <1>8, <1>11, <1>12, <1>13 DEF ConsentInv

LEMMA StepKeepsConsent == TInv /\ ConsentInv /\ [Next]_vars => ConsentInv'
<1> SUFFICES ASSUME TInv, ConsentInv, [Next]_vars PROVE ConsentInv'
    OBVIOUS
<1> DEFINE Kept == UNCHANGED <<bootConsent, consentRef, updates, disposed, chamberVector, lastCommand>>
<1>e. ASSUME NEW e \in Events
      PROVE  LET m == [type |-> "event", event |-> e]
             IN m \in ToChamberMessage /\ ~IsUpdate(m) /\ m.type # "init"
    BY <1>e DEF ToChamberMessage, IsUpdate
<1>r. ASSUME NEW id \in FetchIds, NEW ok \in BOOLEAN
      PROVE  Response(id, ok) \in ToChamberMessage /\ ~IsUpdate(Response(id, ok)) /\ Response(id, ok).type # "init"
    BY <1>r DEF ToChamberMessage, IsUpdate, Response
<1>m. \E m \in ToChamberMessage : ~IsUpdate(m) /\ m.type # "init"
  <2>1. 1 \in FetchIds /\ TRUE \in BOOLEAN
      BY DEF FetchIds
  <2> QED
      BY <1>r, <2>1
<1>1. CASE push \/ handleResult \/ handleFatal \/ alloySendsCommand \/ alloySendsEvent \/ alloyDeclines \/ UNCHANGED vars
  <2>1. Kept /\ UNCHANGED toChamber
      BY <1>1 DEF push, handleResult, handleFatal, handleReport, alloySendsCommand, alloySendsEvent, alloyDeclines,
         vars, consent, chamber, alloy
  <2> QED
      BY <1>m, <2>1, OtherMessageKeepsConsent
<1>2. CASE driveEvent \/ handleConfigured
  <2>1. Kept
      BY <1>2 DEF driveEvent, handleConfigured, consent, chamber, alloy
  <2>2. toChamber' = toChamber \/ \E e \in Events : ToChamber([type |-> "event", event |-> e])
    <3>1. CASE driveEvent
      <4>1. Head(tail) \in Events
          BY <3>1, TailElements DEF driveEvent, TInv, TypeOK
      <4> QED
          BY <3>1, <4>1 DEF driveEvent
    <3>2. CASE handleConfigured
        BY <3>2 DEF handleConfigured, TInv, TypeOK
    <3> QED
        BY <1>2, <3>1, <3>2
  <2>3. CASE toChamber' = toChamber
      BY <1>m, <2>1, <2>3, OtherMessageKeepsConsent
  <2>4. ASSUME NEW e \in Events, ToChamber([type |-> "event", event |-> e]) PROVE ConsentInv'
      BY <1>e, <2>1, <2>4, OtherMessageKeepsConsent DEF ToChamber
  <2> QED
      BY <2>2, <2>3, <2>4
<1>3. CASE setConsent
    BY <1>3, SetConsentKeepsConsent
<1>4. CASE dispose
    BY <1>4 DEF dispose, ConsentInv
<1>5. CASE dispatchInterceptedFetch \/ NetworkSettles \/ timeout
  <2>1. Kept
      BY <1>5 DEF dispatchInterceptedFetch, NetworkSettles, timeout, consent, chamber, alloy
  <2>2. toChamber' = toChamber \/ \E id \in FetchIds, ok \in BOOLEAN : ToChamber(Response(id, ok))
    <3>1. CASE dispatchInterceptedFetch
      <4>1. Head(toMain).id \in FetchIds
          BY <3>1, MainReceivesType, Carries DEF dispatchInterceptedFetch, TInv
      <4> QED
          BY <3>1, <4>1 DEF dispatchInterceptedFetch, PostResponse
    <3>2. CASE NetworkSettles \/ timeout
        BY <3>2 DEF NetworkSettles, timeout, Armed, respond, PostResponse, TInv, TypeOK
    <3> QED
        BY <1>5, <3>1, <3>2
  <2>3. CASE toChamber' = toChamber
      BY <1>m, <2>1, <2>3, OtherMessageKeepsConsent
  <2>4. ASSUME NEW id \in FetchIds, NEW ok \in BOOLEAN, ToChamber(Response(id, ok)) PROVE ConsentInv'
      BY <1>r, <2>1, <2>4, OtherMessageKeepsConsent DEF ToChamber
  <2> QED
      BY <2>2, <2>3, <2>4
<1>6. CASE chamberBoot
  <2>1. ~disposed /\ Head(toChamber) = toChamber[1] /\ 1 \in DOMAIN toChamber /\ Head(toChamber).type = "init"
      BY <1>6, ChamberReceivesType DEF chamberBoot, TInv
  <2>2. chamberVector' = chamberVector
      BY <1>6, <2>1 DEF chamberBoot, ConsentInv, BootVector
  <2>3. Kept /\ ChamberReceives("init")
      BY <1>6, <2>2 DEF chamberBoot, consent
  <2> QED
      BY <2>3, OtherReceiptKeepsConsent
<1>7. CASE configureSettles
  <2>1. UNCHANGED <<bootConsent, consentRef, updates, disposed, chamberVector, toChamber>>
      BY <1>7 DEF configureSettles, consent
  <2>2. lastCommand' = lastCommand \/ DrivesConsent(bootConsent)
      BY <1>7 DEF configureSettles
  <2> QED
      BY <2>1, <2>2 DEF ConsentInv, UpdatesGrow, UpdatesArrive, BootVector, LastTold, NoUpdateYet, LastUpdate,
         DrivesConsent
<1>8. CASE applyConsent
    BY <1>8, ApplyConsentKeepsConsent
<1>9. CASE drive \/ commandAnswered \/ eventAnswered
  <2>1. Kept /\ \E type \in {"event", "response"} : ChamberReceives(type)
      BY <1>9 DEF drive, commandAnswered, eventAnswered, consent, chamber, alloy
  <2> QED
      BY <2>1, OtherReceiptKeepsConsent
<1> QED
    BY <1>1, <1>2, <1>3, <1>4, <1>5, <1>6, <1>7, <1>8, <1>9 DEF Next

LEMMA ConsentInvHolds == Spec => []ConsentInv
<1>1. Init => ConsentInv
  <2> SUFFICES ASSUME Init PROVE ConsentInv
      OBVIOUS
  <2>1. toChamber = <<[type |-> "init", consent |-> bootConsent]>>
      BY DEF Init
  <2>2. DOMAIN toChamber = {1} /\ toChamber[1].type = "init" /\ toChamber[1].consent = bootConsent
      BY <2>1
  <2>3. \A i \in DOMAIN toChamber : ~IsUpdate(toChamber[i])
      BY <2>2 DEF IsUpdate
  <2>4. consentRef = bootConsent /\ chamberVector = bootConsent /\ lastCommand = "none"
      BY DEF Init
  <2>5. LastTold
      BY <2>4 DEF LastTold, DrivesConsent
  <2> QED
      BY <2>2, <2>3, <2>4, <2>5 DEF ConsentInv, UpdatesGrow, UpdatesArrive, BootVector, NoUpdateYet, LastUpdate
<1> QED
    BY <1>1, TInvHolds, StepKeepsConsent, PTL DEF Spec

(* Booted with consent pending, alloy was last told what the page last set *)
(* as soon as no update is on its way, and nothing before the first update.*)
THEOREM ConsentFollows == Spec => []ConsentReachesAlloy
<1>1. TInv /\ ConsentInv => ConsentReachesAlloy
    BY DEF ConsentInv, UpdatesArrive, LastTold, ConsentReachesAlloy, IsUpdate
<1> QED
    BY <1>1, TInvHolds, ConsentInvHolds, PTL
-----------------------------------------------------------------------------
(* Events in turn. An open driveEvent() promise has one token: the event   *)
(* queued for the boot, or its message to the chamber, or alloy's drive of *)
(* it, or the report on its way back. A report without an event says that  *)
(* the boot failed, and then nothing was ever sent.                        *)

IsReport(m) == m.type \in {"result", "fatal"} /\ m.event # None

NoneQueued   == boot # "failed" => queuedEvent = None
NoneSent     == \A i \in DOMAIN toChamber : toChamber[i].type # "event"
NoneDriving  == drives = {}
NoneReported == \A i \in DOMAIN toMain : ~IsReport(toMain[i])

QueuedOK == boot # "failed" => queuedEvent \in {None, onResult}

SentOK ==
    \A i \in DOMAIN toChamber : toChamber[i].type = "event" =>
        /\ toChamber[i].event = onResult
        /\ \A j \in DOMAIN toChamber : toChamber[j].type = "event" => j = i

DrivesOK == \A d \in drives : d.event = onResult /\ \A c \in drives : c = d

ReportOK ==
    \A i \in DOMAIN toMain : IsReport(toMain[i]) =>
        /\ toMain[i].event = onResult
        /\ \A j \in DOMAIN toMain : IsReport(toMain[j]) => j = i

OneToken ==
    /\ NoneQueued \/ (NoneSent /\ NoneDriving /\ NoneReported)
    /\ NoneSent \/ (NoneDriving /\ NoneReported)
    /\ NoneDriving \/ NoneReported

TokenInv == QueuedOK /\ SentOK /\ DrivesOK /\ ReportOK /\ OneToken

NoneConfigured == \A i \in DOMAIN toMain : toMain[i].type # "configured"

BootFatals ==
    \A i \in DOMAIN toMain : toMain[i].type = "fatal" /\ toMain[i].event = None => boot = "failed"

BootInv ==
    /\ boot # "ready" => ~configured /\ NoneConfigured /\ NoneSent /\ NoneDriving /\ NoneReported
    /\ BootFatals

(* The chain: the events driven so far, the open one being the last.       *)
Driven == pushed - Len(tail)

Chain ==
    /\ Driven \in Nat /\ \A i \in DOMAIN tail : tail[i] = Driven + i
    /\ \A e \in Events : outcome[e] = "none" <=> e > Driven
    /\ \A e \in Events : outcome[e] # "refused" /\ (outcome[e] = "driven" <=> onResult = e)
    /\ onResult \in {None, Driven}

SettledByOwn ==
    \A e \in Events : /\ outcome[e] = "resolved" => settledBy[e] = e
                      /\ outcome[e] = "rejected" => settledBy[e] \in {e, None}

(* The two channels.                                                       *)
LEMMA ToMainElements ==
    ASSUME TInv, NEW m \in ToMainMessage, toMain' = Append(toMain, m)
    PROVE  /\ DOMAIN toMain' = DOMAIN toMain \cup {Len(toMain) + 1}
           /\ Len(toMain) + 1 \notin DOMAIN toMain /\ toMain'[Len(toMain) + 1] = m
           /\ \A i \in DOMAIN toMain : toMain'[i] = toMain[i]
<1>1. /\ DOMAIN toMain' = 1..(Len(toMain) + 1) /\ DOMAIN toMain = 1..Len(toMain)
      /\ Len(toMain) \in Nat /\ toMain'[Len(toMain) + 1] = m
      /\ \A i \in 1..Len(toMain) : toMain'[i] = toMain[i]
    BY AppendElements DEF TInv, Channels
<1>2. 1..(Len(toMain) + 1) = 1..Len(toMain) \cup {Len(toMain) + 1}
    BY <1>1
<1> QED
    BY <1>1, <1>2

LEMMA FromMainElements ==
    ASSUME TInv, toMain # <<>>, toMain' = Tail(toMain)
    PROVE  /\ 1 \in DOMAIN toMain /\ Head(toMain) = toMain[1] /\ DOMAIN toMain' \subseteq Nat
           /\ \A i \in DOMAIN toMain' : i + 1 \in DOMAIN toMain /\ i + 1 # 1 /\ toMain'[i] = toMain[i + 1]
<1>1. /\ Head(toMain) = toMain[1] /\ DOMAIN toMain = 1..Len(toMain)
      /\ DOMAIN toMain' = 1..(Len(toMain) - 1) /\ Len(toMain) \in Nat \ {0}
      /\ \A i \in 1..(Len(toMain) - 1) : toMain'[i] = toMain[i + 1]
    BY TailElements DEF TInv, Channels
<1> QED
    BY <1>1

LEMMA OtherToChamber ==
    ASSUME TInv,
           \/ toChamber' = toChamber
           \/ toChamber' = <<>>
           \/ toChamber # <<>> /\ toChamber' = Tail(toChamber)
           \/ \E m \in ToChamberMessage : m.type # "event" /\ toChamber' = Append(toChamber, m)
    PROVE  /\ NoneSent => NoneSent'
           /\ SentOK /\ onResult' = onResult => SentOK'
<1>1. CASE toChamber' = toChamber
    BY <1>1 DEF NoneSent, SentOK
<1>2. CASE toChamber' = <<>>
    BY <1>2 DEF NoneSent, SentOK
<1>3. CASE toChamber # <<>> /\ toChamber' = Tail(toChamber)
  <2>1. /\ DOMAIN toChamber' \subseteq Nat
        /\ \A i \in DOMAIN toChamber' : i + 1 \in DOMAIN toChamber /\ toChamber'[i] = toChamber[i + 1]
      BY <1>3, FromChamberElements
  <2>2. ASSUME SentOK, onResult' = onResult, NEW i \in DOMAIN toChamber', toChamber'[i].type = "event"
        PROVE  /\ toChamber'[i].event = onResult
               /\ \A j \in DOMAIN toChamber' : toChamber'[j].type = "event" => j = i
    <3>1. i + 1 \in DOMAIN toChamber /\ toChamber[i + 1].type = "event" /\ toChamber'[i] = toChamber[i + 1]
        BY <2>1, <2>2
    <3>2. toChamber[i + 1].event = onResult
          /\ \A j \in DOMAIN toChamber : toChamber[j].type = "event" => j = i + 1
        BY <2>2, <3>1 DEF SentOK
    <3>3. ASSUME NEW j \in DOMAIN toChamber', toChamber'[j].type = "event" PROVE j = i
      <4>1. j + 1 = i + 1 /\ j \in Nat /\ i \in Nat
          BY <2>1, <3>2, <3>3
      <4> QED
          BY <4>1
    <3> QED
        BY <3>1, <3>2, <3>3
  <2>3. NoneSent => NoneSent'
      BY <2>1 DEF NoneSent
  <2> QED
      BY <2>2, <2>3 DEF SentOK
<1>4. ASSUME NEW m \in ToChamberMessage, m.type # "event", toChamber' = Append(toChamber, m)
      PROVE  (NoneSent => NoneSent') /\ (SentOK /\ onResult' = onResult => SentOK')
  <2>1. /\ DOMAIN toChamber' = DOMAIN toChamber \cup {Len(toChamber) + 1}
        /\ toChamber'[Len(toChamber) + 1] = m
        /\ \A i \in DOMAIN toChamber : toChamber'[i] = toChamber[i]
      BY <1>4, ToChamberElements
  <2>2. \A i \in DOMAIN toChamber' : toChamber'[i].type = "event" => i \in DOMAIN toChamber /\ toChamber'[i] = toChamber[i]
      BY <1>4, <2>1
  <2> QED
      BY <2>2 DEF NoneSent, SentOK
<1> QED
    BY <1>1, <1>2, <1>3, <1>4

LEMMA EventToChamber ==
    ASSUME TInv, NoneSent, NEW e \in Events, ToChamber([type |-> "event", event |-> e]), onResult' = e
    PROVE  SentOK'
<1> DEFINE m == [type |-> "event", event |-> e]
<1>1. m \in ToChamberMessage /\ m.event = e
    BY DEF ToChamberMessage
<1> HIDE DEF m
<1>2. CASE toChamber' = toChamber
    BY <1>2 DEF NoneSent, SentOK
<1>3. CASE toChamber' = Append(toChamber, m)
  <2>1. /\ DOMAIN toChamber' = DOMAIN toChamber \cup {Len(toChamber) + 1}
        /\ toChamber'[Len(toChamber) + 1] = m
        /\ \A i \in DOMAIN toChamber : toChamber'[i] = toChamber[i]
      BY <1>1, <1>3, ToChamberElements
  <2>2. \A i \in DOMAIN toChamber' : toChamber'[i].type = "event" => i = Len(toChamber) + 1
      BY <2>1 DEF NoneSent
  <2> QED
      BY <1>1, <2>1, <2>2 DEF SentOK
<1> QED
    BY <1>2, <1>3 DEF ToChamber, m

LEMMA OtherToMain ==
    ASSUME TInv,
           \/ toMain' = toMain
           \/ toMain # <<>> /\ toMain' = Tail(toMain)
           \/ \E m \in ToMainMessage : ~IsReport(m) /\ toMain' = Append(toMain, m)
    PROVE  /\ NoneReported => NoneReported'
           /\ ReportOK /\ onResult' = onResult => ReportOK'
<1>1. CASE toMain' = toMain
    BY <1>1 DEF NoneReported, ReportOK
<1>2. CASE toMain # <<>> /\ toMain' = Tail(toMain)
  <2>1. /\ DOMAIN toMain' \subseteq Nat
        /\ \A i \in DOMAIN toMain' : i + 1 \in DOMAIN toMain /\ toMain'[i] = toMain[i + 1]
      BY <1>2, FromMainElements
  <2> QED
      BY <2>1 DEF NoneReported, ReportOK
<1>3. ASSUME NEW m \in ToMainMessage, ~IsReport(m), toMain' = Append(toMain, m)
      PROVE  (NoneReported => NoneReported') /\ (ReportOK /\ onResult' = onResult => ReportOK')
  <2>1. /\ DOMAIN toMain' = DOMAIN toMain \cup {Len(toMain) + 1} /\ toMain'[Len(toMain) + 1] = m
        /\ \A i \in DOMAIN toMain : toMain'[i] = toMain[i]
      BY <1>3, ToMainElements
  <2>2. \A i \in DOMAIN toMain' : IsReport(toMain'[i]) => i \in DOMAIN toMain /\ toMain'[i] = toMain[i]
      BY <1>3, <2>1
  <2> QED
      BY <2>2 DEF NoneReported, ReportOK
<1> QED
    BY <1>1, <1>2, <1>3

LEMMA ReportToMain ==
    ASSUME TInv, NoneReported, NEW e \in Events, Report(e), onResult' = e
    PROVE  ReportOK'
<1>1. PICK t \in {"result", "fatal"} : Post([type |-> t, event |-> e])
    BY DEF Report
<1> DEFINE m == [type |-> t, event |-> e]
<1>2. m \in ToMainMessage /\ m.event = e /\ toMain' = Append(toMain, m)
    BY <1>1 DEF ToMainMessage, Post
<1> HIDE DEF m
<1>3. /\ DOMAIN toMain' = DOMAIN toMain \cup {Len(toMain) + 1} /\ toMain'[Len(toMain) + 1] = m
      /\ \A i \in DOMAIN toMain : toMain'[i] = toMain[i]
    BY <1>2, ToMainElements
<1>4. \A i \in DOMAIN toMain' : IsReport(toMain'[i]) => i = Len(toMain) + 1
    BY <1>3 DEF NoneReported
<1> QED
    BY <1>2, <1>3, <1>4 DEF ReportOK, IsReport

LEMMA MainKeepsBoot ==
    ASSUME TInv, boot = "failed" => boot' = "failed",
           \/ toMain' = toMain
           \/ toMain # <<>> /\ toMain' = Tail(toMain)
           \/ \E m \in ToMainMessage :
                 /\ m.type = "fatal" /\ m.event = None => boot' = "failed"
                 /\ m.type = "configured" => boot' = "ready"
                 /\ toMain' = Append(toMain, m)
    PROVE  /\ BootFatals => BootFatals'
           /\ NoneConfigured /\ boot' # "ready" => NoneConfigured'
<1>1. CASE toMain' = toMain
    BY <1>1 DEF BootFatals, NoneConfigured
<1>2. CASE toMain # <<>> /\ toMain' = Tail(toMain)
  <2>1. \A i \in DOMAIN toMain' : i + 1 \in DOMAIN toMain /\ toMain'[i] = toMain[i + 1]
      BY <1>2, FromMainElements
  <2> QED
      BY <2>1 DEF BootFatals, NoneConfigured
<1>3. ASSUME NEW m \in ToMainMessage, m.type = "fatal" /\ m.event = None => boot' = "failed",
             m.type = "configured" => boot' = "ready", toMain' = Append(toMain, m)
      PROVE  (BootFatals => BootFatals') /\ (NoneConfigured /\ boot' # "ready" => NoneConfigured')
  <2>1. /\ DOMAIN toMain' = DOMAIN toMain \cup {Len(toMain) + 1} /\ toMain'[Len(toMain) + 1] = m
        /\ \A i \in DOMAIN toMain : toMain'[i] = toMain[i]
      BY <1>3, ToMainElements
  <2> QED
      BY <1>3, <2>1 DEF BootFatals, NoneConfigured
<1> QED
    BY <1>1, <1>2, <1>3

(* A step that neither sends, drives nor reports an event.                 *)
Quiet ==
    /\ UNCHANGED <<onResult, queuedEvent, drives, configured>>
    /\ boot = "failed" => boot' = "failed"
    /\ boot = "ready" => boot' = "ready"
    /\ \/ toChamber' = toChamber
       \/ toChamber' = <<>>
       \/ toChamber # <<>> /\ toChamber' = Tail(toChamber)
       \/ \E m \in ToChamberMessage : m.type # "event" /\ toChamber' = Append(toChamber, m)
    /\ \/ toMain' = toMain
       \/ toMain # <<>> /\ toMain' = Tail(toMain)
       \/ \E m \in ToMainMessage :
             /\ ~IsReport(m)
             /\ m.type = "fatal" /\ m.event = None => boot' = "failed"
             /\ m.type = "configured" => boot' = "ready"
             /\ toMain' = Append(toMain, m)

EventInv == Chain /\ SettledByOwn /\ TokenInv /\ BootInv

ChainState == <<pushed, tail, outcome, onResult, settledBy>>

LEMMA ChainKept == ASSUME Chain, SettledByOwn, UNCHANGED ChainState PROVE Chain' /\ SettledByOwn'
<1>1. /\ pushed' = pushed /\ tail' = tail /\ outcome' = outcome /\ onResult' = onResult
      /\ settledBy' = settledBy
    BY DEF ChainState
<1> QED
    BY <1>1 DEF Chain, Driven, SettledByOwn

LEMMA QuietKeepsTokens == ASSUME TInv, TokenInv, BootInv, Quiet PROVE TokenInv' /\ BootInv'
<1>1. onResult' = onResult /\ queuedEvent' = queuedEvent /\ drives' = drives /\ configured' = configured
    BY DEF Quiet
<1>2. (NoneSent => NoneSent') /\ SentOK'
    BY <1>1, OtherToChamber DEF Quiet, TokenInv
<1>3. (NoneReported => NoneReported') /\ ReportOK'
    BY <1>1, OtherToMain DEF Quiet, TokenInv
<1>4. BootFatals' /\ (NoneConfigured /\ boot' # "ready" => NoneConfigured')
    BY MainKeepsBoot DEF Quiet, BootInv
<1>5. (NoneQueued => NoneQueued') /\ QueuedOK'
    BY <1>1 DEF Quiet, TokenInv, NoneQueued, QueuedOK
<1>6. (NoneDriving => NoneDriving') /\ DrivesOK'
    BY <1>1 DEF TokenInv, NoneDriving, DrivesOK
<1>7. OneToken'
    BY <1>2, <1>3, <1>5, <1>6 DEF TokenInv, OneToken
<1>8. BootInv'
    BY <1>1, <1>2, <1>3, <1>4, <1>6 DEF Quiet, BootInv
<1> QED
    BY <1>2, <1>3, <1>5, <1>6, <1>7, <1>8 DEF TokenInv

(* Messages that are no event and no report of one.                        *)
LEMMA QuietMessages ==
    /\ \A c \in ConsentVector : LET m == [type |-> "setConsent", consent |-> c]
                                IN m \in ToChamberMessage /\ m.type # "event"
    /\ \A id \in FetchIds, ok \in BOOLEAN :
          Response(id, ok) \in ToChamberMessage /\ Response(id, ok).type # "event"
    /\ LET m == [type |-> "configured"] IN m \in ToMainMessage /\ ~IsReport(m) /\ m.type # "fatal"
    /\ LET m == [type |-> "fatal", event |-> None]
       IN m \in ToMainMessage /\ ~IsReport(m) /\ m.type # "configured"
    /\ \A id \in FetchIds, u \in Urls, p \in BOOLEAN :
          LET m == [type |-> "intercepted-fetch", id |-> id, url |-> u, personalization |-> p]
          IN m \in ToMainMessage /\ ~IsReport(m) /\ m.type # "fatal" /\ m.type # "configured"
    BY DEF ToChamberMessage, ToMainMessage, Response, IsReport

LEMMA FetchIsQuiet ==
    ASSUME TInv, NEW p \in BOOLEAN, interceptedFetch(p)
    PROVE  \E m \in ToMainMessage : /\ ~IsReport(m) /\ m.type # "fatal" /\ m.type # "configured"
                                   /\ toMain' = Append(toMain, m)
<1>1. NextFetchId \in FetchIds
    BY FetchType
<1>2. PICK u \in Urls : Post([type |-> "intercepted-fetch", id |-> NextFetchId, url |-> u,
                             personalization |-> p])
    BY DEF interceptedFetch
<1> QED
    BY <1>1, <1>2, QuietMessages DEF Post

(* The quiet steps of the page, the seal, the chamber and the bundle.      *)
LEMMA QuietSteps ==
    ASSUME TInv,
           setConsent \/ dispose \/ dispatchInterceptedFetch \/ NetworkSettles \/ timeout
             \/ chamberBoot \/ configureSettles \/ applyConsent \/ alloySendsCommand
             \/ commandAnswered
    PROVE  Quiet /\ UNCHANGED ChainState
<1>k. UNCHANGED <<pushed, tail, queuedEvent, onResult, configured, outcome, settledBy>>
    BY DEF setConsent, dispose, dispatchInterceptedFetch, NetworkSettles, timeout, chamberBoot,
       configureSettles, applyConsent, alloySendsCommand, commandAnswered, driver
<1>d. UNCHANGED drives
    BY DEF setConsent, dispose, dispatchInterceptedFetch, NetworkSettles, timeout, chamberBoot,
       configureSettles, applyConsent, alloySendsCommand, commandAnswered, chamber
<1>1. CASE setConsent
  <2>1. PICK v \in ConsentUpdates : ToChamber([type |-> "setConsent", consent |-> MergeConsent(consentRef, v)])
      BY <1>1 DEF setConsent
  <2>2. MergeConsent(consentRef, v) \in ConsentVector
    <3>1. v \in ConsentVector /\ consentRef \in ConsentVector
        BY HostAssumption DEF TInv, TypeOK
    <3> QED
        BY <3>1, MergeType
  <2> QED
      BY <1>1, <1>k, <1>d, <2>1, <2>2, QuietMessages DEF setConsent, ToChamber, Quiet, ChainState, chamber
<1>2. CASE dispose
    BY <1>2, <1>k, <1>d DEF dispose, Quiet, ChainState, chamber
<1>3. CASE dispatchInterceptedFetch
  <2>1. Head(toMain).id \in FetchIds /\ toMain # <<>> /\ toMain' = Tail(toMain)
      BY <1>3, MainReceivesType, Carries DEF dispatchInterceptedFetch, TInv
  <2>2. toChamber' = toChamber \/ ToChamber(Response(Head(toMain).id, FALSE))
      BY <1>3 DEF dispatchInterceptedFetch, PostResponse
  <2> QED
      BY <1>3, <1>k, <1>d, <2>1, <2>2, QuietMessages
         DEF dispatchInterceptedFetch, ToChamber, Quiet, ChainState, chamber
<1>4. CASE NetworkSettles \/ timeout
  <2>1. toChamber' = toChamber \/ \E id \in FetchIds, ok \in BOOLEAN : ToChamber(Response(id, ok))
      BY <1>4 DEF NetworkSettles, timeout, Armed, respond, PostResponse, TInv, TypeOK
  <2>2. UNCHANGED <<toMain, boot>>
      BY <1>4 DEF NetworkSettles, timeout, chamber
  <2> QED
      BY <1>k, <1>d, <2>1, <2>2, QuietMessages DEF ToChamber, Quiet, ChainState
<1>5. CASE chamberBoot
  <2>1. boot = "new" /\ toChamber # <<>> /\ toChamber' = Tail(toChamber)
      BY <1>5, ChamberReceivesType DEF chamberBoot, TInv, InitFirst
  <2>2. \/ boot' = "configuring" /\ toMain' = toMain
        \/ boot' = "failed" /\ toMain' = Append(toMain, [type |-> "fatal", event |-> None])
      BY <1>5 DEF chamberBoot, Post
  <2> QED
      BY <1>k, <1>d, <2>1, <2>2, QuietMessages DEF Quiet, ChainState
<1>6. CASE configureSettles
  <2>1. boot = "configuring" /\ toChamber' = toChamber
      BY <1>6 DEF configureSettles
  <2>2. \/ toMain' = toMain
        \/ boot' = "ready" /\ toMain' = Append(toMain, [type |-> "configured"])
      BY <1>6 DEF configureSettles, Configured, Post
  <2> QED
      BY <1>k, <1>d, <2>1, <2>2, QuietMessages DEF Quiet, ChainState
<1>7. CASE applyConsent
    BY <1>7, <1>k, <1>d DEF applyConsent, ChamberReceives, Quiet, ChainState
<1>8. CASE alloySendsCommand
    BY <1>8, <1>k, <1>d, FetchIsQuiet DEF alloySendsCommand, Quiet, ChainState
<1>9. CASE commandAnswered
  <2>1. toChamber # <<>> /\ toChamber' = Tail(toChamber)
      BY <1>9 DEF commandAnswered, ChamberReceives
  <2>2. /\ commandOut # None
        /\ boot \in {"consenting", "ready"}
      BY <1>9, ChamberReceivesType, Carries DEF commandAnswered, TInv, CommandInStep, FetchIds, None
  <2>3. \/ toMain' = toMain /\ boot' = boot
        \/ boot' = "ready" /\ toMain' = Append(toMain, [type |-> "configured"])
      BY <1>9 DEF commandAnswered, Configured, Post
  <2> QED
      BY <1>k, <1>d, <2>1, <2>2, <2>3, QuietMessages DEF Quiet, ChainState
<1> QED
    BY <1>1, <1>2, <1>3, <1>4, <1>5, <1>6, <1>7, <1>8, <1>9

(* The chain's own steps.                                                  *)
LEMMA PushKeepsEvents == ASSUME TInv, EventInv, push PROVE EventInv'
<1>1. /\ pushed' = pushed + 1 /\ tail' = Append(tail, pushed + 1)
      /\ UNCHANGED <<onResult, outcome, settledBy, queuedEvent, configured, toChamber, toMain, drives, boot>>
    BY DEF push, chamber
<1>2. Quiet
    BY <1>1 DEF Quiet
<1>3. tail \in Seq(Events) /\ pushed \in Nat /\ pushed + 1 \in Events
    BY HostAssumption DEF push, TInv, TypeOK, Events
<1>4. /\ Len(tail') = Len(tail) + 1 /\ DOMAIN tail = 1..Len(tail) /\ DOMAIN tail' = 1..(Len(tail) + 1)
      /\ Len(tail) \in Nat /\ tail'[Len(tail) + 1] = pushed + 1
      /\ \A i \in 1..Len(tail) : tail'[i] = tail[i]
    BY <1>1, <1>3, AppendElements
<1>5. Driven' = Driven
    BY <1>1, <1>3, <1>4 DEF Driven
<1>6. \A i \in DOMAIN tail' : tail'[i] = Driven + i
  <2> SUFFICES ASSUME NEW i \in DOMAIN tail' PROVE tail'[i] = Driven + i
      OBVIOUS
  <2>1. CASE i = Len(tail) + 1
      BY <1>3, <1>4, <2>1 DEF Driven
  <2>2. CASE i \in 1..Len(tail)
      BY <1>4, <2>2 DEF EventInv, Chain
  <2> QED
      BY <1>4, <2>1, <2>2
<1>7. Chain' /\ SettledByOwn'
    BY <1>1, <1>5, <1>6 DEF EventInv, Chain, SettledByOwn
<1> QED
    BY <1>2, <1>7, QuietKeepsTokens DEF EventInv

LEMMA DriveEventKeepsEvents == ASSUME TInv, EventInv, driveEvent PROVE EventInv'
<1> DEFINE e == Head(tail)
<1>1. /\ tail \in Seq(Events) /\ tail # <<>> /\ tail' = Tail(tail) /\ e \in Events
      /\ UNCHANGED <<pushed, configured, settledBy, toMain, drives, boot, disposed>>
    BY TailElements DEF driveEvent, TInv, TypeOK, chamber
<1>2. /\ e = tail[1] /\ DOMAIN tail = 1..Len(tail) /\ DOMAIN tail' = 1..(Len(tail) - 1)
      /\ Len(tail) \in Nat \ {0} /\ Len(tail') = Len(tail) - 1
      /\ \A i \in 1..(Len(tail) - 1) : tail'[i] = tail[i + 1]
    BY <1>1, TailElements
<1>3. onResult = None
  <2>1. onResult \in Events \cup {None}
      BY DEF TInv, TypeOK
  <2>2. \A d \in Events : onResult # d
      BY DEF driveEvent, TailFree, EventInv, Chain
  <2> QED
      BY <2>1, <2>2
<1>4. /\ outcome' = [outcome EXCEPT ![e] = "driven"] /\ onResult' = e
      /\ IF configured THEN ToChamber([type |-> "event", event |-> e]) /\ queuedEvent' = queuedEvent
                       ELSE toChamber' = toChamber /\ queuedEvent' = e
    BY <1>3 DEF driveEvent
<1> HIDE DEF e
<1>5. Driven \in Nat /\ e = Driven + 1 /\ Driven' = Driven + 1
  <2>1. Driven \in Nat /\ tail[1] = Driven + 1
      BY <1>2 DEF EventInv, Chain
  <2>2. pushed \in Nat
      BY HostAssumption DEF TInv, TypeOK
  <2> QED
      BY <1>1, <1>2, <2>1, <2>2 DEF Driven
<1>6. Chain'
  <2>1. \A i \in DOMAIN tail' : tail'[i] = Driven' + i
    <3> SUFFICES ASSUME NEW i \in DOMAIN tail' PROVE tail'[i] = Driven' + i
        OBVIOUS
    <3>1. i + 1 \in DOMAIN tail /\ tail'[i] = tail[i + 1] /\ i \in Nat
        BY <1>2
    <3>2. tail[i + 1] = Driven + (i + 1)
        BY <3>1 DEF EventInv, Chain
    <3> QED
        BY <1>5, <3>1, <3>2
  <2>2. outcome \in [Events -> Outcome] /\ Events \subseteq Nat
      BY DEF TInv, TypeOK, Events
  <2>3. \A d \in Events : outcome'[d] = "none" <=> d > Driven'
      BY <1>1, <1>4, <1>5, <2>2 DEF EventInv, Chain
  <2>4. \A d \in Events : outcome'[d] # "refused" /\ (outcome'[d] = "driven" <=> onResult' = d)
    <3>1. \A d \in Events : outcome[d] # "driven" /\ outcome[d] # "refused"
        BY <1>3 DEF driveEvent, TailFree, EventInv, Chain
    <3> QED
        BY <1>4, <2>2, <3>1
  <2> QED
      BY <1>4, <1>5, <2>1, <2>3, <2>4 DEF Chain
<1>7. SettledByOwn'
    BY <1>1, <1>4 DEF EventInv, SettledByOwn, TInv, TypeOK
<1>8. NoneSent /\ NoneDriving /\ NoneReported /\ NoneQueued
  <2>1. \A i \in DOMAIN toChamber : toChamber[i].type = "event" => toChamber[i].event \in Events
      BY Carries DEF TInv, Channels
  <2>2. None \notin Events
      BY DEF None, Events
  <2>3. NoneSent
      BY <1>3, <2>1, <2>2 DEF EventInv, TokenInv, SentOK, NoneSent
  <2>4. NoneDriving
      BY <1>3, <2>2 DEF EventInv, TokenInv, DrivesOK, NoneDriving, TInv, TypeOK
  <2>5. NoneReported
      BY <1>3 DEF EventInv, TokenInv, ReportOK, NoneReported, IsReport
  <2>6. NoneQueued
      BY <1>3 DEF EventInv, TokenInv, QueuedOK, NoneQueued
  <2> QED
      BY <2>3, <2>4, <2>5, <2>6
<1>9. NoneDriving' /\ DrivesOK' /\ NoneReported' /\ ReportOK' /\ BootFatals' /\ (NoneConfigured => NoneConfigured')
    BY <1>1, <1>8 DEF NoneDriving, DrivesOK, NoneReported, ReportOK, BootFatals, NoneConfigured, EventInv, BootInv
<1>10. CASE configured
  <2>1. boot = "ready"
      BY <1>10 DEF EventInv, BootInv
  <2>2. SentOK'
      BY <1>1, <1>4, <1>8, <1>10, EventToChamber
  <2>3. NoneQueued' /\ QueuedOK'
      BY <1>1, <1>4, <1>8, <1>10 DEF NoneQueued, QueuedOK
  <2>4. TokenInv'
      BY <1>9, <2>2, <2>3 DEF TokenInv, OneToken
  <2>5. BootInv'
      BY <1>1, <1>9, <2>1 DEF BootInv
  <2> QED
      BY <1>6, <1>7, <2>4, <2>5 DEF EventInv
<1>11. CASE ~configured
  <2>1. NoneSent' /\ SentOK' /\ QueuedOK'
      BY <1>4, <1>8, <1>11 DEF NoneSent, SentOK, QueuedOK
  <2>2. TokenInv'
      BY <1>9, <2>1 DEF TokenInv, OneToken
  <2>3. BootInv'
      BY <1>1, <1>9, <2>1 DEF BootInv, EventInv
  <2> QED
      BY <1>6, <1>7, <2>2, <2>3 DEF EventInv
<1> QED
    BY <1>10, <1>11

LEMMA ConfiguredKeepsEvents == ASSUME TInv, EventInv, handleConfigured PROVE EventInv'
<1>1. /\ toMain # <<>> /\ toMain' = Tail(toMain) /\ toMain[1].type = "configured" /\ 1 \in DOMAIN toMain
      /\ UNCHANGED ChainState /\ UNCHANGED <<drives, boot>> /\ configured' /\ queuedEvent' = None
      /\ IF queuedEvent # None THEN ToChamber([type |-> "event", event |-> queuedEvent])
                               ELSE toChamber' = toChamber
    BY MainReceivesType DEF handleConfigured, ChainState, chamber, TInv
<1>2. boot = "ready"
    BY <1>1 DEF EventInv, BootInv, NoneConfigured
<1>3. Chain' /\ SettledByOwn'
    BY <1>1, ChainKept DEF EventInv
<1>4. onResult' = onResult
    BY <1>1 DEF ChainState
<1>5. NoneQueued' /\ QueuedOK'
    BY <1>1 DEF NoneQueued, QueuedOK
<1>6. (NoneReported => NoneReported') /\ ReportOK'
    BY <1>1, <1>4, OtherToMain DEF EventInv, TokenInv
<1>7. (NoneDriving => NoneDriving') /\ DrivesOK'
    BY <1>1, <1>4 DEF EventInv, TokenInv, NoneDriving, DrivesOK
<1>8. BootInv'
  <2>1. BootFatals'
      BY <1>1, MainKeepsBoot DEF EventInv, BootInv
  <2> QED
      BY <1>1, <1>2, <2>1 DEF BootInv
<1>9. CASE queuedEvent = None
  <2>1. (NoneSent => NoneSent') /\ SentOK'
      BY <1>1, <1>4, <1>9, OtherToChamber DEF EventInv, TokenInv
  <2>2. OneToken'
      BY <1>5, <1>6, <1>7, <2>1 DEF EventInv, TokenInv, OneToken
  <2> QED
      BY <1>3, <1>5, <1>6, <1>7, <1>8, <2>1, <2>2 DEF EventInv, TokenInv
<1>10. CASE queuedEvent # None
  <2>1. NoneSent /\ NoneDriving /\ NoneReported
      BY <1>2, <1>10 DEF EventInv, TokenInv, OneToken, NoneQueued
  <2>2. queuedEvent = onResult /\ queuedEvent \in Events
      BY <1>2, <1>10 DEF EventInv, TokenInv, QueuedOK, TInv, TypeOK
  <2>3. SentOK'
      BY <1>1, <1>4, <1>10, <2>1, <2>2, EventToChamber
  <2>4. OneToken'
      BY <1>5, <1>6, <1>7, <2>1 DEF OneToken
  <2> QED
      BY <1>3, <1>5, <1>6, <1>7, <1>8, <2>3, <2>4 DEF EventInv, TokenInv
<1> QED
    BY <1>9, <1>10

LEMMA ReportKeepsEvents ==
    ASSUME TInv, EventInv,
           NEW type \in {"result", "fatal"}, NEW as \in {"resolved", "rejected"},
           (type = "result") = (as = "resolved"), handleReport(type, as)
    PROVE  EventInv'
<1> DEFINE m == Head(toMain)
<1>1. /\ toMain # <<>> /\ toMain' = Tail(toMain) /\ m = toMain[1] /\ 1 \in DOMAIN toMain
      /\ m \in ToMainMessage /\ m.type = type /\ m.event \in Events \cup {None}
      /\ UNCHANGED <<pushed, tail, queuedEvent, configured, toChamber, drives, boot>>
    BY MainReceivesType, Carries DEF handleReport, chamber, TInv
<1>2. IF onResult # None
      THEN /\ outcome' = [outcome EXCEPT ![onResult] = as]
           /\ settledBy' = [settledBy EXCEPT ![onResult] = m.event]
           /\ onResult' = None
      ELSE UNCHANGED <<outcome, settledBy, onResult>>
    BY DEF handleReport
<1>3. onResult' = None
    BY <1>2
<1>4. m.event # None => IsReport(m) /\ m.event = onResult
    BY <1>1 DEF IsReport, EventInv, TokenInv, ReportOK
<1>5. m.event = None => type = "fatal" /\ boot = "failed"
  <2>1. m.event = None => m.type # "result"
      BY <1>1 DEF TInv, CommandInStep
  <2> QED
      BY <1>1, <2>1 DEF EventInv, BootInv, BootFatals
<1> HIDE DEF m
<1>6. NoneSent /\ NoneDriving /\ NoneQueued /\ NoneReported'
  <2>1. CASE m.event = None
    <3>1. NoneSent /\ NoneDriving /\ NoneReported
        BY <1>5, <2>1 DEF EventInv, BootInv
    <3>2. NoneQueued
        BY <1>5, <2>1 DEF NoneQueued
    <3> QED
        BY <1>1, <3>1, <3>2, OtherToMain
  <2>2. CASE m.event # None
    <3>1. ~NoneReported
        BY <1>1, <1>4, <2>2 DEF NoneReported
    <3>2. NoneReported'
      <4>1. \A i \in DOMAIN toMain' : i + 1 \in DOMAIN toMain /\ i + 1 # 1 /\ toMain'[i] = toMain[i + 1]
          BY <1>1, FromMainElements
      <4>2. \A j \in DOMAIN toMain : IsReport(toMain[j]) => j = 1
          BY <1>1, <1>4, <2>2 DEF EventInv, TokenInv, ReportOK
      <4> QED
          BY <4>1, <4>2 DEF NoneReported
    <3> QED
        BY <3>1, <3>2 DEF EventInv, TokenInv, OneToken
  <2> QED
      BY <2>1, <2>2
<1>7. NoneSent' /\ NoneDriving' /\ NoneQueued' /\ SentOK' /\ DrivesOK' /\ QueuedOK' /\ ReportOK'
    BY <1>1, <1>6 DEF NoneSent, NoneDriving, NoneQueued, SentOK, DrivesOK, QueuedOK, ReportOK, NoneReported
<1>8. TokenInv'
    BY <1>6, <1>7 DEF TokenInv, OneToken
<1>9. BootInv'
  <2>1. BootFatals' /\ (NoneConfigured /\ boot' # "ready" => NoneConfigured')
      BY <1>1, MainKeepsBoot DEF EventInv, BootInv
  <2> QED
      BY <1>1, <1>6, <1>7, <2>1 DEF EventInv, BootInv
<1>10. Chain' /\ SettledByOwn'
  <2>1. CASE onResult = None
    <3>1. UNCHANGED ChainState
        BY <1>1, <1>2, <2>1 DEF ChainState
    <3> QED
        BY <3>1, ChainKept DEF EventInv
  <2>2. CASE onResult # None
    <3>1. /\ outcome \in [Events -> Outcome] /\ settledBy \in [Events -> Events \cup {None}]
          /\ onResult \in Events
        BY <2>2 DEF TInv, TypeOK
    <3>2. /\ outcome'[onResult] = as /\ settledBy'[onResult] = m.event
          /\ \A d \in Events : d # onResult => outcome'[d] = outcome[d] /\ settledBy'[d] = settledBy[d]
        BY <1>2, <2>2, <3>1
    <3>3. outcome[onResult] = "driven" /\ onResult = Driven
        BY <2>2, <3>1 DEF EventInv, Chain
    <3>4. Driven' = Driven
        BY <1>1 DEF Driven
    <3>5. \A d \in Events : outcome'[d] = "none" <=> d > Driven
        BY <3>1, <3>2, <3>3 DEF EventInv, Chain
    <3>6. None \notin Events
        BY DEF None, Events
    <3>7. \A d \in Events : outcome'[d] # "refused" /\ outcome'[d] # "driven"
        BY <3>1, <3>2 DEF EventInv, Chain
    <3>8. Chain'
        BY <1>1, <1>3, <3>4, <3>5, <3>6, <3>7 DEF EventInv, Chain
    <3>9. SettledByOwn'
        BY <1>4, <1>5, <3>1, <3>2 DEF EventInv, SettledByOwn
    <3> QED
        BY <3>8, <3>9
  <2> QED
      BY <2>1, <2>2
<1> QED
    BY <1>8, <1>9, <1>10 DEF EventInv

(* The token in the chamber.                                               *)
LEMMA DriveKeepsEvents == ASSUME TInv, EventInv, drive PROVE EventInv'
<1> DEFINE m == Head(toChamber)
<1>1. /\ toChamber # <<>> /\ toChamber' = Tail(toChamber) /\ m = toChamber[1] /\ 1 \in DOMAIN toChamber
      /\ m.type = "event" /\ drives' = drives \cup {[event |-> m.event, fetch |-> None]}
      /\ UNCHANGED <<toMain, boot, configured, onResult, queuedEvent>> /\ UNCHANGED ChainState
    BY ChamberReceivesType DEF drive, driver, ChainState, TInv
<1> HIDE DEF m
<1>2. ~NoneSent /\ m.event = onResult
    BY <1>1 DEF NoneSent, EventInv, TokenInv, SentOK
<1>3. NoneDriving /\ NoneReported /\ NoneQueued /\ boot = "ready"
    BY <1>2 DEF EventInv, TokenInv, OneToken, BootInv
<1>4. NoneSent'
  <2>1. \A i \in DOMAIN toChamber' : i + 1 \in DOMAIN toChamber /\ i + 1 > 1 /\ toChamber'[i] = toChamber[i + 1]
      BY <1>1, FromChamberElements
  <2>2. \A j \in DOMAIN toChamber : toChamber[j].type = "event" => j = 1
      BY <1>1 DEF EventInv, TokenInv, SentOK
  <2> QED
      BY <2>1, <2>2 DEF NoneSent
<1>5. DrivesOK'
    BY <1>1, <1>2, <1>3 DEF DrivesOK, NoneDriving
<1>6. NoneReported' /\ NoneQueued' /\ QueuedOK' /\ ReportOK' /\ SentOK' /\ BootFatals'
    BY <1>1, <1>3, <1>4 DEF NoneReported, NoneQueued, QueuedOK, ReportOK, NoneSent, SentOK, BootFatals,
       EventInv, BootInv
<1>7. TokenInv' /\ BootInv'
    BY <1>1, <1>3, <1>4, <1>5, <1>6 DEF TokenInv, OneToken, BootInv
<1> QED
    BY <1>1, <1>7, ChainKept DEF EventInv

LEMMA SendsEventKeepsEvents == ASSUME TInv, EventInv, alloySendsEvent PROVE EventInv'
<1>1. /\ interceptedFetch(TRUE) /\ UNCHANGED <<toChamber, boot, configured, onResult, queuedEvent>>
      /\ UNCHANGED ChainState
    BY DEF alloySendsEvent, driver, ChainState
<1>2. PICK d \in drives : drives' = (drives \ {d}) \cup {[d EXCEPT !.fetch = NextFetchId]}
    BY DEF alloySendsEvent
<1>3. /\ \A c \in drives : c = d
      /\ d.event = onResult /\ d \in [event : Events, fetch : FetchIds \cup {None}]
    BY <1>2 DEF EventInv, TokenInv, DrivesOK, TInv, TypeOK
<1>4. drives' = {[d EXCEPT !.fetch = NextFetchId]} /\ [d EXCEPT !.fetch = NextFetchId].event = onResult
    BY <1>2, <1>3
<1>5. DrivesOK' /\ ~NoneDriving
    BY <1>1, <1>2, <1>4 DEF DrivesOK, NoneDriving
<1>6. NoneSent /\ NoneReported /\ NoneQueued /\ boot = "ready"
    BY <1>5 DEF EventInv, TokenInv, OneToken, BootInv
<1>7. NoneReported' /\ ReportOK' /\ BootFatals'
    BY <1>1, <1>6, FetchIsQuiet, OtherToMain, MainKeepsBoot DEF EventInv, TokenInv, BootInv
<1>8. NoneSent' /\ SentOK' /\ NoneQueued' /\ QueuedOK'
    BY <1>1, <1>6 DEF NoneSent, SentOK, NoneQueued, QueuedOK
<1>9. TokenInv' /\ BootInv'
    BY <1>1, <1>5, <1>6, <1>7, <1>8 DEF TokenInv, OneToken, BootInv
<1> QED
    BY <1>1, <1>9, ChainKept DEF EventInv

(* An event leaves alloy's hands with its report.                          *)
LEMMA LeavingKeepsEvents ==
    ASSUME TInv, EventInv, NEW d \in drives, d \notin drives', drives' \subseteq drives, Report(d.event),
           UNCHANGED <<boot, configured, onResult, queuedEvent>>, UNCHANGED ChainState,
           toChamber' = toChamber \/ (toChamber # <<>> /\ toChamber' = Tail(toChamber))
    PROVE  EventInv'
<1>1. NoneDriving' /\ DrivesOK' /\ ~NoneDriving /\ d.event = onResult /\ d.event \in Events
    BY DEF EventInv, TokenInv, DrivesOK, NoneDriving, TInv, TypeOK
<1>2. NoneSent /\ NoneReported /\ NoneQueued /\ boot = "ready"
    BY <1>1 DEF EventInv, TokenInv, OneToken, BootInv
<1>3. NoneSent' /\ SentOK'
    BY <1>2, OtherToChamber DEF EventInv, TokenInv
<1>4. NoneQueued' /\ QueuedOK'
    BY <1>2 DEF NoneQueued, QueuedOK
<1>5. ReportOK'
    BY <1>1, <1>2, ReportToMain
<1>6. BootFatals'
  <2>1. PICK t \in {"result", "fatal"} : Post([type |-> t, event |-> d.event])
      BY DEF Report
  <2>2. None \notin Events
      BY DEF None, Events
  <2>3. /\ [type |-> t, event |-> d.event] \in ToMainMessage
        /\ toMain' = Append(toMain, [type |-> t, event |-> d.event])
      BY <1>1, <2>1 DEF ToMainMessage, Post
  <2> QED
      BY <1>1, <1>2, <2>2, <2>3, MainKeepsBoot DEF EventInv, BootInv
<1>7. TokenInv' /\ BootInv'
    BY <1>1, <1>2, <1>3, <1>4, <1>5, <1>6 DEF TokenInv, OneToken, BootInv
<1> QED
    BY <1>7, ChainKept DEF EventInv

LEMMA StepKeepsEvents == TInv /\ EventInv /\ [Next]_vars => EventInv'
<1> SUFFICES ASSUME TInv, EventInv, [Next]_vars PROVE EventInv'
    OBVIOUS
<1>q. ASSUME Quiet, UNCHANGED ChainState PROVE EventInv'
    BY <1>q, QuietKeepsTokens, ChainKept DEF EventInv
<1>1. CASE push
    BY <1>1, PushKeepsEvents
<1>2. CASE driveEvent
    BY <1>2, DriveEventKeepsEvents
<1>3. CASE handleConfigured
    BY <1>3, ConfiguredKeepsEvents
<1>4. CASE handleResult \/ handleFatal
    BY <1>4, ReportKeepsEvents DEF handleResult, handleFatal
<1>5. CASE drive
    BY <1>5, DriveKeepsEvents
<1>6. CASE alloySendsEvent
    BY <1>6, SendsEventKeepsEvents
<1>7. CASE alloyDeclines
  <2>1. PICK d \in drives : drives' = drives \ {d} /\ Report(d.event)
      BY <1>7 DEF alloyDeclines
  <2>2. UNCHANGED <<boot, configured, onResult, queuedEvent, toChamber>> /\ UNCHANGED ChainState
      BY <1>7 DEF alloyDeclines, driver, ChainState
  <2> QED
      BY <2>1, <2>2, LeavingKeepsEvents
<1>8. CASE eventAnswered
  <2>1. /\ UNCHANGED <<boot, configured, onResult, queuedEvent>> /\ UNCHANGED ChainState
        /\ toChamber # <<>> /\ toChamber' = Tail(toChamber) /\ drives' \subseteq drives
      BY <1>8 DEF eventAnswered, ChamberReceives, driver, ChainState
  <2>2. CASE drives' = drives
    <3>1. toMain' = toMain
        BY <1>8, <2>2 DEF eventAnswered
    <3> QED
        BY <1>q, <2>1, <2>2, <3>1 DEF Quiet
  <2>3. CASE drives' # drives
    <3>1. PICK d \in drives \ drives' : Report(d.event)
        BY <1>8, <2>3 DEF eventAnswered
    <3> QED
        BY <2>1, <3>1, LeavingKeepsEvents
  <2> QED
      BY <2>2, <2>3
<1>9. CASE UNCHANGED vars
    BY <1>9, <1>q DEF vars, Quiet, ChainState, driver, chamber
<1> QED
    BY <1>1, <1>2, <1>3, <1>4, <1>5, <1>6, <1>7, <1>8, <1>9, <1>q, QuietSteps DEF Next

LEMMA EventInvHolds == Spec => []EventInv
<1>1. Init => EventInv
  <2> SUFFICES ASSUME Init PROVE EventInv
      OBVIOUS
  <2>1. Driven = 0 /\ DOMAIN tail = {}
    <3>1. pushed = 0
        BY DEF Init
    <3>2. Len(tail) = 0
        BY DEF Init
    <3>3. DOMAIN tail = {}
        BY DEF Init
    <3>4. Driven = 0
        BY <3>1, <3>2 DEF Driven
    <3> QED
        BY <3>3, <3>4
  <2>2. Chain /\ SettledByOwn
      BY <2>1 DEF Init, Chain, SettledByOwn, Events, None
  <2>3. NoneSent /\ NoneDriving /\ NoneReported /\ NoneQueued /\ NoneConfigured /\ BootFatals
      BY DEF Init, NoneSent, NoneDriving, NoneReported, NoneQueued, NoneConfigured, BootFatals
  <2>4. TokenInv
      BY <2>3 DEF TokenInv, OneToken, SentOK, DrivesOK, ReportOK, QueuedOK, NoneSent, NoneDriving, NoneReported,
         NoneQueued
  <2>5. BootInv
      BY <2>3 DEF BootInv, Init
  <2> QED
      BY <2>2, <2>4, <2>5 DEF EventInv
<1> QED
    BY <1>1, TInvHolds, StepKeepsEvents, PTL DEF Spec

(* The single slot never refuses an event, an event settles after all those*)
(* pushed before it, and by its own report or the boot's failure.          *)
THEOREM EventsSettleInTurn == Spec => []EventsInTurn
<1>1. ASSUME TInv, EventInv PROVE EventsInTurn
  <2> SUFFICES ASSUME NEW e \in Events
               PROVE  /\ outcome[e] # "refused"
                      /\ Settled(e) => \A d \in 1..(e - 1) : Settled(d)
                      /\ outcome[e] = "resolved" => settledBy[e] = e
                      /\ outcome[e] = "rejected" => settledBy[e] \in {e, None}
      BY DEF EventsInTurn
  <2>1. ASSUME Settled(e), NEW d \in 1..(e - 1) PROVE Settled(d)
    <3>1. d \in Events /\ d < e /\ e \in Nat /\ d \in Nat /\ d # None
        BY HostAssumption DEF Events, None
    <3>2. Driven \in Nat /\ ~(e > Driven)
        BY <1>1, <2>1 DEF EventInv, Chain, Settled
    <3>3. ~(d > Driven) /\ d # Driven
        BY <3>1, <3>2
    <3>4. outcome[d] # "none" /\ outcome[d] # "driven" /\ outcome[d] \in Outcome
        BY <1>1, <3>1, <3>3 DEF EventInv, Chain, TInv, TypeOK
    <3> QED
        BY <3>4 DEF Settled, Outcome
  <2> QED
      BY <1>1, <2>1 DEF EventInv, Chain, SettledByOwn
<1>2. TInv /\ EventInv => EventsInTurn
    BY <1>1
<1> QED
    BY <1>2, TInvHolds, EventInvHolds, PTL
=============================================================================
