----------------------------- MODULE Ga4Session -----------------------------
(***************************************************************************)
(* The analytics cookies of a visitor (connectors/ga4/cookies.js): _ga, the*)
(* client id, is created if absent; _ga_<stream>, the session, is read,    *)
(* advanced and written back by every boot of the ga4-gtag connector       *)
(* (bootGa4Gtag in adapters/eds/index.js).                                 *)
(*                                                                         *)
(* Between a read and the write that follows from it the boot awaits, and  *)
(* the boots share one jar: two boot() calls of a page, two tabs. Time is  *)
(* a clock; a client id is minted for one boot and no other.               *)
(***************************************************************************)
EXTENDS Naturals, FiniteSets

CONSTANTS
    MaxSessionBoots, \* bound: boots
    MaxNow,          \* bound: the clock
    Timeout,         \* DEFAULT_GA_SESSION_TIMEOUT_MINUTES
    NoCookie,        \* no such cookie
    OtherCookie      \* a value airlock does not parse

ASSUME SessionAssumption ==
    /\ {MaxSessionBoots, MaxNow, Timeout} \subseteq Nat
    /\ {NoCookie, OtherCookie} \cap Nat = {} /\ NoCookie # OtherCookie
    /\ {NoCookie, OtherCookie} \cap
           [sid : Nat, sct : Nat, engaged : {0, 1}, lastHit : Nat] = {}
    /\ NoCookie \notin [flags : SUBSET {"_fv", "_ss"}, sid : Nat, sct : Nat]

Runs == 1..MaxSessionBoots
At   == 0..MaxNow

VARIABLES
    now,
    ga,        \* the _ga cookie: the boot its client id was minted by
    gaStream,  \* the _ga_<stream> cookie
    storageGranted, \* boot -> analytics_storage is granted to it
    step,      \* boot -> how far it is
    readGa, readStream, \* boot -> what it read of either cookie
    clientId,  \* boot -> the id of its beacons
    beacon,    \* boot -> the session state of its beacons
    disturbed  \* history: boots with a write of another between read and write

jar         == <<ga, gaStream>>
runs        == <<step, readGa, readStream, clientId, beacon>>
sessionVars == <<now, jar, storageGranted, runs, disturbed>>

State    == [sid : At, sct : 1..MaxSessionBoots + 1, engaged : {0, 1}, lastHit : At]
Returning == [sid |-> 0, sct |-> 1, engaged |-> 0, lastHit |-> 0]
Steps    == {"new", "read", "sourced", "readStream", "done"}

SessionTypeOK ==
    /\ now \in At
    /\ ga \in Runs \cup {0, NoCookie, OtherCookie}
    /\ gaStream \in State \cup {NoCookie, OtherCookie}
    /\ storageGranted \in [Runs -> BOOLEAN] /\ step \in [Runs -> Steps]
    /\ \A b \in Runs : clientId[b] \in Runs \cup {0}
    /\ \A b \in Runs : /\ readStream[b].value \in State \cup {NoCookie, OtherCookie}
                       /\ readStream[b].at \in At
    /\ disturbed \subseteq {"_ga", "_ga_stream"}

(* A first visit, a returning visitor, or values of another make.          *)
SessionInit ==
    /\ now = 0
    /\ \/ ga = NoCookie    /\ gaStream = NoCookie
       \/ ga = 0           /\ gaStream = Returning
       \/ ga = OtherCookie /\ gaStream = OtherCookie
    /\ storageGranted \in [Runs -> BOOLEAN]
    /\ step = [b \in Runs |-> "new"]
    /\ readGa = [b \in Runs |-> NoCookie] /\ readStream = [b \in Runs |-> [value |-> NoCookie, at |-> 0]]
    /\ clientId = [b \in Runs |-> b] /\ beacon = [b \in Runs |-> NoCookie]
    /\ disturbed = {}
-----------------------------------------------------------------------------
tick ==
    /\ now < MaxNow /\ now' = now + 1
    /\ UNCHANGED <<jar, storageGranted, runs, disturbed>>

(* A write of b that comes between another's read of the cookie and its    *)
(* write.                                                                  *)
Disturb(cookie, s, b) ==
    disturbed \cup (IF \E o \in Runs \ {b} : step[o] = s THEN {cookie} ELSE {})

(* sourceGa4Ctx(): without storage the jar is not even read.               *)
readClient(b) ==
    /\ step[b] = "new"
    /\ IF storageGranted[b]
       THEN /\ readGa' = [readGa EXCEPT ![b] = ga]
            /\ step' = [step EXCEPT ![b] = "read"]
       ELSE /\ step' = [step EXCEPT ![b] = "done"]
            /\ UNCHANGED readGa
    /\ UNCHANGED <<now, jar, storageGranted, readStream, clientId, beacon, disturbed>>

(* Created only if there was no _ga at all.                                *)
Creates(b) == readGa[b] = NoCookie

(* A parsed id is kept; else the boot has its own, and _ga is created.     *)
sourceClient(b) ==
    /\ step[b] = "read"
    /\ step' = [step EXCEPT ![b] = "sourced"]
    /\ clientId' = IF readGa[b] \in Runs \cup {0}
                   THEN [clientId EXCEPT ![b] = readGa[b]] ELSE clientId
    /\ IF Creates(b)
       THEN ga' = b /\ disturbed' = Disturb("_ga", "read", b)
       ELSE UNCHANGED <<ga, disturbed>>
    /\ UNCHANGED <<now, gaStream, storageGranted, readGa, readStream, beacon>>

readSession(b) ==
    /\ step[b] = "sourced"
    /\ step' = [step EXCEPT ![b] = "readStream"]
    /\ readStream' = [readStream EXCEPT ![b] = [value |-> gaStream, at |-> now]]
    /\ UNCHANGED <<now, jar, storageGranted, readGa, clientId, beacon, disturbed>>

(* What becomes of a session read at time t.                               *)
Parsed(old)     == old \notin {NoCookie, OtherCookie}
Expired(old, t) == t - old.lastHit > Timeout

FirstVisit(t) == [sid |-> t, sct |-> 1, engaged |-> 0, lastHit |-> t]

(* A new session that does not count.                                      *)
NewSessionUncounted(old, t) == [old EXCEPT !.sid = t, !.engaged = 0, !.lastHit = t]

NewSession(old, t) == [sid |-> t, sct |-> old.sct + 1, engaged |-> 0, lastHit |-> t]

Continuation(old, t) == [old EXCEPT !.engaged = 1, !.lastHit = t]

Advanced(old, t) ==
    IF ~Parsed(old) THEN FirstVisit(t)
    ELSE IF Expired(old, t) THEN NewSession(old, t) ELSE Continuation(old, t)

(* The beacons' flags: _fv with a first visit, _ss with every new session. *)
Flags(old, t) ==
    IF ~Parsed(old) THEN {"_fv", "_ss"} ELSE IF Expired(old, t) THEN {"_ss"} ELSE {}

(* writeGa4SessionState(): the write, and the beacons' session state. The  *)
(* clock was read in the same task as the cookie.                          *)
writeSession(b) ==
    /\ step[b] = "readStream"
    /\ step' = [step EXCEPT ![b] = "done"]
    /\ LET old == readStream[b].value
           t   == readStream[b].at
           new == Advanced(old, t) IN
         /\ gaStream' = new
         /\ beacon' = [beacon EXCEPT ![b] =
              [flags |-> Flags(old, t), sid |-> new.sid, sct |-> new.sct]]
    /\ disturbed' = Disturb("_ga_stream", "readStream", b)
    /\ UNCHANGED <<now, ga, storageGranted, readGa, readStream, clientId>>

SessionNext ==
    \/ tick
    \/ \E b \in Runs : readClient(b) \/ sourceClient(b) \/ readSession(b) \/ writeSession(b)

SessionSpec == SessionInit /\ [][SessionNext]_sessionVars
-----------------------------------------------------------------------------
Written      == {b \in Runs : beacon[b] # NoCookie}
Started(b)   == "_ss" \in beacon[b].flags
Sourced(b)   == storageGranted[b] /\ step[b] \in {"sourced", "readStream", "done"}

(* Boots that read and write in turn tell one visitor's story: each new    *)
(* session has a number and an id of its own, the jar's count is that of   *)
(* the sessions begun, a visitor is new once, and every boot has the client*)
(* id of the jar. Two boots that overlap may begin the same session twice  *)
(* or set the count back, and a _ga of another make is never replaced, so  *)
(* each boot then has an id of its own.                                    *)
SessionsCounted ==
    /\ "_ga_stream" \notin disturbed =>
         /\ \A a, b \in Written : a # b /\ Started(a) /\ Started(b) =>
              beacon[a].sct # beacon[b].sct /\ beacon[a].sid # beacon[b].sid
         /\ \A a, b \in Written :
              "_fv" \in beacon[a].flags /\ "_fv" \in beacon[b].flags => a = b
         /\ \A b \in Written : beacon[b].sct <= gaStream.sct
         /\ Parsed(gaStream) =>
              gaStream.sct - Cardinality({b \in Written : Started(b)}) \in {0, 1}
    /\ "_ga" \notin disturbed =>
         \A b \in Runs : Sourced(b) => ga = OtherCookie \/ clientId[b] = ga
=============================================================================
