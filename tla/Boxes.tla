------------------------------- MODULE Boxes -------------------------------
(***************************************************************************)
(* Personalization boxes: reserved and hidden before paint                 *)
(* (adapters/eds/reserve-personalization.js, placements.js, dom.js),       *)
(* filled when a decision arrives (wireAlloyDecisions in index.js), shown  *)
(* by a timer when none does, and reported once each                       *)
(* (decisions-exposure.js).                                                *)
(*                                                                         *)
(* deliver() awaits only handles that settled when the page reserved them, *)
(* so no other task comes between two decisions of one message: while      *)
(* `inbox` is not empty nothing else moves. What a box looks like besides  *)
(* hidden and what it shows (its height, its markers) is left out.         *)
(***************************************************************************)
EXTENDS Naturals, Sequences

CONSTANTS
    Scopes,         \* decision scopes
    Elements,       \* the elements a selector may match
    NoElement,      \* what a selector matches that matches nothing
    PlacementLists, \* the alloy entry's placements: sequences of Placement
    Propositions,   \* what alloy may return, see PropositionOK
    MaxBoots,       \* bound: boot() calls on the page
    MaxMessages     \* bound: {type:"decisions"} messages of a boot

(* element: what the selector matches; valid: minHeight is a number >= 0.  *)
Placement == [scope : Scopes, element : Elements \cup {NoElement},
              valid : BOOLEAN, prehide : BOOLEAN]

(* id: empty when Target gives none, and then there is nothing to report;  *)
(* html: it carries an html-content-item.                                  *)
PropositionOK(p) == /\ DOMAIN p = {"scope", "id", "html"}
                    /\ p.html \in BOOLEAN

ASSUME BoxAssumption ==
    /\ NoElement \notin Elements
    /\ PlacementLists \subseteq Seq(Placement)
    /\ \A p \in Propositions : PropositionOK(p)
    /\ {MaxBoots, MaxMessages} \subseteq Nat

VARIABLES
    placements, \* of the page
    writable,   \* the page's Trusted Types let setContent write
    target,     \* reservedPlacements: scope -> the element of its handle,
                \* NoElement for a rejected one; no entry, no handle
    revealed,   \* scopes whose handle has revealed its box
    timers,     \* scopes whose backstop is scheduled
    hidden,     \* elements with visibility:hidden
    shown,      \* element -> what was written into it last; no entry: nothing
    boxBoots, messages,
    sink,       \* compositeEmit: "none", "refuses" or "accepts" proposition_display
    inbox,      \* decisions of the message in hand
    seen,       \* keys the boot's reporter has seen
    exposures,  \* proposition_display events the boot's composite got
    displayed   \* history: propositions written into the box of their scope

boxes   == <<placements, writable, target>>
handles == <<revealed, timers, hidden>>
alloy   == <<boxBoots, messages, sink, inbox>>
boxVars == <<boxes, handles, shown, alloy, seen, exposures, displayed>>

Handles == {s \in DOMAIN target : target[s] # NoElement}

BoxTypeOK ==
    /\ placements \in PlacementLists /\ writable \in BOOLEAN
    /\ DOMAIN target \subseteq Scopes
    /\ \A s \in DOMAIN target : target[s] \in Elements \cup {NoElement}
    /\ revealed \subseteq Handles /\ timers \subseteq Handles
    /\ hidden \subseteq Elements
    /\ DOMAIN shown \subseteq Elements
    /\ \A e \in DOMAIN shown : shown[e] \in Propositions
    /\ boxBoots \in 0..MaxBoots /\ messages \in 0..MaxMessages
    /\ sink \in {"none", "refuses", "accepts"}
    /\ inbox \in Seq(Propositions)
    /\ exposures \in Seq(Propositions)
    /\ displayed \subseteq Propositions

BoxInit ==
    /\ placements \in PlacementLists /\ writable \in BOOLEAN
    /\ target = <<>> /\ revealed = {} /\ timers = {} /\ hidden = {} /\ shown = <<>>
    /\ boxBoots = 0 /\ messages = 0 /\ sink = "none" /\ inbox = <<>>
    /\ seen = {} /\ exposures = <<>> /\ displayed = {}
-----------------------------------------------------------------------------
Indices == DOMAIN placements

(* placements.js: a scope twice, and nothing is reserved.                  *)
firstDuplicateScope ==
    \E i, j \in Indices : i # j /\ placements[i].scope = placements[j].scope

(* reserveSpace(): rejected for an invalid spec or a selector that matches *)
(* nothing.                                                                *)
TargetOf(p) == IF p.valid THEN p.element ELSE NoElement

(* The spec's prehide, unless its reservation is rejected.                 *)
Prehides(p) == p.prehide /\ TargetOf(p) # NoElement

(* The decision will show the box: no backstop.                            *)
NoneScheduled == {}

(* One backstop for each prehidden placement.                              *)
Scheduled == {placements[i].scope : i \in {j \in Indices : Prehides(placements[j])}}

(* The page's own script, before paint and before any boot.                *)
reservePersonalization ==
    /\ target = <<>> /\ boxBoots = 0 /\ ~firstDuplicateScope
    /\ LET reserved == {placements[i].scope : i \in Indices}
           spec(s)  == placements[CHOOSE i \in Indices : placements[i].scope = s] IN
         /\ target' = [s \in reserved |-> TargetOf(spec(s))]
         /\ hidden' = {spec(s).element : s \in {r \in reserved : Prehides(spec(r))}}
         /\ timers' = Scheduled
    /\ UNCHANGED <<placements, writable, revealed, shown, alloy, seen, exposures,
                   displayed>>

(* boot(): a new reporter and a new composite; the alloy Worker of the boot*)
(* before is gone, with what it had to say. The boxes stay.                *)
bootAlloy ==
    /\ boxBoots < MaxBoots /\ inbox = <<>>
    /\ boxBoots' = boxBoots + 1 /\ messages' = 0
    /\ sink' \in {"none", "refuses", "accepts"}
    /\ seen' = {} /\ exposures' = <<>>
    /\ UNCHANGED <<boxes, handles, shown, inbox, displayed>>

(* A decisions message of the chamber.                                     *)
deliver ==
    /\ boxBoots > 0 /\ messages < MaxMessages /\ inbox = <<>>
    /\ messages' = messages + 1
    /\ \E p, q \in Propositions : inbox' \in {<<p>>, <<p, q>>}
    /\ UNCHANGED <<boxes, handles, shown, boxBoots, sink, seen, exposures, displayed>>

(* reveal(): once a handle, whoever asks.                                  *)
reveal(s) ==
    /\ revealed' = revealed \cup {s}
    /\ hidden' = IF s \in revealed THEN hidden ELSE hidden \ {target[s]}

(* A fill that marks its handle revealed and leaves the box hidden.        *)
FillMarksOnly(s) == revealed' = revealed \cup {s} /\ UNCHANGED hidden

(* fill() reveals what it fills.                                           *)
FillReveals(s) == reveal(s)

(* fill(): the write may be refused, and nobody is told.                   *)
fill(s, p) ==
    /\ shown' = IF writable
                THEN [e \in DOMAIN shown \cup {target[s]} |->
                        IF e = target[s] THEN p ELSE shown[e]]
                ELSE shown
    /\ displayed' = IF writable THEN displayed \cup {p} ELSE displayed
    /\ FillReveals(s)

keyOf(p) == <<p.scope, p.id>>

(* A reporter that remembers nothing.                                      *)
AlreadyNever(p) == FALSE

(* The reporter has seen the proposition's key.                            *)
Already(p) == keyOf(p) \in seen

(* report(): the key is marked before the event is emitted, and stays so   *)
(* when the composite has no taker for it.                                 *)
report(p) ==
    IF p.id = "" \/ Already(p) THEN UNCHANGED <<seen, exposures>>
    ELSE /\ seen' = seen \cup {keyOf(p)}
         /\ exposures' = IF sink = "accepts" THEN Append(exposures, p) ELSE exposures

(* One with a handle that was not rejected, and html to show.              *)
Renderable(p) == p.scope \in Handles /\ p.html

(* One turn of deliver()'s loop. A decision that cannot be shown is        *)
(* dropped, the ones behind it are not.                                    *)
decide ==
    /\ inbox # <<>>
    /\ inbox' = Tail(inbox)
    /\ LET p == Head(inbox) IN
         IF Renderable(p) THEN fill(p.scope, p) /\ report(p)
         ELSE UNCHANGED <<revealed, hidden, shown, seen, exposures, displayed>>
    /\ UNCHANGED <<boxes, timers, boxBoots, messages, sink>>

(* The host, which has the handles, gives a reservation up.                *)
release ==
    /\ inbox = <<>>
    /\ \E s \in Handles : reveal(s)
    /\ UNCHANGED <<boxes, timers, shown, alloy, seen, exposures, displayed>>

(* The backstop of dom.js.                                                 *)
backstop ==
    /\ inbox = <<>>
    /\ \E s \in timers : timers' = timers \ {s} /\ reveal(s)
    /\ UNCHANGED <<boxes, shown, alloy, seen, exposures, displayed>>

BoxNext == reservePersonalization \/ bootAlloy \/ deliver \/ decide \/ release \/ backstop

(* Timers fire, and microtasks run.                                        *)
BoxFairness == WF_boxVars(backstop) /\ WF_boxVars(decide)

BoxSpec == BoxInit /\ [][BoxNext]_boxVars /\ BoxFairness
-----------------------------------------------------------------------------
(* "a slow/failed decision never leaves a permanently blank box"           *)
(* (dom.js): a hidden element always has a handle on it that has not       *)
(* revealed yet and whose backstop is still to fire, whichever of two      *)
(* handles on one element was filled, released or timed out before.        *)
HiddenHasBackstop ==
    \A e \in hidden : \E s \in timers : target[s] = e /\ s \notin revealed

(* and it is shown in the end.                                             *)
HiddenSettles == \A e \in Elements : e \in hidden ~> e \notin hidden

(* An exposure counts a display: each proposition is reported at most once *)
(* a boot, however often alloy returns it, never before it was written     *)
(* into the box of its scope, and it has left no box hidden. Only a page   *)
(* whose Trusted Types refuse the write reports what it could not show.    *)
ExposureFollowsDisplay ==
    /\ \A i, j \in DOMAIN exposures :
         keyOf(exposures[i]) = keyOf(exposures[j]) => i = j
    /\ \A i \in DOMAIN exposures :
         LET p == exposures[i] IN
           /\ p.scope \in Handles /\ target[p.scope] \notin hidden
           /\ writable => p \in displayed
=============================================================================
