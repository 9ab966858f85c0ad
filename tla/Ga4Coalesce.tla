---------------------------- MODULE Ga4Coalesce ----------------------------
(***************************************************************************)
(* Merging GA4 collect requests (connectors/ga4/coalesce.js): requests with*)
(* the same shared parameters become one POST whose lines are the events,  *)
(* split so that no POST outgrows GA4's batch limits.                      *)
(*                                                                         *)
(* A request is its parameters in the order of its query, a parameter a    *)
(* record of its key and its encoded length; all requests of a connector   *)
(* have its one endpoint, which is left out.                               *)
(***************************************************************************)
EXTENDS Naturals, Sequences
LOCAL INSTANCE SequencesExt

CONSTANTS
    GA4_BATCH_MAX_BYTES, GA4_BATCH_MAX_EVENTS,
    PerEventKeys  \* "en", "_et", and what begins with ep. or epn.

(* A parameter: its key, and the length of its encoding.                   *)
QueryParam == [key : STRING, bytes : Nat]

ASSUME CoalesceAssumption ==
    /\ {GA4_BATCH_MAX_BYTES, GA4_BATCH_MAX_EVENTS} \subseteq Nat \ {0}
    /\ {"en", "_et"} \subseteq PerEventKeys /\ "_ee" \notin PerEventKeys

(* _ee=1, which no request has. *)
EngagedEvent == [key |-> "_ee", bytes |-> 5]

(* Those of a sequence that are at the indices, in their order.            *)
At(s, indices) ==
    LET upTo[k \in 0..Len(s)] ==
          IF k = 0 THEN <<>> ELSE IF k \in indices THEN Append(upTo[k - 1], s[k]) ELSE upTo[k - 1]
    IN upTo[Len(s)]

(* How often something is in a sequence.                                   *)
Times(s, p) == Len(At(s, {i \in DOMAIN s : s[i] = p}))

Counted(s) == [p \in ToSet(s) |-> Times(s, p)]

classifyKey(key) == IF key \in PerEventKeys THEN "per-event" ELSE "shared"

OfClass(pairs, class) == At(pairs, {i \in DOMAIN pairs : classifyKey(pairs[i].key) = class})

(* The shared parameters in any order: a sorted join.                      *)
sharedSignature(pairs) == Counted(OfClass(pairs, "shared"))

parseRequest(request) ==
    [original |-> request, sharedPairs |-> OfClass(request, "shared"),
     perEventPairs |-> OfClass(request, "per-event"), signature |-> sharedSignature(request)]

FirstOf(pairs, key) ==
    {i \in DOMAIN pairs : /\ pairs[i].key = key
                          /\ \A j \in 1..(i - 1) : pairs[j].key # key}

(* en first, then the marker, the custom parameters, and _et last.         *)
buildBodyLine(pairs) ==
    LET en == FirstOf(pairs, "en")
        et == FirstOf(pairs, "_et") IN
      At(pairs, en) \o <<EngagedEvent>>
        \o At(pairs, DOMAIN pairs \ (en \cup et)) \o At(pairs, et)

Total(numbers) ==
    LET upTo[k \in 0..Len(numbers)] == IF k = 0 THEN 0 ELSE upTo[k - 1] + numbers[k]
    IN upTo[Len(numbers)]

(* Joined by "&". *)
LineBytes(line) == Len(line) - 1 + Total([i \in DOMAIN line |-> line[i].bytes])

(* Lines joined by nothing. *)
BytesWithoutBreaks(lines) == Total([i \in DOMAIN lines |-> LineBytes(lines[i])])

(* Lines joined by CR LF. *)
byteLength(lines) == 2 * (Len(lines) - 1) + Total([i \in DOMAIN lines |-> LineBytes(lines[i])])

Lines(items) == [i \in DOMAIN items |-> buildBodyLine(items[i].perEventPairs)]

FitsOnePost(items) == /\ Len(items) <= GA4_BATCH_MAX_EVENTS
                      /\ byteLength(Lines(items)) <= GA4_BATCH_MAX_BYTES

(* One turn of the loop: an item that does not fit closes the current post,*)
(* and one too large for any post goes alone.                              *)
AddItem(s, item) ==
    LET closes == s.current # <<>> /\ ~FitsOnePost(Append(s.current, item))
        groups == IF closes THEN Append(s.groups, s.current) ELSE s.groups
        current == IF closes THEN <<item>> ELSE Append(s.current, item) IN
      IF Len(current) = 1 /\ byteLength(Lines(current)) > GA4_BATCH_MAX_BYTES
      THEN [groups |-> Append(groups, current), current |-> <<>>]
      ELSE [groups |-> groups, current |-> current]

splitIntoPostGroups(items) ==
    LET upTo[k \in 0..Len(items)] ==
          IF k = 0 THEN [groups |-> <<>>, current |-> <<>>] ELSE AddItem(upTo[k - 1], items[k])
        s == upTo[Len(items)] IN
      IF s.current = <<>> THEN s.groups ELSE Append(s.groups, s.current)

buildBatchPost(items) ==
    [method |-> "POST", query |-> items[1].sharedPairs, lines |-> Lines(items)]

Unchanged(request) == [method |-> "GET", query |-> request, lines |-> <<>>]

(* Of the requests that share their parameters: one alone goes as it came. *)
GroupOutputs(items) ==
    IF Len(items) = 1 THEN <<Unchanged(items[1].original)>>
    ELSE LET posts == splitIntoPostGroups(items) IN
           [k \in DOMAIN posts |-> buildBatchPost(posts[k])]

OfSignature(parsed, signature) == At(parsed, {i \in DOMAIN parsed : parsed[i].signature = signature})

(* The groups in the order their first request came.                       *)
coalesceGa4(requests) ==
    LET parsed == [i \in DOMAIN requests |-> parseRequest(requests[i])]
        heads == At(parsed, {i \in DOMAIN parsed :
                               \A j \in 1..(i - 1) : parsed[j].signature # parsed[i].signature}) IN
      FlattenSeq([h \in DOMAIN heads |-> GroupOutputs(OfSignature(parsed, heads[h].signature))])
-----------------------------------------------------------------------------
(* What a request says of events: how often each per-event parameter.      *)
Content(pairs) == Counted(OfClass(pairs, "per-event"))

EventsIn(output) == IF output.method = "GET" THEN <<Content(output.query)>>
                  ELSE [l \in DOMAIN output.lines |-> Content(output.lines[l])]

EventsOf(outputs, signature) ==
    LET mine == At(outputs, {o \in DOMAIN outputs : sharedSignature(outputs[o].query) = signature}) IN
      FlattenSeq([k \in DOMAIN mine |-> EventsIn(mine[k])])

(* Whatever their order, lengths and number, the requests of one endpoint  *)
(* go out as their events, each once, unaltered, and in order among those  *)
(* with the same shared parameters; no POST is over GA4's limits but one   *)
(* whose only event is; and none was closed that had room for the next     *)
(* event of its group.                                                     *)
SplitIsExact(requests, outputs) ==
    LET fits(lines) == /\ Len(lines) <= GA4_BATCH_MAX_EVENTS
                       /\ LineBytes(FlattenSeq(lines)) + Len(lines) - 1 <= GA4_BATCH_MAX_BYTES
        posts == {o \in DOMAIN outputs : outputs[o].method = "POST"} IN
      /\ \A i \in DOMAIN requests :
           LET signature == sharedSignature(requests[i])
               mine == At(requests, {j \in DOMAIN requests :
                                      sharedSignature(requests[j]) = signature}) IN
             /\ EventsOf(outputs, signature) = [k \in DOMAIN mine |-> Content(mine[k])]
             /\ Len(mine) = 1 => [method |-> "GET", query |-> mine[1], lines |-> <<>>] \in ToSet(outputs)
      /\ {sharedSignature(o.query) : o \in ToSet(outputs)}
           \subseteq {sharedSignature(r) : r \in ToSet(requests)}
      /\ \A o \in posts :
           LET lines == outputs[o].lines IN
             /\ fits(lines) \/ Len(lines) = 1
             /\ \A l \in DOMAIN lines : Times(lines[l], EngagedEvent) = 1
             /\ o + 1 \in posts
                  /\ sharedSignature(outputs[o + 1].query) = sharedSignature(outputs[o].query)
                => ~fits(Append(lines, outputs[o + 1].lines[1]))
=============================================================================
