------------------------- MODULE PayloadGovernance -------------------------
(***************************************************************************)
(* Stripping denied fields from an event's payload before it crosses to a  *)
(* chamber (core/payload-governance.js). The payload is shared with the    *)
(* event log and the state projection, so it is never written to: objects  *)
(* are copied as far as a denied field lies in them.                       *)
(*                                                                         *)
(* A heap is a sequence of objects, an object the sequence of its own keys *)
(* in order, each with its value: another object's place in the heap, or a *)
(* value that is no object, or a getter that throws. A key is a name and   *)
(* which of its spellings (in upper and lower case) it is.                 *)
(***************************************************************************)
EXTENDS Naturals, Sequences
LOCAL INSTANCE SequencesExt

CONSTANTS
    Scalar, \* a value that is no object
    Throws, \* a getter that throws
    Depth   \* bound: how far into a payload its reading is followed

ObjectField == [name : STRING, spelling : STRING, value : Nat \cup {Scalar, Throws}]

Key(field) == [name |-> field.name, spelling |-> field.spelling]

(* An object has a key once, and refers to objects of the heap.            *)
PayloadOK(heap) ==
    /\ heap \in Seq(Seq(ObjectField)) /\ heap # <<>>
    /\ \A object \in ToSet(heap) : \A i, j \in DOMAIN object :
          /\ object[i].value \in DOMAIN heap \cup {Scalar, Throws}
          /\ Key(object[i]) = Key(object[j]) => i = j

(* An entry is a name, or the segments of a dotted path that are not empty.*)
DenylistOK(denylist) ==
    /\ denylist \in Seq([dotted : BOOLEAN, segments : Seq(STRING)])
    /\ \A i \in DOMAIN denylist :
          /\ Len(denylist[i].segments) <= Depth
          /\ ~denylist[i].dotted => Len(denylist[i].segments) = 1

ASSUME GovernanceAssumption ==
    Depth \in Nat \ {0} /\ Scalar \notin Nat /\ Throws \notin Nat

(* Each of a sequence in turn.                                             *)
Folded(Step(_, _), start, s) ==
    LET upTo[k \in 0..Len(s)] == IF k = 0 THEN start ELSE Step(upTo[k - 1], s[k])
    IN upTo[Len(s)]

Copied(object) == \A i \in DOMAIN object : object[i].value # Throws

IsObject(heap, value) == value \in DOMAIN heap

(* The keys spelled like name in any way, and the first of them.           *)
matchingKeysCaseInsensitive(heap, value, name) ==
    IF IsObject(heap, value)
    THEN {i \in DOMAIN heap[value] : heap[value][i].name = name} ELSE {}

findKeyCaseInsensitive(heap, value, name) ==
    {i \in matchingKeysCaseInsensitive(heap, value, name) :
        \A j \in matchingKeysCaseInsensitive(heap, value, name) : i <= j}

WithoutNamed(object, name) ==
    Folded(LAMBDA kept, field : IF field.name = name THEN kept ELSE Append(kept, field),
           <<>>, object)

(* A field denied at the top: deleted from the copy.                       *)
StripField(s, entry) ==
    LET name == entry.segments[1] IN
      IF entry.dotted \/ matchingKeysCaseInsensitive(s.heap, s.governed, name) = {} THEN s
      ELSE [s EXCEPT !.heap[s.governed] = WithoutNamed(@, name),
                     !.stripped = Append(@, entry)]

(* One ancestor further down, along the first key with its name.           *)
Descend(path, name) ==
    LET found == findKeyCaseInsensitive(path.heap, path.cur, name) IN
      IF path.lost \/ found = {} THEN [path EXCEPT !.lost = TRUE]
      ELSE LET key == CHOOSE key \in found : TRUE
               value == path.heap[path.cur][key].value IN
             [path EXCEPT !.keys = Append(@, key), !.cur = value,
                          !.throws = @ \/ value = Throws]

Ancestors(segments) == SubSeq(segments, 1, Len(segments) - 1)

(* The field is deleted where it lies, in an object the host still shares. *)
InPlace(s, key) ==
    [s EXCEPT !.node = s.heap[s.node][key].value,
              !.throws = @ \/ ~Copied(s.heap[s.heap[s.node][key].value])]

(* node[key] = { ...node[key] }; node = node[key]                          *)
CloneAncestor(s, key) ==
    LET object == s.heap[s.heap[s.node][key].value] IN
      [s EXCEPT !.heap = Append([@ EXCEPT ![s.node][key].value = Len(s.heap) + 1], object),
                !.node = Len(s.heap) + 1,
                !.throws = @ \/ ~Copied(object)]

(* First the whole path is looked up, then its ancestors are cloned and the*)
(* field deleted in every spelling; a path of one name ("a.") is ignored.  *)
stripDottedPath(s, entry) ==
    LET leaf == entry.segments[Len(entry.segments)]
        path == Folded(Descend, [heap |-> s.heap, cur |-> s.governed, keys |-> <<>>,
                                 lost |-> FALSE, throws |-> FALSE],
                       Ancestors(entry.segments))
        found == ~path.lost /\ matchingKeysCaseInsensitive(s.heap, path.cur, leaf) # {}
        clone == Folded(CloneAncestor, [heap |-> s.heap, node |-> s.governed, throws |-> FALSE],
                        path.keys) IN
      IF s.error \/ ~entry.dotted \/ Len(entry.segments) < 2 THEN s
      ELSE IF path.throws THEN [s EXCEPT !.error = TRUE]
      ELSE IF ~found THEN s
      ELSE IF clone.throws THEN [s EXCEPT !.error = TRUE]
      ELSE [s EXCEPT !.heap = [clone.heap EXCEPT ![clone.node] = WithoutNamed(@, leaf)],
                     !.stripped = Append(@, entry)]

(* Fields first, paths second.                                             *)
governPayload(heap, params, denylist) ==
    LET copy   == [heap |-> Append(heap, heap[params]), governed |-> Len(heap) + 1,
                   stripped |-> <<>>, error |-> FALSE]
        s      == Folded(stripDottedPath, Folded(StripField, copy, denylist), denylist) IN
      CASE denylist = <<>> ->
             [heap |-> heap, governed |-> params, stripped |-> <<>>, error |-> FALSE]
        [] denylist # <<>> /\ ~Copied(heap[params]) ->
             [heap |-> heap, governed |-> params, stripped |-> <<>>, error |-> TRUE]
        [] denylist # <<>> /\ Copied(heap[params]) /\ s.error ->
             [s EXCEPT !.governed = Len(s.heap) + 1, !.heap = Append(s.heap, heap[params]),
                       !.stripped = <<>>]
        [] OTHER -> [s EXCEPT !.governed = IF s.stripped = <<>> THEN params ELSE @]
-----------------------------------------------------------------------------
(* What a chamber can read of an object: the paths of at most Depth keys   *)
(* that lead to something.                                                 *)
Below(heap, value) == IF IsObject(heap, value) THEN heap[value] ELSE <<>>

Further(heap, r) ==
    {[path |-> Append(r.path, Key(field)), value |-> field.value] :
       field \in ToSet(Below(heap, r.value))}

(* The paths of n keys, each with the value it leads to.                   *)
Reached(heap, value, n) ==
    LET upTo[k \in 0..n] == IF k = 0 THEN {[path |-> <<>>, value |-> value]}
                            ELSE UNION {Further(heap, r) : r \in upTo[k - 1]}
    IN upTo[n]

Readable(heap, value) ==
    UNION {{r.path : r \in Reached(heap, value, n)} : n \in 1..Depth}

Denies(entry, path) ==
    /\ IF entry.dotted THEN Len(entry.segments) >= 2 ELSE TRUE
    /\ Len(entry.segments) <= Len(path)
    /\ \A i \in DOMAIN entry.segments : path[i].name = entry.segments[i]

(* Above the nth key of a path a name is there in another spelling too:    *)
(* of such twins findKeyCaseInsensitive follows the first only.            *)
SpelledTwice(paths, path, n) ==
    \E q \in paths :
        /\ Len(q) < n /\ q # SubSeq(path, 1, Len(q))
        /\ \A i \in DOMAIN q : q[i].name = path[i].name

(* What crosses is the payload, and nothing of it is lost but what the     *)
(* denylist denies. All of that is lost, at any depth and in any spelling  *)
(* of its last name, except below an ancestor that is there in two         *)
(* spellings: such a path may cross (NoSpellingLeft is not claimed here).  *)
(* The payload itself crosses only if nothing is taken from it; it stays   *)
(* what it was, and so does every object the host may reach in another     *)
(* way. A getter that throws lets everything across, and says so.          *)
StripIsExact(heap, params, denylist, result) ==
    LET before == Readable(heap, params)
        denied == {p \in before : \E i \in DOMAIN denylist : Denies(denylist[i], p)}
        clear  == {p \in before : \E i \in DOMAIN denylist :
                     /\ Denies(denylist[i], p)
                     /\ ~SpelledTwice(before, p, Len(denylist[i].segments))}
        after  == Readable(result.heap, result.governed) IN
      /\ SubSeq(result.heap, 1, Len(heap)) = heap
      /\ ~result.error =>
           /\ before \ denied \subseteq after /\ after \subseteq before \ clear
           /\ (result.governed = params) = (after = before)
           /\ (result.stripped = <<>>) = (after = before)
      /\ result.error =>
           /\ after = before
           /\ \E object \in ToSet(heap) : ~Copied(object)

(* No path the denylist denies crosses, however its names are spelled.     *)
NoSpellingLeft(denylist, result) ==
    ~result.error =>
      \A p \in Readable(result.heap, result.governed), i \in DOMAIN denylist :
          ~Denies(denylist[i], p)
=============================================================================
