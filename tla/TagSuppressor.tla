--------------------------- MODULE TagSuppressor ---------------------------
(***************************************************************************)
(* The suppressor of migrated tags (adapters/eds/tag-suppressor.js): while *)
(* installed it stands before the page's ways to insert a script or to     *)
(* send a beacon, and leaves out what the adopter's matchers name.         *)
(*                                                                         *)
(* Other scripts wrap the same methods, before and after, and may put back *)
(* what they found. A method is the stack of wrappers on its native        *)
(* function. "insert" stands for the methods with one or several nodes,    *)
(* the image setters and sendBeacon, which judge what they are given;      *)
(* fetch exempts keepalive; "open" and "send" are those of an              *)
(* XMLHttpRequest, which remembers in the one what it judges in the other. *)
(***************************************************************************)
EXTENDS Naturals, Sequences, FiniteSets

CONSTANTS
    Urls,          \* what a candidate may name, resolved
    NoUrl,         \* not opened, or not seen to be
    MatcherSets,   \* [suppress, allow]: the URLs each list matches
    MaxForeign     \* bound: method -> other scripts' wrappers on it

Methods == {"insert", "fetch", "open", "send"}
Ours    == "ours"
Foreign == "foreign"

ASSUME SuppressorAssumption ==
    /\ NoUrl \notin Urls /\ MaxForeign \in [Methods -> Nat]
    /\ MatcherSets \subseteq [suppress : SUBSET Urls, allow : SUBSET Urls]

VARIABLES
    matchers,   \* state.compiledSuppress, state.compiledAllow
    installed,  \* state.installed
    stack,      \* method -> its wrappers, the outermost last
    opened,     \* the URL the request was last opened with
    xhrUrl,     \* the URL xhrUrls has for it
    restored,   \* history: methods another script has put back, ours with it,
                \* since the last installation
    theirs,     \* history: method -> wrappers others have on it
    unseen,     \* history: its last open() did not pass through us
    call        \* history: the call just made and what became of it

suppressorVars == <<matchers, installed, stack, opened, xhrUrl, restored, theirs,
                    unseen, call>>

NoMatchers == [suppress |-> {}, allow |-> {}]
NoCall     == [method |-> "insert", asked |-> {}, dropped |-> {}, due |-> {},
               unseen |-> FALSE, bypassed |-> FALSE]

SuppressorTypeOK ==
    /\ matchers \in MatcherSets \cup {NoMatchers} /\ installed \in BOOLEAN
    /\ DOMAIN stack = Methods
    /\ \A m \in Methods : \A i \in DOMAIN stack[m] : stack[m][i] \in {Ours, Foreign}
    /\ {opened, xhrUrl} \subseteq Urls \cup {NoUrl}
    /\ restored \subseteq Methods /\ unseen \in BOOLEAN
    /\ call.dropped \subseteq call.asked

SuppressorInit ==
    /\ matchers = NoMatchers /\ installed = FALSE
    /\ stack = [m \in Methods |-> <<>>]
    /\ opened = NoUrl /\ xhrUrl = NoUrl /\ restored = {} /\ unseen = FALSE
    /\ theirs = [m \in Methods |-> 0] /\ call = NoCall
-----------------------------------------------------------------------------
OnTop(m)  == stack[m] # <<>> /\ stack[m][Len(stack[m])] = Ours
InPath(m) == \E i \in DOMAIN stack[m] : stack[m][i] = Ours
Pop(s)    == SubSeq(s, 1, Len(s) - 1)

(* patchMethod(): wrapped, unless the outermost wrapper is ours.           *)
patchAll == [m \in Methods |-> IF OnTop(m) THEN stack[m] ELSE Append(stack[m], Ours)]

(* unpatchMethod(): put back, if the outermost wrapper is ours.            *)
unpatchAll == [m \in Methods |-> IF OnTop(m) THEN Pop(stack[m]) ELSE stack[m]]

(* An uninstallation that leaves the matchers of wrappers it cannot reach. *)
MatchersKept == matchers

(* uninstall() empties the lists.                                          *)
MatchersAfter == NoMatchers

(* installTagSuppressor(): the matchers are replaced, the methods wrapped  *)
(* if they are not thought to be.                                          *)
installTagSuppressor ==
    /\ matchers' \in MatcherSets
    /\ installed' = TRUE
    /\ stack' = IF installed THEN stack ELSE patchAll
    /\ restored' = IF installed THEN restored ELSE {}
    /\ call' = NoCall /\ UNCHANGED <<opened, xhrUrl, theirs, unseen>>

uninstall ==
    /\ installed
    /\ installed' = FALSE
    /\ stack' = unpatchAll
    /\ matchers' = MatchersAfter
    /\ call' = NoCall /\ UNCHANGED <<opened, xhrUrl, restored, theirs, unseen>>
-----------------------------------------------------------------------------
(* Another script.                                                         *)

Foreigners(m) == {i \in DOMAIN stack[m] : stack[m][i] = Foreign}

foreignWrap ==
    \E m \in Methods :
        /\ Cardinality(Foreigners(m)) < MaxForeign[m]
        /\ stack' = [stack EXCEPT ![m] = Append(@, Foreign)]
        /\ theirs' = [theirs EXCEPT ![m] = @ + 1]
        /\ call' = NoCall
        /\ UNCHANGED <<matchers, installed, opened, xhrUrl, restored, unseen>>

(* It assigns what it found, and drops all that was put on top of it.      *)
foreignRestore ==
    \E m \in Methods : \E i \in Foreigners(m) :
        /\ stack' = [stack EXCEPT ![m] = SubSeq(@, 1, i - 1)]
        /\ theirs' = [theirs EXCEPT ![m] = Cardinality({j \in Foreigners(m) : j < i})]
        /\ restored' = IF \E j \in i..Len(stack[m]) : stack[m][j] = Ours
                       THEN restored \cup {m} ELSE restored
        /\ call' = NoCall
        /\ UNCHANGED <<matchers, installed, opened, xhrUrl, unseen>>
-----------------------------------------------------------------------------
(* The page.                                                               *)

(* shouldSuppress(): the allow list wins.                                  *)
shouldSuppress(url) == url \in matchers.suppress \ matchers.allow

(* What a call through m leaves out, judged on `judged`.                   *)
Suppressed(m, judged) ==
    IF InPath(m) THEN {u \in judged : shouldSuppress(u)} ELSE {}

(* What the adopter would have left out.                                   *)
Due(urls) == IF installed THEN urls \cap (matchers.suppress \ matchers.allow) ELSE {}

(* One node or several; a sibling is inserted all the same.                *)
insert ==
    \E urls \in (SUBSET Urls) \ {{}} :
        /\ call' = [method |-> "insert", asked |-> urls,
                    dropped |-> Suppressed("insert", urls), due |-> Due(urls),
                    unseen |-> FALSE, bypassed |-> "insert" \in restored]
        /\ UNCHANGED <<matchers, installed, stack, opened, xhrUrl, restored, theirs,
                       unseen>>

(* shouldSuppressBeacon(): airlock's own beacons are fetched with keepalive*)
(* and are exempt.                                                         *)
Exempt(keepalive) == keepalive

fetch ==
    \E url \in Urls, keepalive \in BOOLEAN :
        /\ call' = [method |-> "fetch", asked |-> {url},
                    dropped |-> IF Exempt(keepalive) THEN {} ELSE Suppressed("fetch", {url}),
                    due |-> IF keepalive THEN {} ELSE Due({url}),
                    unseen |-> FALSE, bypassed |-> "fetch" \in restored]
        /\ UNCHANGED <<matchers, installed, stack, opened, xhrUrl, restored, theirs,
                       unseen>>

(* XMLHttpRequest.open(): noted on the way, if it passes through us.       *)
xhrOpen ==
    \E url \in Urls :
        /\ opened' = url
        /\ xhrUrl' = IF InPath("open") THEN url ELSE xhrUrl
        /\ unseen' = ~InPath("open")
        /\ call' = NoCall
        /\ UNCHANGED <<matchers, installed, stack, restored, theirs>>

(* send(): judged on the URL that was noted.                               *)
xhrSend ==
    /\ opened # NoUrl
    /\ call' = [method |-> "send", asked |-> {opened},
                dropped |-> IF Suppressed("send", {xhrUrl}) # {} THEN {opened} ELSE {},
                due |-> Due({opened}), unseen |-> unseen, bypassed |-> "send" \in restored]
    /\ UNCHANGED <<matchers, installed, stack, opened, xhrUrl, restored, theirs,
                       unseen>>

SuppressorNext == \/ installTagSuppressor \/ uninstall \/ foreignWrap \/ foreignRestore
                  \/ insert \/ fetch \/ xhrOpen \/ xhrSend

SuppressorSpec == SuppressorInit /\ [][SuppressorNext]_suppressorVars
-----------------------------------------------------------------------------
(* While the suppressor is installed it is in the path of every method,    *)
(* whatever wrapped, unwrapped, uninstalled and installed again before,    *)
(* unless another script put back a method over its head since; and none   *)
(* of this takes another script's wrapper out of its method. A             *)
(* call leaves out exactly what the matchers in force name: nothing once   *)
(* uninstalled, though a wrapper be left below another's; nothing the      *)
(* allow list keeps; none of airlock's own beacons. A request opened out   *)
(* of its sight is judged on an older URL, and only that one may be wrong. *)
SuppressionHonest ==
    /\ installed => \A m \in Methods : InPath(m) \/ m \in restored
    /\ \A m \in Methods : Cardinality(Foreigners(m)) = theirs[m]
    /\ ~call.unseen => call.dropped \subseteq call.due
    /\ ~call.unseen /\ ~call.bypassed => call.dropped = call.due
=============================================================================
