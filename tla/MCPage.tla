------------------------------- MODULE MCPage -------------------------------
(***************************************************************************)
(* Instances of the parts of Page for TLC.                                 *)
(***************************************************************************)
EXTENDS Page, TLC

(* Two boxes on one element; a selector that matches nothing; an invalid   *)
(* one beside one that is not hidden; a scope given twice.                 *)
At_(s, e, v, p) == [scope |-> s, element |-> e, valid |-> v, prehide |-> p]

SitePlacements ==
    {<<At_("hero", "e1", TRUE, TRUE),  At_("side", "e1", TRUE, TRUE)>>,
     <<At_("hero", "e1", TRUE, TRUE),  At_("side", "none", TRUE, TRUE)>>,
     <<At_("hero", "e1", FALSE, TRUE), At_("side", "e2", TRUE, FALSE)>>,
     <<At_("hero", "e1", TRUE, TRUE),  At_("hero", "e2", TRUE, TRUE)>>}

(* With and without an id or html, and a scope nothing is reserved for.    *)
Prop(s, i, h) == [scope |-> s, id |-> i, html |-> h]

SitePropositions == {Prop("hero", "p", TRUE), Prop("hero", "", TRUE),
    Prop("side", "p", TRUE), Prop("side", "q", FALSE), Prop("__view__", "v", TRUE)}

(* "A" and "a" are one address, "B" another; "nick" has no normalizer.     *)
Lowered      == "A" :> "a" @@ "a" :> "a" @@ "B" :> "b"
AtBoot       == {<<>>, [f \in {"em"} |-> "A"]}
GivenByHost  == {[f \in {"em"} |-> "B"], [f \in {"em", "nick"} |-> "a"],
                 [f \in {"em", "ph"} |-> "A"]}

(* A matcher, and an over-broad one with a carve-out.                      *)
SiteMatchers == {[suppress |-> {"a"}, allow |-> {}],
                 [suppress |-> {"a", "b"}, allow |-> {"b"}]}
OthersWrap   == [m \in Methods |-> IF m \in {"insert", "open"} THEN 1 ELSE 0]
=============================================================================
