-------------------------------- MODULE Page --------------------------------
(***************************************************************************)
(* The parts of a page that share no state: its personalization boxes, the *)
(* hashing of identity in the pixel chamber, a tag's DOM in a Worker, the  *)
(* tag suppressor, and the visitor's analytics cookies. Their product says *)
(* nothing that each does not say alone, so a behaviour is a scene in      *)
(* which one of them moves.                                                *)
(***************************************************************************)
EXTENDS Boxes, PixelIdentity, WorkerDom, TagSuppressor, Ga4Session

VARIABLE scene

Scenes == {"boxes", "pixel", "dom", "suppressor", "session"}

pageVars == <<scene, boxVars, pixelVars, domVars, suppressorVars, sessionVars>>

PageTypeOK ==
    /\ scene \in Scenes
    /\ BoxTypeOK /\ PixelTypeOK /\ DomTypeOK /\ SuppressorTypeOK /\ SessionTypeOK

(* Where a part may start in several ways it does so in its own scene.     *)
PageInit ==
    /\ scene \in Scenes
    /\ BoxInit /\ PixelInit /\ DomInit /\ SuppressorInit /\ SessionInit
    /\ scene # "boxes" =>
         writable /\ placements = CHOOSE list \in PlacementLists : TRUE
    /\ scene # "pixel" => subtle /\ toChamber[1].raw = CHOOSE raw \in BootIdentity : TRUE
    /\ scene # "session" => ga = NoCookie /\ storageGranted = [b \in Runs |-> TRUE]

BoxesMove == /\ scene = "boxes" /\ BoxNext
             /\ UNCHANGED <<scene, pixelVars, domVars, suppressorVars, sessionVars>>

PixelMoves == /\ scene = "pixel" /\ PixelNext
              /\ UNCHANGED <<scene, boxVars, domVars, suppressorVars, sessionVars>>

DomMoves == /\ scene = "dom" /\ DomNext
            /\ UNCHANGED <<scene, boxVars, pixelVars, suppressorVars, sessionVars>>

SuppressorMoves == /\ scene = "suppressor" /\ SuppressorNext
                   /\ UNCHANGED <<scene, boxVars, pixelVars, domVars, sessionVars>>

SessionMoves == /\ scene = "session" /\ SessionNext
                /\ UNCHANGED <<scene, boxVars, pixelVars, domVars, suppressorVars>>

PageNext == BoxesMove \/ PixelMoves \/ DomMoves \/ SuppressorMoves \/ SessionMoves

PageSpec == /\ PageInit /\ [][PageNext]_pageVars
            /\ WF_pageVars(BoxesMove /\ (decide \/ backstop))
=============================================================================
