----------------------------- MODULE MCCockpit ------------------------------
(***************************************************************************)
(* Seven parts of the renderer for one run of TLC: the steps of the setup  *)
(* flow, the PIT WALL step, joining a network from it, the SEAT FIT step,  *)
(* the controller in the page, the video style with the player, and the    *)
(* mirrors of the main process's authorities.  No action of one reads a    *)
(* variable of another (what one sees of another is modelled in its own    *)
(* module), so a behaviour follows one part while the others rest, each at *)
(* one of its initial states: their states add up instead of multiplying.  *)
(***************************************************************************)
EXTENDS SetupFlow, PitWall, WifiJoin, SeatFit, UiNav, VideoStyle, Mirrors

CONSTANTS a1, a2, n1, n2, j1, j2, s1, s2

VARIABLE part   \* the part that is followed

CockpitTypeOK ==
    /\ FlowTypeOK
    /\ WallTypeOK
    /\ JoinTypeOK
    /\ SeatTypeOK
    /\ NavTypeOK
    /\ VideoTypeOK
    /\ MirrorTypeOK

CockpitInit ==
    /\ part \in {"flow", "wall", "join", "seat", "nav", "video", "mirror"}
    /\ FlowInit /\ (part # "flow" => plugged)
    /\ WallInit /\ (part # "wall" => plan = "join" /\ saved = NoAdapter)
    /\ JoinInit
    /\ SeatInit /\ (part # "seat" => posture = [d \in Slot |-> "gone"] /\ pedals = "combined")
    /\ NavInit /\ (part # "nav" => pad = Gone)
    /\ VideoInit /\ (part # "video" => stored = "drive")
    /\ MirrorInit /\ (part # "mirror" => mirror = "raceday")

FlowPart ==
    /\ part = "flow" /\ FlowNext
    /\ UNCHANGED <<part, wallVars, joinVars, seatVars, navVars, videoVars, mirrorVars>>
WallPart ==
    /\ part = "wall" /\ WallNext
    /\ UNCHANGED <<part, flowVars, joinVars, seatVars, navVars, videoVars, mirrorVars>>
JoinPart ==
    /\ part = "join" /\ JoinNext
    /\ UNCHANGED <<part, flowVars, wallVars, seatVars, navVars, videoVars, mirrorVars>>
SeatPart ==
    /\ part = "seat" /\ SeatNext
    /\ UNCHANGED <<part, flowVars, wallVars, joinVars, navVars, videoVars, mirrorVars>>
NavPart ==
    /\ part = "nav" /\ NavNext
    /\ UNCHANGED <<part, flowVars, wallVars, joinVars, seatVars, videoVars, mirrorVars>>
VideoPart ==
    /\ part = "video" /\ VideoNext
    /\ UNCHANGED <<part, flowVars, wallVars, joinVars, seatVars, navVars, mirrorVars>>
MirrorPart ==
    /\ part = "mirror" /\ MirrorNext
    /\ UNCHANGED <<part, flowVars, wallVars, joinVars, seatVars, navVars, videoVars>>

CockpitNext ==
    \/ FlowPart \/ WallPart \/ JoinPart \/ SeatPart \/ NavPart \/ VideoPart \/ MirrorPart

CockpitSpec ==
    /\ CockpitInit
    /\ [][CockpitNext]_<<part, flowVars, wallVars, joinVars, seatVars, navVars, videoVars, mirrorVars>>
=============================================================================
