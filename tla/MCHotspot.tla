----------------------------- MODULE MCHotspot ------------------------------
(* The hotspot alone: two sessions, so that one may leave its checks to the  *)
(* next, and two checks, so that one may supersede the other.  And the       *)
(* hotspot under a quit: one session, because no start is accepted while a   *)
(* quit waits for one, and one check, which is enough to answer late.  The   *)
(* capability probe only reads, and nothing else reads what it found: it     *)
(* rests under a quit.  Race day brings up the drive program there, with a   *)
(* hotspot that START has raised; its own START and STOP RACE DAY are those  *)
(* of WindowLifecycle, which MCDesk follows.                                 *)
(*                                                                           *)
(* The fairness is that of both.  It leaves out a quit that ends beside a    *)
(* check under way, which then answers to nobody; nothing that must happen   *)
(* is still to happen there, the decision and the transitions have ended.    *)
EXTENDS HotspotAtQuit

VARIABLE part       \* "alone" | "quit"

AlonePart == part = "alone" /\ HotspotNext /\ UNCHANGED policyVars

\* Bounds of a quit.  (A start leaves room for the check its success begins.)
OneSession == session' <= 1 /\ epoch' <= 1
OneBringUp == bringUp' # "hotspot" /\ (mapper' = "stopping" => gone')

QuitPart == part = "quit" /\ AtQuitNext /\ OneSession /\ OneBringUp /\ UNCHANGED probeVars

MCHotspotNext == (AlonePart \/ QuitPart) /\ UNCHANGED part

MCHotspotInit == AtQuitInit /\ part \in {"alone", "quit"}

MCHotspotSpec ==
    /\ MCHotspotInit /\ [][MCHotspotNext]_<<part, atQuitVars>>
    /\ HotspotFairness /\ ContinueFair /\ AnswerFair
=============================================================================
