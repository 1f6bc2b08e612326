---------------------------- MODULE HotspotAtQuit ----------------------------
(***************************************************************************)
(* The quit policy over the hotspot as it is: QuitPolicy, which is written *)
(* against the authority's promise, put together with Hotspot, which keeps *)
(* it.  src/main/main.js hands the one lifecycle to both the renderer's    *)
(* IPC handlers and the quit policy; `owned', which the policy reads in    *)
(* its snapshot(), is the manager's active backend.                        *)
(*                                                                         *)
(* A step that changes what the authority shows (a phase, the ownership,   *)
(* the word of readiness, the mark) is a step of both: a press, a          *)
(* decision's stop or an answer on the side of QuitPolicy, the command     *)
(* that begins or ends on the side of Hotspot.  The rest of each side --   *)
(* the prompts, the drive program, race day; the commands under way, the   *)
(* probe, Windows Settings -- moves alone.                                 *)
(***************************************************************************)
EXTENDS Hotspot

CONSTANT AllowLeave     \* allowLeaveHotspot: a development build

ASSUME AtQuitAssumption == AllowLeave \in BOOLEAN

VARIABLES mapper, bringUp, decision, mapperWasAsked, gone, answers   \* as in QuitPolicy

Policy == INSTANCE QuitPolicy WITH owned <- (active # "none")

policyVars == <<mapper, bringUp, decision, mapperWasAsked, gone, answers>>
atQuitVars == <<hotspotVars, policyVars>>

\* What lifecycle.snapshot() tells the policy.
snapshot == <<phase, active # "none", readiness, interrupted>>

AtQuitInit == HotspotInit /\ Policy!QuitInit

\* The operator's hands in Windows Settings reach the radio after the app is
\* gone; nothing else of Hotspot does, and nothing comes before a settled
\* promise.
HotspotStep ==
    /\ HotspotNext
    /\ snapshot' = snapshot
    /\ Policy!Served \/ OperatorSwitchesOff \/ OperatorSwitchesOn
    /\ UNCHANGED policyVars

PolicyStep == UNCHANGED hotspotVars /\ Policy!QuitNext

SharedStep ==
    /\ HotspotNext
    /\ snapshot' # snapshot
    /\ Policy!QuitNext

AtQuitNext == HotspotStep \/ PolicyStep \/ SharedStep

AtQuitSpec == AtQuitInit /\ [][AtQuitNext]_atQuitVars

\* A settled promise continues.
ContinueStep ==
    \/ UNCHANGED hotspotVars /\ (Policy!SettledForMapper \/ Policy!SettledForHotspot)
    \/ (StopHotspot \/ UNCHANGED hotspotVars) /\ Policy!SettledForStop

\* A command of the hotspot goes on or answers, and the policy with it when the
\* authority shows it.
CommandStep ==
    /\ CommandAnswers
    /\ IF snapshot' = snapshot THEN Policy!Served /\ UNCHANGED policyVars
                               ELSE Policy!QuitNext

\* Every command answers, because runCommand kills one that does not.  Nothing
\* is assumed of the operator or of a prompt.
ContinueFair == WF_atQuitVars(ContinueStep)
AnswerFair == WF_atQuitVars(CommandStep)

AtQuitFairSpec == AtQuitSpec /\ ContinueFair /\ AnswerFair
-----------------------------------------------------------------------------
\* What a quit leaves behind: a hotspot this app owns, or one it raised and the
\* machine still broadcasts, is left on by the operator's word only -- or no
\* prompt could be shown, or the answer of a command was lost and the app never
\* knew.  (quitPolicy.js:1-12, 128-156; hotspot.js:200-201)
NothingIsLeftOn ==
    gone => /\ active # "none" => answers \cap {"leave", "broken"} # {}
            /\ radio = "ours" => answers \cap {"leave", "broken"} # {}
                                 \/ "lost-answer" \in mishaps

\* The policy and the hotspot never wait for each other: a promise that is
\* settled has a way on, and a command under way too, which a prompt, a quit
\* being decided or a window that closes does not take from it.
\* (quitPolicy.js:79-167; hotspot.js:206-383)
ContinueCanGoOn == ENABLED <<ContinueStep>>_atQuitVars
CommandCanGoOn == ENABLED <<CommandStep>>_atQuitVars

QuitCanGoOn ==
    /\ Policy!Continues => ContinueCanGoOn
    /\ command # "none" => CommandCanGoOn

\* Only the operator keeps a quit waiting: as long as the awaited commands
\* answer, a decision that is not at a prompt gets to one or ends, whatever the
\* radio and the checks do meanwhile.  (quitPolicy.js:8-12; hotspotLifecycle.js:113-118)
DecisionEnds ==
    decision \in Policy!Waits \cup {"stop"} ~> decision \in Policy!Prompts \cup {"none"}
=============================================================================
