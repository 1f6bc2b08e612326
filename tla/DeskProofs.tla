----------------------------- MODULE DeskProofs -----------------------------
(***************************************************************************)
(* Theorems about the parts of the main process that MCDesk puts together: *)
(* the window around the quit policy, which the app always has to ask in;  *)
(* the adapter monitor; and the composition itself, in which the parts     *)
(* keep everything that is proved of each.  Decisions and losses are       *)
(* followed to their end, under the fairness of the specifications and the *)
(* invariants that say what can move.                                      *)
(***************************************************************************)
EXTENDS MCDesk, MapperRunnerProofs, QuitPolicyProofs

USE DEF authorityVars, otherVars, quitVars, quitPolicyVars

-----------------------------------------------------------------------------
\* The page is open from the end of the start to the end of the app.
PageIsOpen == booted /\ ~gone => "page" \in windows

\* NoWindowlessApp: the app has a window to ask in, through every close, second
\* launch and decision.  (appWiring.js:449-461, 483-493, 525-531)
THEOREM TheAppHasItsWindow == WindowSpec => []NoWindowlessApp
<1>1. WindowInit => PageIsOpen
  BY DEF WindowInit, PageIsOpen
<1>2. PageIsOpen /\ [WindowNext]_windowVars => PageIsOpen'
  <2> SUFFICES ASSUME PageIsOpen, [WindowNext]_windowVars PROVE PageIsOpen'
    OBVIOUS
  <2>1. CASE Boot
    BY <2>1 DEF Boot, PageIsOpen
  <2>2. CASE SecondLaunch
    BY <2>2 DEF SecondLaunch, PageIsOpen
  <2>3. CASE CloseWindow
    BY <2>3, GoneIsGone DEF CloseWindow, OnDecision, PageIsOpen, QuitNext
  <2>4. CASE CloseBlank
    <3>1. RequestQuit \/ UNCHANGED quitPolicyVars
      BY <2>4 DEF CloseBlank
    <3>2. gone => gone'
      BY <3>1, GoneIsGone DEF QuitNext
    <3> QED
      BY <2>4, <3>2 DEF CloseBlank, PageIsOpen
  <2>5. CASE Decides
    BY <2>5, GoneIsGone DEF Decides, OnDecision, PageIsOpen, QuitNext
  <2>6. CASE WorldGoesOn
    BY <2>6, GoneIsGone DEF WorldGoesOn, windowOnlyVars, PageIsOpen, QuitNext
  <2>7. CASE UNCHANGED windowVars
    BY <2>7 DEF windowVars, windowOnlyVars, PageIsOpen
  <2> QED
    BY <2>1, <2>2, <2>3, <2>4, <2>5, <2>6, <2>7 DEF WindowNext
<1>3. PageIsOpen => NoWindowlessApp
  BY DEF PageIsOpen, NoWindowlessApp
<1> QED
  BY <1>1, <1>2, <1>3, PTL DEF WindowSpec
-----------------------------------------------------------------------------
\* The window and its flags have their types.
THEOREM WindowTypeCorrect == WindowSpec => []WindowTypeOK
<1> USE DEF WindowTypeOK
<1>1. WindowInit => WindowTypeOK
  BY DEF WindowInit, QuitInit, AuthorityInit, QuitTypeOK, AuthorityTypeOK, Readiness
<1>2. WindowTypeOK /\ [WindowNext]_windowVars => WindowTypeOK'
  <2> SUFFICES ASSUME WindowTypeOK, [WindowNext]_windowVars PROVE WindowTypeOK'
    OBVIOUS
  <2>1. CASE Boot
    BY <2>1, TypeStep DEF Boot
  <2>2. CASE SecondLaunch
    BY <2>2, TypeStep DEF SecondLaunch
  <2>3. CASE CloseWindow
    <3>1. QuitTypeOK'
      BY <2>3, TypeStep DEF CloseWindow, QuitNext
    <3> QED
      BY <2>3, <3>1 DEF CloseWindow, OnDecision, QuitTypeOK
  <2>4. CASE CloseBlank
    <3>1. QuitTypeOK'
      BY <2>4, TypeStep DEF CloseBlank, QuitNext
    <3> QED
      BY <2>4, <3>1 DEF CloseBlank, QuitTypeOK
  <2>5. CASE Decides
    <3>1. QuitTypeOK'
      BY <2>5, TypeStep DEF Decides, QuitNext
    <3> QED
      BY <2>5, <3>1 DEF Decides, OnDecision, QuitTypeOK
  <2>6. CASE WorldGoesOn
    BY <2>6, TypeStep DEF WorldGoesOn, windowOnlyVars, QuitNext
  <2>7. CASE UNCHANGED windowVars
    BY <2>7, TypeStep DEF windowVars, windowOnlyVars
  <2> QED
    BY <2>1, <2>2, <2>3, <2>4, <2>5, <2>6, <2>7 DEF WindowNext
<1> QED
  BY <1>1, <1>2, PTL DEF WindowSpec

\* The window only follows: each of its steps is one of the quit policy, or
\* leaves the policy alone.
THEOREM WindowFollowsThePolicy == WindowSpec => QuitSpec
<1>1. WindowInit => QuitInit
  BY DEF WindowInit
<1>2. [WindowNext]_windowVars => [QuitNext]_quitPolicyVars
  BY DEF WindowNext, Boot, SecondLaunch, CloseWindow, CloseBlank, Decides, WorldGoesOn,
         windowVars, QuitNext
<1> QED
  BY <1>1, <1>2, PTL DEF WindowSpec, QuitSpec
-----------------------------------------------------------------------------
(***************************************************************************)
(* Only the operator keeps a quit waiting, from the fair specification and *)
(* DecisionCanMove, the invariant that says what is enabled, which is      *)
(* TLC's.  A wait ends because nothing is served between the settling of   *)
(* the hotspot and the step that was waiting for it; and the steps of a    *)
(* decision only go forward.                                               *)
(***************************************************************************)
\* If a decision that waits can go on, every decision gets to a question or ends,
\* whatever the hotspot, the drive program and the windows do meanwhile.
THEOREM DecisionsMoveOn == WindowFairSpec /\ []DecisionCanMove => DecisionMovesOn
<1>1. QuitTypeOK /\ DecisionCanMove /\ ~Asking
        => /\ Settled \/ Deciding("stop") => PolicyCanMove
           /\ ~Settled /\ ~Deciding("stop") => HotspotCanSettle
  BY DEF QuitTypeOK, DecisionCanMove, Continues, Deciding, Asking
<1>2. HotspotSettles => Settled'
  BY DEF HotspotSettles, EndStart, EndStop, Settled
<1>3. WindowSpec => [][QuitNext]_quitPolicyVars /\ []QuitTypeOK
  BY WindowFollowsThePolicy, QuitTypeCorrect, PTL DEF QuitSpec
<1>4. WindowSpec /\ PolicyFair /\ SettleFair /\ []DecisionCanMove => (~Asking ~> Asking)
  BY <1>1, <1>2, <1>3, DecisionsGoForward, DecisionsStay, DecisionIsSomewhere, PTL
  DEF PolicyFair, SettleFair, PolicyCanMove, HotspotCanSettle, DecisionGoesOn,
      DecisionWaits, DecidingOnce
<1>5. WindowSpec /\ (~Asking ~> Asking) => DecisionMovesOn
  <2>1. QuitTypeOK => (decision \in Waits \cup {"stop"} => ~Asking)
    BY DEF Asking, Waits, Prompts
  <2>2. Asking => decision \in Prompts \cup {"none"}
    BY DEF Asking
  <2> QED
    BY <1>3, <2>1, <2>2, PTL DEF DecisionMovesOn
<1> QED
  BY <1>4, <1>5 DEF WindowFairSpec, WindowFairness
-----------------------------------------------------------------------------
\* The monitor's last word, its listing and the session's marks have their types.
THEOREM MonitorTypeCorrect == MonitorSpec => []MonitorTypeOK
<1> USE DEF MonitorTypeOK, Listing, Failed, Phases
<1>1. ASSUME MonitorInit PROVE MonitorTypeOK
  BY <1>1 DEF MonitorInit
<1>2. MonitorTypeOK /\ [MonitorNext]_monitorVars => MonitorTypeOK'
  <2> SUFFICES ASSUME MonitorTypeOK, [MonitorNext]_monitorVars PROVE MonitorTypeOK'
    OBVIOUS
  <2>1. CASE BeginPoll
    BY <2>1 DEF BeginPoll
  <2>2. CASE Netsh
    BY <2>2 DEF Netsh
  <2>3. CASE EndPoll
    <3>1. marked' \in BOOLEAN /\ requested' \in BOOLEAN
      BY <2>3 DEF EndPoll, Coordinate
    <3> QED
      BY <2>3, <3>1 DEF EndPoll
  <2>4. ASSUME NEW a \in Adapter, Plug(a) \/ Pull(a) PROVE MonitorTypeOK'
    BY <2>4 DEF Plug, Pull
  <2>5. CASE HotspotMoves
    BY <2>5 DEF HotspotMoves, HotspotStarts, HotspotStops, HotspotIsLive, HotspotIsDown
  <2>6. CASE UNCHANGED monitorVars
    BY <2>6 DEF monitorVars
  <2> QED
    BY <2>1, <2>2, <2>3, <2>4, <2>5, <2>6 DEF MonitorNext
<1> QED
  BY <1>1, <1>2, PTL DEF MonitorSpec

(***************************************************************************)
(* A loss is marked, from the fair specification and PollsGoOn, the        *)
(* invariant that says what is enabled, which is TLC's.  The poll that is  *)
(* under way when the last adapter goes may have looked before; the one    *)
(* after it finds none, and the last listing still has one: a difference.  *)
(***************************************************************************)
Stage(x) == poll = x
Overlooking == LooksAlive /\ last.ifaces # {} /\ last.ok # "no"
Over == ~LooksAlive \/ last.ok = "no"
FoundNone == poll = "answered" /\ listing.ifaces = {}

\* While a loss is overlooked the poll goes from stage to stage, a listing finds
\* nothing, and the comparison that follows it ends the overlooking.
LEMMA PollsFindTheLoss ==
    ASSUME MonitorTypeOK, Overlooking, [MonitorNext]_monitorVars
    PROVE  /\ BeginPoll => Stage("asked")'
           /\ Netsh => FoundNone'
           /\ EndPoll => Stage("idle")'
           /\ EndPoll /\ FoundNone => Over'
           /\ Overlooking' \/ Over'
           /\ FoundNone => FoundNone' \/ Over'
           /\ Stage("idle") => Stage("idle")' \/ Stage("asked")' \/ Over'
           /\ Stage("asked") => Stage("asked")' \/ FoundNone' \/ Over'
           /\ Stage("answered") => Stage("answered")' \/ Stage("idle")' \/ Over'
<1> USE DEF MonitorTypeOK, Overlooking, Over, LooksAlive, Stage, FoundNone
<1>1. /\ BeginPoll => Stage("idle") /\ Stage("asked")'
      /\ Netsh => Stage("asked") /\ FoundNone'
      /\ EndPoll => Stage("answered") /\ Stage("idle")'
  BY DEF BeginPoll, Netsh, EndPoll, Failed
<1>2. ASSUME EndPoll, FoundNone PROVE Over'
  <2>1. ~SameSignature
    BY <1>2 DEF SameSignature
  <2>2. /\ last' = [ok |-> listing.ok, ifaces |-> listing.ifaces,
                    removed |-> last.ifaces \ listing.ifaces]
        /\ Coordinate(last')
    BY <1>2, <2>1 DEF EndPoll
  <2>3. CASE listing.ok = "no"
    BY <2>2, <2>3
  <2>4. CASE listing.ok = "yes"
    BY <1>2, <2>2, <2>4 DEF Coordinate
  <2> QED
    BY <2>3, <2>4 DEF Listing
<1>3. ASSUME EndPoll PROVE Overlooking' \/ Over'
  <2>1. CASE listing.ifaces = {}
    BY <1>1, <1>2, <1>3, <2>1
  <2>2. CASE listing.ifaces # {}
    BY <1>3, <2>2 DEF EndPoll
  <2> QED
    BY <2>1, <2>2
<1>4. CASE BeginPoll \/ Netsh
  BY <1>1, <1>4 DEF BeginPoll, Netsh, EndPoll
<1>5. CASE EndPoll
  BY <1>1, <1>2, <1>3, <1>5 DEF BeginPoll, Netsh, EndPoll
<1>6. ASSUME NEW a \in Adapter, Plug(a) \/ Pull(a) PROVE Over'
  BY <1>6 DEF Plug, Pull
<1>7. CASE HotspotMoves
  <2>1. Over'
    BY <1>7 DEF HotspotMoves, HotspotStarts, HotspotStops, HotspotIsLive, HotspotIsDown
  <2> QED
    BY <1>1, <2>1
<1>8. CASE UNCHANGED monitorVars
  BY <1>8 DEF monitorVars, BeginPoll, Netsh, EndPoll
<1> QED
  BY <1>1, <1>4, <1>5, <1>6, <1>7, <1>8 DEF MonitorNext

\* If polls go on, an adapter of the last listing that goes, the last one, does
\* not leave the hotspot looking live, unless a listing fails: for any adapters
\* that come and go, whenever, and any starts and stops.
THEOREM LossesAreMarked == MonitorFairSpec /\ []PollsGoOn => LossIsMarked
<1> DEFINE BeginCan == ENABLED <<BeginPoll>>_monitorVars
           NetshCan == ENABLED <<Netsh>>_monitorVars
           EndCan == ENABLED <<EndPoll>>_monitorVars
<1>1. MonitorTypeOK /\ Overlooking /\ [MonitorNext]_monitorVars
        => /\ BeginPoll => Stage("asked")'
           /\ Netsh => FoundNone'
           /\ EndPoll => Stage("idle")'
           /\ EndPoll /\ FoundNone => Over'
           /\ Overlooking' \/ Over'
           /\ FoundNone => FoundNone' \/ Over'
           /\ Stage("idle") => Stage("idle")' \/ Stage("asked")' \/ Over'
           /\ Stage("asked") => Stage("asked")' \/ FoundNone' \/ Over'
           /\ Stage("answered") => Stage("answered")' \/ Stage("idle")' \/ Over'
  BY PollsFindTheLoss
<1>2. MonitorTypeOK => /\ Stage("idle") \/ Stage("asked") \/ Stage("answered")
                       /\ Stage("idle") => ~Stage("asked") /\ ~Stage("answered")
                       /\ Stage("asked") => ~Stage("answered")
                       /\ FoundNone => Stage("answered")
  BY DEF MonitorTypeOK, Stage, FoundNone
<1>3. PollsGoOn => /\ Stage("idle") => BeginCan
                   /\ Stage("asked") => NetshCan
                   /\ Stage("answered") => EndCan
  BY DEF PollsGoOn, Stage
<1>4. MonitorFairSpec /\ []PollsGoOn => (Overlooking ~> Over)
  BY <1>1, <1>2, <1>3, MonitorTypeCorrect, PTL
  DEF MonitorFairSpec, MonitorSpec, MonitorFairness, TimerFair, NetshFair, AnswerFair
<1>5. /\ LooksAlive /\ last.ifaces # {} => Overlooking \/ Over
      /\ Over => ~LooksAlive \/ last.ok = "no"
  BY DEF Overlooking, Over
<1> QED
  BY <1>4, <1>5, PTL DEF LossIsMarked
-----------------------------------------------------------------------------
\* In the composition every part behaves as it does alone, so that whatever is
\* proved of the parts holds of what DeskSpec's run explores.
THEOREM DeskKeepsItsParts == DeskSpec => RunnerSpec /\ WindowSpec /\ MonitorSpec
<1>1. DeskInit => RunnerInit /\ WindowInit /\ MonitorInit
  BY DEF DeskInit
<1>2. [DeskNext]_deskVars => [RunnerNext]_runnerVars /\ [WindowNext]_windowVars
                               /\ [MonitorNext]_monitorVars
  BY DEF DeskNext, RunnerPart, WindowPart, MonitorPart, deskVars
<1> QED
  BY <1>1, <1>2, PTL DEF DeskSpec, RunnerSpec, WindowSpec, MonitorSpec

\* DeskTypeOK: every variable of the three parts keeps its type.
THEOREM DeskTypeCorrect == DeskSpec => []DeskTypeOK
BY DeskKeepsItsParts, TypeCorrect, WindowTypeCorrect, MonitorTypeCorrect, PTL DEF DeskTypeOK
=============================================================================
