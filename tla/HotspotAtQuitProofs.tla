------------------------- MODULE HotspotAtQuitProofs -------------------------
(***************************************************************************)
(* Theorems about the quit over the hotspot as it is, for both builds and  *)
(* any number of sessions and checks.  The composition is an               *)
(* implementation of each of its sides, so what HotspotProofs and          *)
(* QuitPolicyProofs prove of them holds of it; what is left on at the end  *)
(* takes both.  The theorems about the policy are instantiated as the      *)
(* policy is, with the manager's active backend for `owned'.               *)
(***************************************************************************)
EXTENDS HotspotAtQuit, HotspotProofs

P == INSTANCE QuitPolicyProofs WITH owned <- (active # "none")

\* The policy of the model is the policy of the theorems.
LEMMA SamePolicy ==
    /\ Policy!QuitInit => P!QuitInit
    /\ Policy!QuitNext => P!QuitNext
    /\ Policy!PolicyNext => P!PolicyNext
    /\ Policy!Continues <=> P!Continues
<1>1. Policy!QuitInit => P!QuitInit
  BY DEF Policy!QuitInit, P!QuitInit, Policy!AuthorityInit, P!AuthorityInit
<1> USE DEF Policy!Settled, P!Settled, Policy!Continues, P!Continues, Policy!Served,
            P!Served, Policy!Reachable, P!Reachable, Policy!MapperAlive,
            P!MapperAlive, Policy!Waits, P!Waits, Policy!Prompts, P!Prompts,
            Policy!Quit, P!Quit, Policy!Stay, P!Stay, Policy!AskNext, P!AskNext,
            Policy!AfterHotspot, P!AfterHotspot, Policy!authorityVars,
            P!authorityVars, Policy!otherVars, P!otherVars, Policy!quitVars,
            P!quitVars, Policy!BeginStart, P!BeginStart, Policy!EndStart,
            P!EndStart, Policy!BeginStop, P!BeginStop, Policy!EndStop, P!EndStop,
            Policy!Verify, P!Verify, Policy!Interrupt, P!Interrupt
<1>2. Policy!QuitNext => P!QuitNext
  BY DEF Policy!QuitNext, P!QuitNext, Policy!PolicyNext, P!PolicyNext,
         Policy!AnswerNext, P!AnswerNext, Policy!WorldNext, P!WorldNext,
         Policy!RequestQuit, P!RequestQuit, Policy!SettledForMapper,
         P!SettledForMapper, Policy!SettledForHotspot, P!SettledForHotspot,
         Policy!SettledForStop, P!SettledForStop, Policy!StopSucceeds,
         P!StopSucceeds, Policy!StopDoesNot, P!StopDoesNot, Policy!MapperAnswered,
         P!MapperAnswered, Policy!HotspotAnswered, P!HotspotAnswered,
         Policy!MapperAgainAnswered, P!MapperAgainAnswered, Policy!PromptBreaks,
         P!PromptBreaks, Policy!PressStartHotspot, P!PressStartHotspot,
         Policy!PressStopHotspot, P!PressStopHotspot, Policy!PressRaceDay,
         P!PressRaceDay, Policy!PressStopRaceDay, P!PressStopRaceDay,
         Policy!HotspotSettles, P!HotspotSettles, Policy!HotspotIsWatched,
         P!HotspotIsWatched, Policy!RaceDayGoesOn, P!RaceDayGoesOn,
         Policy!ProgramEnds, P!ProgramEnds, Policy!ProgramWouldNotStop,
         P!ProgramWouldNotStop
<1>3. Policy!PolicyNext => P!PolicyNext
  BY DEF Policy!PolicyNext, P!PolicyNext, Policy!SettledForMapper, P!SettledForMapper,
         Policy!SettledForHotspot, P!SettledForHotspot, Policy!SettledForStop,
         P!SettledForStop, Policy!StopSucceeds, P!StopSucceeds, Policy!StopDoesNot,
         P!StopDoesNot
<1>4. Policy!Continues <=> P!Continues
  OBVIOUS
<1> QED
  BY <1>1, <1>2, <1>3, <1>4

\* Each side of the composition takes its own steps only.
LEMMA HotspotSide == AtQuitSpec => HotspotSpec
<1>1. AtQuitInit => HotspotInit
  BY DEF AtQuitInit
<1>2. [AtQuitNext]_atQuitVars => [HotspotNext]_hotspotVars
  BY DEF AtQuitNext, HotspotStep, PolicyStep, SharedStep, atQuitVars
<1> QED
  BY <1>1, <1>2, PTL DEF AtQuitSpec, HotspotSpec

\* What leaves the snapshot and the policy's own variables alone is no step of it.
LEMMA PolicySide == AtQuitSpec => P!QuitSpec
<1>1. AtQuitInit => P!QuitInit
  BY SamePolicy DEF AtQuitInit
<1>2. [AtQuitNext]_atQuitVars => [P!QuitNext]_(P!quitPolicyVars)
  <2> SUFFICES ASSUME [AtQuitNext]_atQuitVars, ~P!QuitNext
               PROVE  UNCHANGED P!quitPolicyVars
    OBVIOUS
  <2>1. snapshot' = snapshot /\ UNCHANGED policyVars
    <3>1. CASE UNCHANGED atQuitVars
      BY <3>1 DEF atQuitVars, snapshot, hotspotVars, managerVars, lifecycleVars
    <3>2. CASE AtQuitNext
      BY <3>2, SamePolicy DEF AtQuitNext, HotspotStep, PolicyStep, SharedStep
    <3> QED
      BY <3>1, <3>2
  <2> QED
    BY <2>1 DEF snapshot, policyVars, P!quitPolicyVars, P!authorityVars, P!otherVars,
                P!quitVars
<1> QED
  BY <1>1, <1>2, PTL DEF AtQuitSpec, P!QuitSpec

\* Behind the quit the hotspot is still the lifecycle over the manager, and over the
\* hotspot the quit is still the policy: what is proved of either holds of both
\* together, ProgramIsNotStoppedUnasked and ImplementsAuthority among it.
\* (main.js:388-405)
THEOREM BothSidesAreKept == AtQuitSpec => HotspotSpec /\ P!QuitSpec
BY HotspotSide, PolicySide

\* The policy's promises, on the composition.
LEMMA PolicyHolds == AtQuitSpec => []P!QuitTypeOK /\ []P!QuitInv
BY PolicySide, P!QuitTypeCorrect, P!QuitHolds, AtQuitAssumption, PTL

\* What the operator was not asked about is not left on: the app is gone only from
\* a settled hotspot, which has no command under way, so what it raised it owns
\* (OursIsOwned), and what it owns it has asked about (HotspotIsNotAbandoned).
THEOREM NothingIsLeft == AtQuitSpec => []NothingIsLeftOn
<1>1. P!QuitInv /\ WordsTypeOK /\ OwnershipInv /\ OursIsOwned => NothingIsLeftOn
  BY DEF P!QuitInv, P!DecisionInv, P!Settled, P!HotspotIsNotAbandoned, WordsTypeOK,
         OwnershipInv, OursIsOwned, NothingIsLeftOn
<1> QED
  BY <1>1, HotspotSide, PolicyHolds, WordsTyped, OwnershipHolds, OursStaysOwned, PTL

-----------------------------------------------------------------------------
(***************************************************************************)
(* Only the operator keeps a quit waiting, from the fair composition and   *)
(* QuitCanGoOn, the invariant that says what is enabled, which is TLC's.   *)
(* QuitPolicy has to assume that a transition settles; here it does,       *)
(* because the commands answer.                                            *)
(***************************************************************************)

\* While the commands answer, every transition settles, quit or no quit.
LEMMA TransitsLandAtQuit ==
    AtQuitSpec /\ AnswerFair /\ []QuitCanGoOn => (InTransit ~> Landed)
<1>1. QuitCanGoOn => (~Awaiting("none") => CommandCanGoOn)
  BY DEF QuitCanGoOn, Awaiting
<1>2. CommandStep => CommandAnswers
  BY DEF CommandStep
<1>3. AtQuitSpec => []WordsTypeOK /\ []OwnershipInv /\ [][HotspotNext]_hotspotVars
  BY HotspotSide, WordsTyped, OwnershipHolds, PTL DEF HotspotSpec
<1> QED
  BY <1>1, <1>2, <1>3, AnswersGoForward, CommandsStay, NoCommandIsLanded, PTL
  DEF AnswerFair, CommandCanGoOn, GoesForward, StaysWhereItIs, OneIsAwaited

\* A step that continues a settled promise is one of the decision.
LEMMA ContinuingDecides == ContinueStep => P!PolicyNext
<1>1. ContinueStep => Policy!PolicyNext
  BY DEF ContinueStep, Policy!PolicyNext
<1> QED
  BY <1>1, SamePolicy

\* If what is settled can continue and what is under way can answer, every decision
\* gets to a question or ends, whatever the radio, the checks, the drive program and
\* the operator in Windows Settings do meanwhile.
THEOREM DecisionsEnd == AtQuitFairSpec /\ []QuitCanGoOn => DecisionEnds
<1>1. QuitCanGoOn /\ P!QuitTypeOK /\ ~P!Asking
        => (~P!Deciding("stop") /\ P!Settled => ContinueCanGoOn)
  BY SamePolicy DEF QuitCanGoOn, P!QuitTypeOK, P!Asking, P!Deciding, P!Continues
<1>2. WordsTypeOK => /\ ~P!Settled => InTransit
                     /\ Landed <=> P!Settled
  BY DEF WordsTypeOK, P!Settled, InTransit, Landed
<1>3. AtQuitSpec => [][P!QuitNext]_(P!quitPolicyVars) /\ []WordsTypeOK
  BY PolicySide, HotspotSide, WordsTyped, PTL DEF P!QuitSpec
<1>4. AtQuitSpec /\ ContinueFair /\ (InTransit ~> Landed) /\ []QuitCanGoOn
        => (~P!Asking ~> P!Asking)
  BY <1>1, <1>2, <1>3, PolicyHolds, ContinuingDecides, P!DecisionsGoForward,
     P!DecisionsStay, P!DecisionIsSomewhere, P!StopIsInTransit, AtQuitAssumption, PTL
  DEF ContinueFair, ContinueCanGoOn, P!DecisionGoesOn, P!DecisionWaits, P!DecidingOnce
<1>5. AtQuitSpec /\ (~P!Asking ~> P!Asking) => DecisionEnds
  <2>1. decision \in Policy!Waits \cup {"stop"} => ~P!Asking
    BY DEF P!Asking, P!Prompts, Policy!Waits
  <2>2. P!Asking => decision \in Policy!Prompts \cup {"none"}
    BY DEF P!Asking, P!Prompts, Policy!Prompts
  <2> QED
    BY <2>1, <2>2, PTL DEF DecisionEnds
<1> QED
  BY <1>4, <1>5, TransitsLandAtQuit, PTL DEF AtQuitFairSpec
=============================================================================
