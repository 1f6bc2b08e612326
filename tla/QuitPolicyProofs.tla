-------------------------- MODULE QuitPolicyProofs --------------------------
(***************************************************************************)
(* Theorems about QuitPolicy, for both builds: what the quit owes the      *)
(* operator for the hotspot and for the drive program, and the order in    *)
(* which a decision goes on.  Nothing of what is around the policy is      *)
(* named here, so that they can be used where its variables are other      *)
(* modules' (DeskProofs, HotspotAtQuitProofs).                             *)
(***************************************************************************)
EXTENDS QuitPolicy, TLAPS

USE DEF authorityVars, otherVars, quitVars, quitPolicyVars

\* Every step of the policy keeps the types.
LEMMA TypeStep == QuitTypeOK /\ [QuitNext]_quitPolicyVars => QuitTypeOK'
<1> SUFFICES ASSUME QuitTypeOK, [QuitNext]_quitPolicyVars
             PROVE  QuitTypeOK'
  OBVIOUS
<1> USE QuitAssumption
    DEF QuitTypeOK, AuthorityTypeOK, Readiness, Waits, Prompts
<1>1. CASE RequestQuit
  BY <1>1 DEF RequestQuit, Quit, AskNext
<1>2. CASE SettledForMapper
  BY <1>2 DEF SettledForMapper, AskNext, MapperAlive
<1>3. CASE MapperAnswered \/ MapperAgainAnswered \/ PromptBreaks
  <2>1. CASE MapperAnswered
    <3>1. UNCHANGED <<authorityVars, otherVars, gone, mapperWasAsked>>
      BY <2>1 DEF MapperAnswered, Stay, AskNext
    <3>2. decision' \in {"settle-hotspot", "none"}
      BY <2>1 DEF MapperAnswered, Stay, AskNext
    <3>3. answers' = answers \cup {"quit-mapper"} \/ answers' = answers \cup {"cancel"}
      BY <2>1 DEF MapperAnswered
    <3>4. answers' \subseteq {"quit-mapper", "leave", "stop", "stopped", "cancel", "broken"}
      BY <3>3
    <3>5. AuthorityTypeOK' /\ mapperWasAsked' \in BOOLEAN /\ gone' \in BOOLEAN
      BY <3>1
    <3> QED
      BY <3>1, <3>2, <3>4, <3>5
  <2>2. CASE MapperAgainAnswered
    BY <2>2 DEF MapperAgainAnswered, Quit, Stay
  <2>3. CASE PromptBreaks
    BY <2>3 DEF PromptBreaks, Quit
  <2> QED
    BY <1>3, <2>1, <2>2, <2>3
<1>4. CASE SettledForHotspot \/ HotspotAnswered
  <2>1. CASE SettledForHotspot
    BY <2>1 DEF SettledForHotspot, AfterHotspot, Quit, AskNext
  <2>2. CASE /\ UNCHANGED <<authorityVars, mapperWasAsked>>
             /\ Stay /\ answers' = answers \cup {"cancel"}
    BY <2>2 DEF Stay
  <2>3. CASE /\ UNCHANGED <<authorityVars, mapperWasAsked>>
             /\ AfterHotspot /\ answers' = answers \cup {"leave"}
    BY <2>3 DEF AfterHotspot, Quit, AskNext
  <2>4. CASE /\ UNCHANGED <<authorityVars, mapperWasAsked>>
             /\ AskNext("settle-stop") /\ answers' = answers \cup {"stop"}
    BY <2>4 DEF AskNext
  <2> QED
    BY <1>4, <2>1, <2>2, <2>3, <2>4 DEF HotspotAnswered
<1>5. CASE SettledForStop
  BY <1>5 DEF SettledForStop, BeginStop, AfterHotspot, Quit, AskNext
<1>6. CASE StopSucceeds \/ StopDoesNot
  BY <1>6 DEF StopSucceeds, StopDoesNot, EndStop, AfterHotspot, Quit, Stay, AskNext
<1>7. CASE PressStartHotspot \/ PressStopHotspot
  <2>1. CASE PressStartHotspot
    BY <2>1 DEF PressStartHotspot, BeginStart
  <2>2. CASE PressStopHotspot
    BY <2>2 DEF PressStopHotspot, BeginStop
  <2> QED
    BY <1>7, <2>1, <2>2
<1>8. CASE PressRaceDay \/ PressStopRaceDay
  <2>1. CASE PressRaceDay
    <3>1. CASE UNCHANGED authorityVars
      BY <2>1, <3>1 DEF PressRaceDay
    <3>2. CASE BeginStart
      BY <2>1, <3>2 DEF PressRaceDay, BeginStart
    <3> QED
      BY <2>1, <3>1, <3>2 DEF PressRaceDay
  <2>2. CASE PressStopRaceDay
    BY <2>2 DEF PressStopRaceDay
  <2> QED
    BY <1>8, <2>1, <2>2
<1>9. CASE HotspotSettles
  <2>1. UNCHANGED <<otherVars, quitVars>> /\ (EndStart \/ EndStop)
    BY <1>9 DEF HotspotSettles
  <2>2. AuthorityTypeOK'
    BY <2>1 DEF EndStart, EndStop
  <2> QED
    BY <2>1, <2>2
<1>10. CASE HotspotIsWatched
  BY <1>10 DEF HotspotIsWatched, Verify, Interrupt
<1>11. CASE RaceDayGoesOn \/ ProgramEnds \/ ProgramWouldNotStop
  <2>1. CASE RaceDayGoesOn
    BY <2>1 DEF RaceDayGoesOn
  <2>2. CASE ProgramEnds
    BY <2>2 DEF ProgramEnds
  <2>3. CASE ProgramWouldNotStop
    BY <2>3 DEF ProgramWouldNotStop
  <2> QED
    BY <1>11, <2>1, <2>2, <2>3
<1>12. CASE UNCHANGED quitPolicyVars
  BY <1>12
<1> QED
  BY <1>1, <1>2, <1>3, <1>4, <1>5, <1>6, <1>7, <1>8, <1>9, <1>10, <1>11, <1>12
     DEF QuitNext, PolicyNext, AnswerNext, WorldNext

\* Every variable keeps its type.
THEOREM QuitTypeCorrect == QuitSpec => []QuitTypeOK
<1>1. QuitInit => QuitTypeOK
  BY DEF QuitInit, AuthorityInit, QuitTypeOK, AuthorityTypeOK, Readiness
<1> QED
  BY <1>1, TypeStep, PTL DEF QuitSpec
-----------------------------------------------------------------------------
\* What decide() has behind it at each of its awaits: a quit that was allowed
\* is not being decided any more; a drive program that was asked about was
\* agreed to; the questions about the hotspot and after it are asked over a
\* settled one, and the last question over one that is not owned or that the
\* operator chose to leave on; and the app is gone from a settled hotspot only.
DecisionInv ==
    /\ gone => decision = "none"
    /\ mapperWasAsked /\ decision \in {"settle-hotspot", "hotspot", "settle-stop", "stop"}
         => "quit-mapper" \in answers
    /\ gone \/ decision \in Prompts => Settled
    /\ decision = "stop" => phase = "stopping"
    /\ decision = "mapper-again" => (owned => "leave" \in answers)

QuitInv == DecisionInv /\ HotspotIsNotAbandoned

\* After decideHotspot() said quit, over a hotspot that is settled and not
\* abandoned, the app is gone or asks about the drive program.
LEMMA AfterHotspotKeeps ==
    ASSUME QuitInv, ~gone, AfterHotspot, Settled', owned' => "leave" \in answers'
    PROVE  QuitInv'
<1> USE DEF QuitInv, DecisionInv, HotspotIsNotAbandoned, Prompts
<1>1. CASE Quit
  BY <1>1 DEF Quit
<1>2. CASE AskNext("mapper-again")
  BY <1>2 DEF AskNext
<1> QED
  BY <1>1, <1>2 DEF AfterHotspot

\* Every step of the policy, the operator and the world keeps what is behind
\* each await.
LEMMA QuitStep == QuitTypeOK /\ QuitInv /\ [QuitNext]_quitPolicyVars => QuitInv'
<1> SUFFICES ASSUME QuitTypeOK, QuitInv, [QuitNext]_quitPolicyVars
             PROVE  QuitInv'
  OBVIOUS
<1> USE DEF QuitInv, DecisionInv, HotspotIsNotAbandoned, Settled, Prompts
<1>1. CASE RequestQuit
  BY <1>1 DEF RequestQuit, Quit, AskNext, Reachable, Served
<1>2. CASE SettledForMapper
  BY <1>2 DEF SettledForMapper, AskNext
<1>3. CASE MapperAnswered
  BY <1>3 DEF MapperAnswered, AskNext, Stay
<1>4. CASE SettledForHotspot
  <2>1. CASE owned /\ AskNext("hotspot")
    BY <1>4, <2>1 DEF SettledForHotspot, AskNext
  <2>2. CASE ~owned /\ AfterHotspot
    BY <1>4, <2>2, AfterHotspotKeeps DEF SettledForHotspot
  <2> QED
    BY <1>4, <2>1, <2>2 DEF SettledForHotspot
<1>5. CASE HotspotAnswered
  <2>1. CASE Stay /\ answers' = answers \cup {"cancel"}
    BY <1>5, <2>1 DEF HotspotAnswered, Stay
  <2>2. CASE AfterHotspot /\ answers' = answers \cup {"leave"}
    BY <1>5, <2>2, AfterHotspotKeeps DEF HotspotAnswered
  <2>3. CASE AskNext("settle-stop") /\ answers' = answers \cup {"stop"}
    BY <1>5, <2>3 DEF HotspotAnswered, AskNext
  <2> QED
    BY <1>5, <2>1, <2>2, <2>3 DEF HotspotAnswered
<1>6. CASE SettledForStop
  <2>1. CASE owned /\ AskNext("stop")
    BY <1>6, <2>1 DEF SettledForStop, AskNext, BeginStop
  <2>2. CASE ~owned /\ AfterHotspot /\ UNCHANGED authorityVars
    BY <1>6, <2>2, AfterHotspotKeeps DEF SettledForStop
  <2> QED
    BY <1>6, <2>1, <2>2 DEF SettledForStop
<1>7. CASE StopSucceeds
  <2>1. Settled' /\ owned' = FALSE
    BY <1>7 DEF StopSucceeds, EndStop
  <2> QED
    BY <1>7, <2>1, AfterHotspotKeeps DEF StopSucceeds
<1>8. CASE StopDoesNot
  BY <1>8 DEF StopDoesNot, Stay, EndStop
<1>9. CASE MapperAgainAnswered
  BY <1>9 DEF MapperAgainAnswered, Quit, Stay
<1>10. CASE PromptBreaks
  BY <1>10 DEF PromptBreaks, Quit
<1>11. CASE PressStartHotspot \/ PressStopHotspot \/ PressRaceDay
  <2>1. ~gone /\ decision \notin Prompts /\ UNCHANGED <<quitVars, owned>>
    BY <1>11 DEF PressStartHotspot, PressStopHotspot, PressRaceDay, Reachable, Served,
                 BeginStart, BeginStop
  <2>2. phase = "stopping" => phase' = "stopping"
    BY <1>11 DEF PressStartHotspot, PressStopHotspot, PressRaceDay, BeginStart, BeginStop
  <2> QED
    BY <2>1, <2>2
<1>12. CASE PressStopRaceDay \/ RaceDayGoesOn \/ ProgramEnds \/ ProgramWouldNotStop
  BY <1>12 DEF PressStopRaceDay, RaceDayGoesOn, ProgramEnds, ProgramWouldNotStop
<1>13. CASE HotspotSettles
  BY <1>13 DEF HotspotSettles, EndStart, EndStop, Served
<1>14. CASE HotspotIsWatched
  BY <1>14 DEF HotspotIsWatched, Verify, Interrupt
<1>15. CASE UNCHANGED quitPolicyVars
  BY <1>15
<1> QED
  BY <1>1, <1>2, <1>3, <1>4, <1>5, <1>6, <1>7, <1>8, <1>9, <1>10, <1>11, <1>12,
     <1>13, <1>14, <1>15 DEF QuitNext, PolicyNext, AnswerNext, WorldNext

\* What is behind each await holds of every reachable state.
LEMMA QuitHolds == QuitSpec => []QuitInv
<1>1. QuitInit => QuitInv
  BY DEF QuitInit, AuthorityInit, QuitInv, DecisionInv, HotspotIsNotAbandoned, Prompts, Settled
<1> QED
  BY <1>1, QuitStep, QuitTypeCorrect, PTL DEF QuitSpec

\* The app never leaves a hotspot it started behind without the operator's word.
THEOREM QuitLeavesNoHotspot == QuitSpec => []HotspotIsNotAbandoned
BY QuitHolds, PTL DEF QuitInv

\* No quit stops a drive program the operator did not agree to stop.
THEOREM QuitAsksBeforeStopping == QuitSpec => ProgramIsNotStoppedUnasked
<1>1. QuitTypeOK /\ DecisionInv /\ [QuitNext]_quitPolicyVars
        => [mapper = "up" /\ gone' /\ ~gone
                => answers' \cap {"quit-mapper", "broken"} # {}]_quitPolicyVars
  <2> SUFFICES ASSUME QuitTypeOK, DecisionInv, QuitNext, mapper = "up", gone', ~gone
               PROVE  \E a \in answers' : a \in {"quit-mapper", "broken"}
    OBVIOUS
  <2>1. ASSUME AfterHotspot,
               decision \in {"settle-hotspot", "hotspot", "settle-stop", "stop"},
               answers \subseteq answers'
        PROVE  "quit-mapper" \in answers'
    BY <2>1 DEF AfterHotspot, AskNext, MapperAlive, DecisionInv
  <2>2. CASE RequestQuit
    BY <2>2 DEF RequestQuit, AskNext, MapperAlive
  <2>3. CASE SettledForMapper
    BY <2>3 DEF SettledForMapper, AskNext
  <2>4. CASE SettledForHotspot
    BY <2>1, <2>4 DEF SettledForHotspot, AskNext
  <2>5. CASE SettledForStop
    BY <2>1, <2>5 DEF SettledForStop, AskNext
  <2>6. CASE StopSucceeds
    BY <2>1, <2>6 DEF StopSucceeds
  <2>7. CASE StopDoesNot
    BY <2>7 DEF StopDoesNot, Stay
  <2>8. CASE MapperAnswered
    BY <2>8 DEF MapperAnswered, AskNext, Stay
  <2>9. CASE HotspotAnswered
    BY <2>1, <2>9 DEF HotspotAnswered, AskNext, Stay
  <2>10. CASE MapperAgainAnswered \/ PromptBreaks
    BY <2>10 DEF MapperAgainAnswered, PromptBreaks, Stay
  <2>11. CASE WorldNext
    BY <2>11 DEF WorldNext, PressStartHotspot, PressStopHotspot, PressRaceDay,
       PressStopRaceDay, HotspotSettles, HotspotIsWatched, RaceDayGoesOn, ProgramEnds,
       ProgramWouldNotStop
  <2> QED
    BY <2>2, <2>3, <2>4, <2>5, <2>6, <2>7, <2>8, <2>9, <2>10, <2>11
       DEF QuitNext, PolicyNext, AnswerNext
<1> QED
  BY <1>1, QuitHolds, QuitTypeCorrect, PTL
     DEF QuitSpec, QuitInv, ProgramIsNotStoppedUnasked
-----------------------------------------------------------------------------
\* Nothing brings the app back.
LEMMA GoneIsGone == QuitNext => (gone => gone')
<1> SUFFICES ASSUME QuitNext PROVE gone => gone'
  OBVIOUS
<1>1. CASE RequestQuit
  BY <1>1 DEF RequestQuit, Quit, AskNext
<1>2. CASE PolicyNext
  BY <1>2 DEF PolicyNext, SettledForMapper, SettledForHotspot, SettledForStop, StopSucceeds,
              StopDoesNot, AfterHotspot, Quit, Stay, AskNext
<1>3. CASE AnswerNext
  BY <1>3 DEF AnswerNext, MapperAnswered, HotspotAnswered, MapperAgainAnswered, PromptBreaks,
              AfterHotspot, Quit, Stay, AskNext
<1>4. CASE WorldNext
  BY <1>4 DEF WorldNext, PressStartHotspot, PressStopHotspot, PressRaceDay,
       PressStopRaceDay, HotspotSettles, HotspotIsWatched, RaceDayGoesOn, ProgramEnds,
       ProgramWouldNotStop
<1> QED
  BY <1>1, <1>2, <1>3, <1>4 DEF QuitNext

Deciding(x) == decision = x
Asking == decision \in Prompts \cup {"none"}

\* A decision goes to a later await, to a question or to its end.
DecisionGoesOn ==
    \/ Deciding("settle") /\ (Deciding("settle-hotspot") \/ Asking)'
    \/ Deciding("settle-hotspot") /\ Asking'
    \/ Deciding("settle-stop") /\ (Deciding("stop") \/ Asking)'
    \/ Deciding("stop") /\ Asking'

\* It stays where it is, and what it waits for stays settled.
DecisionWaits ==
    /\ Deciding("settle") => Deciding("settle")'
    /\ Deciding("settle-hotspot") => Deciding("settle-hotspot")'
    /\ Deciding("settle-stop") => Deciding("settle-stop")'
    /\ Deciding("stop") => Deciding("stop")'
    /\ ~Deciding("stop") /\ Settled => Settled'

\* It is at one await, at a question or at its end.
DecidingOnce ==
    /\ Deciding("settle") \/ Deciding("settle-hotspot") \/ Deciding("settle-stop")
         \/ Deciding("stop") \/ Asking
    /\ Asking => ~Deciding("settle") /\ ~Deciding("settle-hotspot")
                   /\ ~Deciding("settle-stop") /\ ~Deciding("stop")
    /\ Deciding("settle") => ~Deciding("settle-hotspot")
    /\ Deciding("settle") \/ Deciding("settle-hotspot")
         => ~Deciding("settle-stop") /\ ~Deciding("stop")
    /\ Deciding("settle-stop") => ~Deciding("stop")

\* A step of the decision is one forward.
LEMMA DecisionsGoForward == PolicyNext => DecisionGoesOn
<1> USE DEF DecisionGoesOn, Deciding, Asking, Prompts
<1>1. ASSUME AfterHotspot PROVE Asking'
  BY <1>1 DEF AfterHotspot, AskNext, Quit
<1>2. CASE SettledForMapper
  BY <1>2 DEF SettledForMapper, AskNext
<1>3. CASE SettledForHotspot
  BY <1>1, <1>3 DEF SettledForHotspot, AskNext
<1>4. CASE SettledForStop
  BY <1>1, <1>4 DEF SettledForStop, AskNext
<1>5. CASE StopSucceeds
  BY <1>1, <1>5 DEF StopSucceeds
<1>6. CASE StopDoesNot
  BY <1>6 DEF StopDoesNot, Stay
<1> QED
  BY <1>2, <1>3, <1>4, <1>5, <1>6 DEF PolicyNext

\* Nothing else touches a decision that is not at a question, and nothing at all
\* is served before one whose wait is over.
LEMMA DecisionsStay ==
    QuitTypeOK /\ ~Asking /\ [QuitNext]_quitPolicyVars => PolicyNext \/ DecisionWaits
<1> SUFFICES ASSUME QuitTypeOK, ~Asking, [QuitNext]_quitPolicyVars, ~PolicyNext
             PROVE  decision' = decision /\ (Continues => Settled')
  BY DEF QuitTypeOK, DecisionWaits, Deciding, Asking, Continues
<1> USE DEF Asking
<1>1. CASE RequestQuit
  BY <1>1 DEF RequestQuit
<1>2. CASE AnswerNext
  BY <1>2 DEF AnswerNext, MapperAnswered, HotspotAnswered, MapperAgainAnswered, PromptBreaks,
     Prompts
<1>3. CASE WorldNext
  <2>1. decision' = decision
    BY <1>3 DEF WorldNext, PressStartHotspot, PressStopHotspot, PressRaceDay,
       PressStopRaceDay, HotspotSettles, HotspotIsWatched, RaceDayGoesOn, ProgramEnds,
       ProgramWouldNotStop
  <2>2. ~Continues
    BY <1>3 DEF WorldNext, PressStartHotspot, PressStopHotspot, PressRaceDay,
       PressStopRaceDay, HotspotSettles, HotspotIsWatched, RaceDayGoesOn, ProgramEnds,
       ProgramWouldNotStop, Reachable, Served
  <2> QED
    BY <2>1, <2>2
<1>4. CASE UNCHANGED quitPolicyVars
  BY <1>4 DEF Continues, Settled
<1> QED
  BY <1>1, <1>2, <1>3, <1>4 DEF QuitNext

\* The awaits of a decision tell themselves apart.
LEMMA DecisionIsSomewhere == QuitTypeOK => DecidingOnce
BY DEF QuitTypeOK, DecidingOnce, Deciding, Asking, Waits, Prompts

\* A decision awaits a stop of its own only while the hotspot is in transit.
LEMMA StopIsInTransit == QuitInv => (Deciding("stop") => ~Settled)
BY DEF QuitInv, DecisionInv, Deciding, Settled
=============================================================================
