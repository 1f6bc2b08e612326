--------------------------- MODULE HotspotProofs ----------------------------
(***************************************************************************)
(* Theorems about Hotspot, for every number of sessions and checks and     *)
(* whatever goes wrong: type correctness, ownership that the phase shows,  *)
(* the implementation of HotspotAuthority, and the two facts about whose   *)
(* hotspot is whose, each up to the mishap that breaks it.  The last       *)
(* section is about what has to end: every transition, and every word of   *)
(* verification.                                                           *)
(***************************************************************************)
EXTENDS Hotspot, TLAPS

USE DEF managerVars, lifecycleVars, probeVars, historyVars, hotspotVars, Mishap

\* The words of the model keep their types.
LEMMA WordsTyped == HotspotSpec => []WordsTypeOK
<1>1. HotspotInit => WordsTypeOK
  BY DEF HotspotInit, WordsTypeOK
<1>2. WordsTypeOK /\ [HotspotNext]_hotspotVars => WordsTypeOK'
  <2> SUFFICES ASSUME WordsTypeOK, [HotspotNext]_hotspotVars
               PROVE  WordsTypeOK'
    OBVIOUS
  <2> USE DEF WordsTypeOK
  <2>1. CASE StartHotspot
    BY <2>1 DEF StartHotspot
  <2>2. CASE ProbeAnswers
    <3>1. PICK hosted \in BOOLEAN : fallback' = hosted
      BY <2>2 DEF ProbeAnswers
    <3>2. UNCHANGED lifecycleVars \/ (StartFailed /\ interrupted' = interrupted)
      BY <2>2 DEF ProbeAnswers
    <3>3. command' \in {"mobile", "hosted", "none"}
      BY <2>2 DEF ProbeAnswers, StartFailed
    <3>4. UNCHANGED <<radio, active, probeVars>>
      BY <2>2 DEF ProbeAnswers
    <3>5. CASE UNCHANGED lifecycleVars
      BY <3>1, <3>3, <3>4, <3>5
    <3>6. CASE StartFailed /\ interrupted' = interrupted
      BY <3>1, <3>4, <3>6 DEF StartFailed
    <3> QED
      BY <3>2, <3>5, <3>6
  <2>3. CASE RadioComesUp
    BY <2>3 DEF RadioComesUp
  <2>4. CASE MobileAnswersOk
    BY <2>4 DEF MobileAnswersOk, StartSucceeded, BeginCheck
  <2>5. CASE MobileAnswersMismatch
    BY <2>5 DEF MobileAnswersMismatch
  <2>6. CASE MobileAnswersAlreadyOn
    BY <2>6 DEF MobileAnswersAlreadyOn, StartFailed
  <2>7. CASE MobileFails
    <3>1. UNCHANGED <<radio, fallback, probeVars>>
      BY <2>7 DEF MobileFails
    <3>2. \/ command' = "hosted" /\ UNCHANGED <<active, lifecycleVars>>
          \/ StartFailed /\ interrupted' = interrupted
      BY <2>7 DEF MobileFails
    <3> QED
      BY <3>1, <3>2 DEF StartFailed
  <2>8. CASE HostedAnswersOk
    BY <2>8 DEF HostedAnswersOk, StartSucceeded, BeginCheck
  <2>9. CASE HostedFails
    BY <2>9 DEF HostedFails, StartFailed
  <2>10. CASE StopHotspot
    BY <2>10 DEF StopHotspot
  <2>11. CASE StopTakesEffect
    BY <2>11 DEF StopTakesEffect
  <2>12. CASE StopAnswersOk
    BY <2>12 DEF StopAnswersOk
  <2>13. CASE StopFails
    BY <2>13 DEF StopFails
  <2>14. CASE VerifyHotspot
    BY <2>14 DEF VerifyHotspot, BeginCheck
  <2>15. ASSUME NEW k \in checks, CheckAnswers(k)
        PROVE  WordsTypeOK'
    BY <2>15 DEF CheckIsCurrent, CheckAnswers
  <2>16. CASE MarkInterrupted
    BY <2>16 DEF MarkInterrupted
  <2>17. CASE Probe
    BY <2>17 DEF Probe
  <2>18. CASE ProbeReads
    BY <2>18 DEF ProbeReads
  <2>19. CASE ProbeCompletes
    BY <2>19 DEF ProbeCompletes
  <2>20. CASE OperatorSwitchesOff
    BY <2>20 DEF OperatorSwitchesOff
  <2>21. CASE OperatorSwitchesOn
    BY <2>21 DEF OperatorSwitchesOn
  <2>22. CASE UNCHANGED hotspotVars
    BY <2>22
  <2> QED
    BY <2>1, <2>2, <2>3, <2>4, <2>5, <2>6, <2>7, <2>8, <2>9, <2>10, <2>11,
       <2>12, <2>13, <2>14, <2>15, <2>16, <2>17, <2>18, <2>19, <2>20, <2>21,
       <2>22
       DEF HotspotNext
<1> QED
  BY <1>1, <1>2, PTL DEF HotspotSpec

\* The counters stay within their bounds, every check in flight carries an epoch
\* and a session that were drawn, and what went wrong is one of the mishaps.
LEMMA TalliesTyped == HotspotSpec => []TalliesTypeOK
<1>1. HotspotInit => TalliesTypeOK
  BY HotspotAssumption DEF HotspotInit, TalliesTypeOK
<1>2. TalliesTypeOK /\ [HotspotNext]_hotspotVars => TalliesTypeOK'
  <2> SUFFICES ASSUME TalliesTypeOK, [HotspotNext]_hotspotVars
               PROVE  TalliesTypeOK'
    OBVIOUS
  <2> USE HotspotAssumption DEF TalliesTypeOK, Check, Mishaps
  <2>1. CASE StartHotspot
    BY <2>1 DEF StartHotspot
  <2>2. CASE ProbeAnswers
    BY <2>2 DEF ProbeAnswers, StartFailed
  <2>3. CASE RadioComesUp
    BY <2>3 DEF RadioComesUp
  <2>4. CASE MobileAnswersOk
    BY <2>4 DEF MobileAnswersOk, StartSucceeded, BeginCheck
  <2>5. CASE MobileAnswersMismatch
    BY <2>5 DEF MobileAnswersMismatch
  <2>6. CASE MobileAnswersAlreadyOn
    BY <2>6 DEF MobileAnswersAlreadyOn, StartFailed
  <2>7. CASE MobileFails
    BY <2>7 DEF MobileFails, StartFailed
  <2>8. CASE HostedAnswersOk
    BY <2>8 DEF HostedAnswersOk, StartSucceeded, BeginCheck
  <2>9. CASE HostedFails
    BY <2>9 DEF HostedFails, StartFailed
  <2>10. CASE StopHotspot
    BY <2>10 DEF StopHotspot
  <2>11. CASE StopTakesEffect
    BY <2>11 DEF StopTakesEffect
  <2>12. CASE StopAnswersOk
    BY <2>12 DEF StopAnswersOk
  <2>13. CASE StopFails
    BY <2>13 DEF StopFails
  <2>14. CASE VerifyHotspot
    BY <2>14 DEF VerifyHotspot, BeginCheck
  <2>15. ASSUME NEW k \in checks, CheckAnswers(k)
        PROVE  TalliesTypeOK'
    BY <2>15 DEF CheckIsCurrent, CheckAnswers
  <2>16. CASE MarkInterrupted
    BY <2>16 DEF MarkInterrupted
  <2>17. CASE Probe
    BY <2>17 DEF Probe
  <2>18. CASE ProbeReads
    BY <2>18 DEF ProbeReads
  <2>19. CASE ProbeCompletes
    BY <2>19 DEF ProbeCompletes
  <2>20. CASE OperatorSwitchesOff
    BY <2>20 DEF OperatorSwitchesOff
  <2>21. CASE OperatorSwitchesOn
    BY <2>21 DEF OperatorSwitchesOn
  <2>22. CASE UNCHANGED hotspotVars
    BY <2>22
  <2> QED
    BY <2>1, <2>2, <2>3, <2>4, <2>5, <2>6, <2>7, <2>8, <2>9, <2>10, <2>11,
       <2>12, <2>13, <2>14, <2>15, <2>16, <2>17, <2>18, <2>19, <2>20, <2>21,
       <2>22
       DEF HotspotNext
<1> QED
  BY <1>1, <1>2, PTL DEF HotspotSpec

\* Every variable keeps its type.
THEOREM TypeCorrect == HotspotSpec => []HotspotTypeOK
BY WordsTyped, TalliesTyped, PTL DEF HotspotTypeOK
-----------------------------------------------------------------------------
\* What ownership rests on: a start's commands run exactly while STARTING, a
\* stop's exactly while STOPPING, and a start enters with no readiness word.
OwnershipInv ==
    /\ OwnershipIsVisible
    /\ command \in {"probe", "mobile", "mobile-up", "hosted", "hosted-up"}
         <=> phase = "starting"
    /\ command \in {"stop", "stop-done"} <=> phase = "stopping"
    /\ phase \in {"inactive", "starting"} => readiness = "idle"

\* The strengthened invariant holds of every reachable state.
LEMMA OwnershipHolds == HotspotSpec => []OwnershipInv
<1>1. HotspotInit => OwnershipInv
  BY DEF HotspotInit, OwnershipInv, OwnershipIsVisible
<1>2. WordsTypeOK /\ OwnershipInv /\ [HotspotNext]_hotspotVars => OwnershipInv'
  <2> SUFFICES ASSUME WordsTypeOK, OwnershipInv, [HotspotNext]_hotspotVars
               PROVE  OwnershipInv'
    OBVIOUS
  <2> USE DEF WordsTypeOK, OwnershipInv, OwnershipIsVisible
  <2>1. CASE StartHotspot
    BY <2>1 DEF StartHotspot
  <2>2. CASE ProbeAnswers
    BY <2>2 DEF ProbeAnswers, StartFailed
  <2>3. CASE RadioComesUp
    BY <2>3 DEF RadioComesUp
  <2>4. CASE MobileAnswersOk
    BY <2>4 DEF MobileAnswersOk, StartSucceeded, BeginCheck
  <2>5. CASE MobileAnswersMismatch
    BY <2>5 DEF MobileAnswersMismatch
  <2>6. CASE MobileAnswersAlreadyOn
    BY <2>6 DEF MobileAnswersAlreadyOn, StartFailed
  <2>7. CASE MobileFails
    BY <2>7 DEF MobileFails, StartFailed
  <2>8. CASE HostedAnswersOk
    BY <2>8 DEF HostedAnswersOk, StartSucceeded, BeginCheck
  <2>9. CASE HostedFails
    BY <2>9 DEF HostedFails, StartFailed
  <2>10. CASE StopHotspot
    BY <2>10 DEF StopHotspot
  <2>11. CASE StopTakesEffect
    BY <2>11 DEF StopTakesEffect
  <2>12. CASE StopAnswersOk
    BY <2>12 DEF StopAnswersOk
  <2>13. CASE StopFails
    BY <2>13 DEF StopFails
  <2>14. CASE VerifyHotspot
    BY <2>14 DEF VerifyHotspot, BeginCheck
  <2>15. ASSUME NEW k \in checks, CheckAnswers(k)
        PROVE  OwnershipInv'
    BY <2>15 DEF CheckIsCurrent, CheckAnswers
  <2>16. CASE MarkInterrupted
    BY <2>16 DEF MarkInterrupted
  <2>17. CASE Probe
    BY <2>17 DEF Probe
  <2>18. CASE ProbeReads
    BY <2>18 DEF ProbeReads
  <2>19. CASE ProbeCompletes
    BY <2>19 DEF ProbeCompletes
  <2>20. CASE OperatorSwitchesOff
    BY <2>20 DEF OperatorSwitchesOff
  <2>21. CASE OperatorSwitchesOn
    BY <2>21 DEF OperatorSwitchesOn
  <2>22. CASE UNCHANGED hotspotVars
    BY <2>22
  <2> QED
    BY <2>1, <2>2, <2>3, <2>4, <2>5, <2>6, <2>7, <2>8, <2>9, <2>10, <2>11,
       <2>12, <2>13, <2>14, <2>15, <2>16, <2>17, <2>18, <2>19, <2>20, <2>21,
       <2>22
       DEF HotspotNext
<1> QED
  BY <1>1, <1>2, WordsTyped, PTL DEF HotspotSpec

\* The manager owns a hotspot exactly while the lifecycle says LIVE or STOPPING.
THEOREM OwnershipShows == HotspotSpec => []OwnershipIsVisible
BY OwnershipHolds, PTL DEF OwnershipInv
-----------------------------------------------------------------------------
\* Until an answer is lost, a hotspot this app raised is owned or its start is
\* about to answer; and a stop that took effect left none.
OursInv == "lost-answer" \notin mishaps =>
    /\ radio = "ours" => active # "none" \/ command \in {"mobile-up", "hosted-up"}
    /\ command = "stop-done" => radio # "ours"

\* As long as every command's answer arrives, what this app broadcasts between
\* transitions is its own to stop.
THEOREM OursStaysOwned == HotspotSpec => []OursIsOwned
<1>1. HotspotInit => OursInv
  BY DEF HotspotInit, OursInv
<1>2. WordsTypeOK /\ OwnershipInv /\ OursInv /\ [HotspotNext]_hotspotVars => OursInv'
  <2> SUFFICES ASSUME WordsTypeOK, OwnershipInv, OursInv, [HotspotNext]_hotspotVars
               PROVE  OursInv'
    OBVIOUS
  <2> USE DEF WordsTypeOK, OwnershipInv, OwnershipIsVisible, OursInv
  <2>1. CASE StartHotspot
    BY <2>1 DEF StartHotspot
  <2>2. CASE ProbeAnswers
    BY <2>2 DEF ProbeAnswers, StartFailed
  <2>3. CASE RadioComesUp
    BY <2>3 DEF RadioComesUp
  <2>4. CASE MobileAnswersOk
    BY <2>4 DEF MobileAnswersOk, StartSucceeded, BeginCheck
  <2>5. CASE MobileAnswersMismatch
    BY <2>5 DEF MobileAnswersMismatch
  <2>6. CASE MobileAnswersAlreadyOn
    BY <2>6 DEF MobileAnswersAlreadyOn, StartFailed
  <2>7. CASE MobileFails
    BY <2>7 DEF MobileFails, StartFailed
  <2>8. CASE HostedAnswersOk
    BY <2>8 DEF HostedAnswersOk, StartSucceeded, BeginCheck
  <2>9. CASE HostedFails
    BY <2>9 DEF HostedFails, StartFailed
  <2>10. CASE StopHotspot
    BY <2>10 DEF StopHotspot
  <2>11. CASE StopTakesEffect
    BY <2>11 DEF StopTakesEffect
  <2>12. CASE StopAnswersOk
    BY <2>12 DEF StopAnswersOk
  <2>13. CASE StopFails
    BY <2>13 DEF StopFails
  <2>14. CASE VerifyHotspot
    BY <2>14 DEF VerifyHotspot, BeginCheck
  <2>15. ASSUME NEW k \in checks, CheckAnswers(k)
        PROVE  OursInv'
    BY <2>15 DEF CheckIsCurrent, CheckAnswers
  <2>16. CASE MarkInterrupted
    BY <2>16 DEF MarkInterrupted
  <2>17. CASE Probe
    BY <2>17 DEF Probe
  <2>18. CASE ProbeReads
    BY <2>18 DEF ProbeReads
  <2>19. CASE ProbeCompletes
    BY <2>19 DEF ProbeCompletes
  <2>20. CASE OperatorSwitchesOff
    BY <2>20 DEF OperatorSwitchesOff
  <2>21. CASE OperatorSwitchesOn
    BY <2>21 DEF OperatorSwitchesOn
  <2>22. CASE UNCHANGED hotspotVars
    BY <2>22
  <2> QED
    BY <2>1, <2>2, <2>3, <2>4, <2>5, <2>6, <2>7, <2>8, <2>9, <2>10, <2>11,
       <2>12, <2>13, <2>14, <2>15, <2>16, <2>17, <2>18, <2>19, <2>20, <2>21,
       <2>22
       DEF HotspotNext
<1>3. OursInv => OursIsOwned
  BY DEF OursInv, OursIsOwned
<1> QED
  BY <1>1, <1>2, <1>3, WordsTyped, OwnershipHolds, PTL DEF HotspotSpec
-----------------------------------------------------------------------------
\* Until somebody's hands are in Windows Settings while this app has a hotspot,
\* what is owned is not foreign.
NotForeignInv == "meddling" \notin mishaps =>
    /\ active # "none" => radio # "external"
    /\ command \in {"mobile-up", "hosted-up"} => radio = "ours"

\* A stop never switches off a hotspot somebody else started.
THEOREM ForeignIsLeftAlone == HotspotSpec => NeverStopsForeign
<1>1. HotspotInit => NotForeignInv
  BY DEF HotspotInit, NotForeignInv
<1>2. WordsTypeOK /\ NotForeignInv /\ [HotspotNext]_hotspotVars => NotForeignInv'
  <2> SUFFICES ASSUME WordsTypeOK, NotForeignInv, [HotspotNext]_hotspotVars
               PROVE  NotForeignInv'
    OBVIOUS
  <2> USE DEF WordsTypeOK, NotForeignInv
  <2>1. CASE StartHotspot
    BY <2>1 DEF StartHotspot
  <2>2. CASE ProbeAnswers
    BY <2>2 DEF ProbeAnswers, StartFailed
  <2>3. CASE RadioComesUp
    BY <2>3 DEF RadioComesUp
  <2>4. CASE MobileAnswersOk
    BY <2>4 DEF MobileAnswersOk, StartSucceeded, BeginCheck
  <2>5. CASE MobileAnswersMismatch
    BY <2>5 DEF MobileAnswersMismatch
  <2>6. CASE MobileAnswersAlreadyOn
    BY <2>6 DEF MobileAnswersAlreadyOn, StartFailed
  <2>7. CASE MobileFails
    BY <2>7 DEF MobileFails, StartFailed
  <2>8. CASE HostedAnswersOk
    BY <2>8 DEF HostedAnswersOk, StartSucceeded, BeginCheck
  <2>9. CASE HostedFails
    BY <2>9 DEF HostedFails, StartFailed
  <2>10. CASE StopHotspot
    BY <2>10 DEF StopHotspot
  <2>11. CASE StopTakesEffect
    BY <2>11 DEF StopTakesEffect
  <2>12. CASE StopAnswersOk
    BY <2>12 DEF StopAnswersOk
  <2>13. CASE StopFails
    BY <2>13 DEF StopFails
  <2>14. CASE VerifyHotspot
    BY <2>14 DEF VerifyHotspot, BeginCheck
  <2>15. ASSUME NEW k \in checks, CheckAnswers(k)
        PROVE  NotForeignInv'
    BY <2>15 DEF CheckIsCurrent, CheckAnswers
  <2>16. CASE MarkInterrupted
    BY <2>16 DEF MarkInterrupted
  <2>17. CASE Probe
    BY <2>17 DEF Probe
  <2>18. CASE ProbeReads
    BY <2>18 DEF ProbeReads
  <2>19. CASE ProbeCompletes
    BY <2>19 DEF ProbeCompletes
  <2>20. CASE OperatorSwitchesOff
    BY <2>20 DEF OperatorSwitchesOff
  <2>21. CASE OperatorSwitchesOn
    BY <2>21 DEF OperatorSwitchesOn
  <2>22. CASE UNCHANGED hotspotVars
    BY <2>22
  <2> QED
    BY <2>1, <2>2, <2>3, <2>4, <2>5, <2>6, <2>7, <2>8, <2>9, <2>10, <2>11,
       <2>12, <2>13, <2>14, <2>15, <2>16, <2>17, <2>18, <2>19, <2>20, <2>21,
       <2>22
       DEF HotspotNext
<1>3. OwnershipInv /\ NotForeignInv /\ [HotspotNext]_hotspotVars
        => [StopTakesEffect /\ "meddling" \notin mishaps
               => radio # "external" \/ radio' = radio]_hotspotVars
  BY DEF StopTakesEffect, OwnershipInv, OwnershipIsVisible, NotForeignInv
<1> QED
  BY <1>1, <1>2, <1>3, WordsTyped, OwnershipHolds, PTL DEF HotspotSpec, NeverStopsForeign
-----------------------------------------------------------------------------
\* The interruption mark belongs to a session, and a LIVE hotspot without an
\* error has a readiness word.
MarkInv ==
    /\ interrupted => phase \in {"live", "stopping"}
    /\ LiveIsJudged

\* What a session is marked with and judged by holds of every reachable state.
LEMMA MarkHolds == HotspotSpec => []MarkInv
<1>1. HotspotInit => MarkInv
  BY DEF HotspotInit, MarkInv, LiveIsJudged
<1>2. OwnershipInv /\ MarkInv /\ [HotspotNext]_hotspotVars => MarkInv'
  <2> SUFFICES ASSUME OwnershipInv, MarkInv, [HotspotNext]_hotspotVars
               PROVE  MarkInv'
    OBVIOUS
  <2> USE DEF OwnershipInv, OwnershipIsVisible, MarkInv, LiveIsJudged
  <2>1. CASE StartHotspot
    BY <2>1 DEF StartHotspot
  <2>2. CASE ProbeAnswers
    BY <2>2 DEF ProbeAnswers, StartFailed
  <2>3. CASE RadioComesUp
    BY <2>3 DEF RadioComesUp
  <2>4. CASE MobileAnswersOk
    BY <2>4 DEF MobileAnswersOk, StartSucceeded, BeginCheck
  <2>5. CASE MobileAnswersMismatch
    BY <2>5 DEF MobileAnswersMismatch
  <2>6. CASE MobileAnswersAlreadyOn
    BY <2>6 DEF MobileAnswersAlreadyOn, StartFailed
  <2>7. CASE MobileFails
    BY <2>7 DEF MobileFails, StartFailed
  <2>8. CASE HostedAnswersOk
    BY <2>8 DEF HostedAnswersOk, StartSucceeded, BeginCheck
  <2>9. CASE HostedFails
    BY <2>9 DEF HostedFails, StartFailed
  <2>10. CASE StopHotspot
    BY <2>10 DEF StopHotspot
  <2>11. CASE StopTakesEffect
    BY <2>11 DEF StopTakesEffect
  <2>12. CASE StopAnswersOk
    BY <2>12 DEF StopAnswersOk
  <2>13. CASE StopFails
    BY <2>13 DEF StopFails
  <2>14. CASE VerifyHotspot
    BY <2>14 DEF VerifyHotspot, BeginCheck
  <2>15. ASSUME NEW k \in checks, CheckAnswers(k)
        PROVE  MarkInv'
    BY <2>15 DEF CheckIsCurrent, CheckAnswers
  <2>16. CASE MarkInterrupted
    BY <2>16 DEF MarkInterrupted
  <2>17. CASE Probe
    BY <2>17 DEF Probe
  <2>18. CASE ProbeReads
    BY <2>18 DEF ProbeReads
  <2>19. CASE ProbeCompletes
    BY <2>19 DEF ProbeCompletes
  <2>20. CASE OperatorSwitchesOff
    BY <2>20 DEF OperatorSwitchesOff
  <2>21. CASE OperatorSwitchesOn
    BY <2>21 DEF OperatorSwitchesOn
  <2>22. CASE UNCHANGED hotspotVars
    BY <2>22
  <2> QED
    BY <2>1, <2>2, <2>3, <2>4, <2>5, <2>6, <2>7, <2>8, <2>9, <2>10, <2>11,
       <2>12, <2>13, <2>14, <2>15, <2>16, <2>17, <2>18, <2>19, <2>20, <2>21,
       <2>22
       DEF HotspotNext
<1> QED
  BY <1>1, <1>2, OwnershipHolds, PTL DEF HotspotSpec

\* A started hotspot is never shown as a plain success.
THEOREM LiveHotspotIsJudged == HotspotSpec => []LiveIsJudged
BY MarkHolds, PTL DEF MarkInv

\* Only the end of its session clears the mark of a lost adapter.
THEOREM MarkIsKept == HotspotSpec => InterruptionSticks
<1>1. MarkInv /\ [HotspotNext]_hotspotVars
        => [interrupted /\ ~interrupted' => phase' = "inactive"]_hotspotVars
  <2> SUFFICES ASSUME MarkInv, HotspotNext, interrupted
               PROVE  interrupted' = interrupted \/ interrupted' \/ phase' = "inactive"
    OBVIOUS
  <2> USE DEF MarkInv
  <2>1. CASE StartHotspot
    BY <2>1 DEF StartHotspot
  <2>2. CASE ProbeAnswers
    BY <2>2 DEF ProbeAnswers
  <2>3. CASE MobileFails
    BY <2>3 DEF MobileFails
  <2>4. CASE StopAnswersOk
    BY <2>4 DEF StopAnswersOk
  <2>5. CASE MarkInterrupted
    BY <2>5 DEF MarkInterrupted
  <2>6. CASE \/ RadioComesUp \/ MobileAnswersOk \/ MobileAnswersMismatch
             \/ MobileAnswersAlreadyOn \/ HostedAnswersOk \/ HostedFails
    BY <2>6 DEF RadioComesUp, MobileAnswersOk, MobileAnswersMismatch,
       MobileAnswersAlreadyOn, HostedAnswersOk, HostedFails
  <2>7. CASE StopHotspot \/ StopTakesEffect \/ StopFails \/ VerifyHotspot
    BY <2>7 DEF StopHotspot, StopTakesEffect, StopFails, VerifyHotspot
  <2>8. ASSUME NEW k \in checks, CheckAnswers(k)
        PROVE  interrupted' = interrupted
    BY <2>8 DEF CheckAnswers
  <2>9. CASE Probe \/ ProbeReads \/ ProbeCompletes
    BY <2>9 DEF Probe, ProbeReads, ProbeCompletes
  <2>10. CASE OperatorSwitchesOff \/ OperatorSwitchesOn
    BY <2>10 DEF OperatorSwitchesOff, OperatorSwitchesOn
  <2> QED
    BY <2>1, <2>2, <2>3, <2>4, <2>5, <2>6, <2>7, <2>8, <2>9, <2>10 DEF HotspotNext
<1> QED
  BY <1>1, MarkHolds, PTL DEF HotspotSpec, InterruptionSticks
-----------------------------------------------------------------------------
\* Until a session comes up under another name, the check that carries the
\* newest epoch while a session lasts was begun in that session: every session
\* begins with a check of its own, which makes the ones before it stale.
EpochInv == \A k \in checks :
    /\ k.epoch <= epoch
    /\ "mismatch" \notin mishaps /\ phase \in {"live", "stopping"} /\ k.epoch = epoch
         => k.session = session

VerdictInv == EpochInv /\ VerdictIsOfThisSession

\* A "verified" was checked in the session it stands beside.
THEOREM VerdictsAreCurrent == HotspotSpec => []VerdictIsOfThisSession
<1>1. HotspotInit => VerdictInv
  BY DEF HotspotInit, VerdictInv, EpochInv, VerdictIsOfThisSession
<1>2. TalliesTypeOK /\ OwnershipInv /\ VerdictInv /\ [HotspotNext]_hotspotVars
        => VerdictInv'
  <2> SUFFICES ASSUME TalliesTypeOK, OwnershipInv, VerdictInv, [HotspotNext]_hotspotVars
               PROVE  VerdictInv'
    OBVIOUS
  <2> USE HotspotAssumption DEF TalliesTypeOK, Check, OwnershipInv, VerdictInv, EpochInv,
          VerdictIsOfThisSession
  <2>1. CASE StartHotspot
    BY <2>1 DEF StartHotspot
  <2>2. CASE ProbeAnswers
    BY <2>2 DEF ProbeAnswers, StartFailed
  <2>3. CASE RadioComesUp
    BY <2>3 DEF RadioComesUp
  <2>4. CASE MobileAnswersOk
    BY <2>4 DEF MobileAnswersOk, StartSucceeded, BeginCheck
  <2>5. CASE MobileAnswersMismatch
    BY <2>5 DEF MobileAnswersMismatch
  <2>6. CASE MobileAnswersAlreadyOn
    BY <2>6 DEF MobileAnswersAlreadyOn, StartFailed
  <2>7. CASE MobileFails
    BY <2>7 DEF MobileFails, StartFailed
  <2>8. CASE HostedAnswersOk
    BY <2>8 DEF HostedAnswersOk, StartSucceeded, BeginCheck
  <2>9. CASE HostedFails
    BY <2>9 DEF HostedFails, StartFailed
  <2>10. CASE StopHotspot
    BY <2>10 DEF StopHotspot, OwnershipIsVisible
  <2>11. CASE StopTakesEffect
    BY <2>11 DEF StopTakesEffect
  <2>12. CASE StopAnswersOk
    BY <2>12 DEF StopAnswersOk
  <2>13. CASE StopFails
    BY <2>13 DEF StopFails
  <2>14. CASE VerifyHotspot
    BY <2>14 DEF VerifyHotspot, BeginCheck
  <2>15. ASSUME NEW k \in checks, CheckAnswers(k)
        PROVE  VerdictInv'
    BY <2>15 DEF CheckIsCurrent, CheckAnswers
  <2>16. CASE MarkInterrupted
    BY <2>16 DEF MarkInterrupted
  <2>17. CASE Probe
    BY <2>17 DEF Probe
  <2>18. CASE ProbeReads
    BY <2>18 DEF ProbeReads
  <2>19. CASE ProbeCompletes
    BY <2>19 DEF ProbeCompletes
  <2>20. CASE OperatorSwitchesOff
    BY <2>20 DEF OperatorSwitchesOff
  <2>21. CASE OperatorSwitchesOn
    BY <2>21 DEF OperatorSwitchesOn
  <2>22. CASE UNCHANGED hotspotVars
    BY <2>22
  <2> QED
    BY <2>1, <2>2, <2>3, <2>4, <2>5, <2>6, <2>7, <2>8, <2>9, <2>10, <2>11,
       <2>12, <2>13, <2>14, <2>15, <2>16, <2>17, <2>18, <2>19, <2>20, <2>21,
       <2>22
       DEF HotspotNext
<1>3. VerdictInv => VerdictIsOfThisSession
  BY DEF VerdictInv
<1> QED
  BY <1>1, <1>2, <1>3, TalliesTyped, OwnershipHolds, PTL DEF HotspotSpec
-----------------------------------------------------------------------------
\* A check that was just begun is under way, with the newest epoch.
LEMMA BegunCheckIsUnderWay ==
    ASSUME NEW s, BeginCheck(s)
    PROVE  \E k \in checks' : k.epoch = epoch'
<1> DEFINE k == [epoch |-> epoch + 1, session |-> s]
<1>1. k \in checks' /\ k.epoch = epoch'
  BY DEF BeginCheck
<1> QED
  BY <1>1

\* Until a stop fails, a LIVE hotspot that says "verifying" has its newest check
\* under way: what is dropped is only what was superseded or stopped.
THEOREM VerificationIsWatched == HotspotSpec => []VerifyingIsWatched
<1>1. HotspotInit => VerifyingIsWatched
  BY DEF HotspotInit, VerifyingIsWatched
<1>2. OwnershipInv /\ VerifyingIsWatched /\ [HotspotNext]_hotspotVars
        => VerifyingIsWatched'
  <2> SUFFICES ASSUME OwnershipInv, VerifyingIsWatched, [HotspotNext]_hotspotVars
               PROVE  VerifyingIsWatched'
    OBVIOUS
  <2> USE DEF OwnershipInv, VerifyingIsWatched, StopFailed
  <2>1. CASE StartHotspot
    BY <2>1 DEF StartHotspot
  <2>2. CASE ProbeAnswers
    BY <2>2 DEF ProbeAnswers, StartFailed
  <2>3. CASE RadioComesUp
    BY <2>3 DEF RadioComesUp
  <2>4. CASE MobileAnswersOk
    BY <2>4, BegunCheckIsUnderWay DEF MobileAnswersOk, StartSucceeded
  <2>5. CASE MobileAnswersMismatch
    BY <2>5 DEF MobileAnswersMismatch
  <2>6. CASE MobileAnswersAlreadyOn
    BY <2>6 DEF MobileAnswersAlreadyOn, StartFailed
  <2>7. CASE MobileFails
    BY <2>7 DEF MobileFails, StartFailed
  <2>8. CASE HostedAnswersOk
    BY <2>8, BegunCheckIsUnderWay DEF HostedAnswersOk, StartSucceeded
  <2>9. CASE HostedFails
    BY <2>9 DEF HostedFails, StartFailed
  <2>10. CASE StopHotspot
    BY <2>10 DEF StopHotspot
  <2>11. CASE StopTakesEffect
    BY <2>11 DEF StopTakesEffect
  <2>12. CASE StopAnswersOk
    BY <2>12 DEF StopAnswersOk
  <2>13. CASE StopFails
    BY <2>13 DEF StopFails
  <2>14. CASE VerifyHotspot
    BY <2>14, BegunCheckIsUnderWay DEF VerifyHotspot
  <2>15. ASSUME NEW k \in checks, CheckAnswers(k)
        PROVE  VerifyingIsWatched'
    BY <2>15 DEF CheckIsCurrent, CheckAnswers
  <2>16. CASE MarkInterrupted
    BY <2>16 DEF MarkInterrupted
  <2>17. CASE Probe
    BY <2>17 DEF Probe
  <2>18. CASE ProbeReads
    BY <2>18 DEF ProbeReads
  <2>19. CASE ProbeCompletes
    BY <2>19 DEF ProbeCompletes
  <2>20. CASE OperatorSwitchesOff
    BY <2>20 DEF OperatorSwitchesOff
  <2>21. CASE OperatorSwitchesOn
    BY <2>21 DEF OperatorSwitchesOn
  <2>22. CASE UNCHANGED hotspotVars
    BY <2>22
  <2> QED
    BY <2>1, <2>2, <2>3, <2>4, <2>5, <2>6, <2>7, <2>8, <2>9, <2>10, <2>11,
       <2>12, <2>13, <2>14, <2>15, <2>16, <2>17, <2>18, <2>19, <2>20, <2>21,
       <2>22
       DEF HotspotNext
<1> QED
  BY <1>1, <1>2, OwnershipHolds, PTL DEF HotspotSpec

\* ReadinessIsCurrent: the word beside a hotspot is of its own session.
THEOREM ReadinessStaysCurrent == HotspotSpec => []ReadinessIsCurrent
BY VerdictsAreCurrent, VerificationIsWatched, PTL DEF ReadinessIsCurrent
-----------------------------------------------------------------------------
\* The hotspot implements the four-phase authority the rest of the app relies on.
THEOREM ImplementsItsAuthority == HotspotSpec => ImplementsAuthority
<1>1. HotspotInit => Authority!AuthorityInit
  BY DEF HotspotInit, Authority!AuthorityInit
<1>2. WordsTypeOK /\ OwnershipInv /\ [HotspotNext]_hotspotVars
        => [Authority!AuthorityNext]_(Authority!authorityVars)
  <2> SUFFICES ASSUME WordsTypeOK, OwnershipInv, [HotspotNext]_hotspotVars
               PROVE  [Authority!AuthorityNext]_(Authority!authorityVars)
    OBVIOUS
  <2> USE DEF WordsTypeOK, OwnershipInv, OwnershipIsVisible, Authority!AuthorityNext,
              Authority!authorityVars
  <2>1. CASE StartHotspot
    BY <2>1 DEF StartHotspot, Authority!BeginStart
  <2>2. CASE ProbeAnswers
    BY <2>2 DEF ProbeAnswers, StartFailed, Authority!EndStart
  <2>3. CASE MobileAnswersOk \/ HostedAnswersOk
    BY <2>3 DEF MobileAnswersOk, HostedAnswersOk, StartSucceeded, BeginCheck,
                Authority!EndStart
  <2>4. CASE MobileAnswersMismatch
    BY <2>4 DEF MobileAnswersMismatch, Authority!EndStart
  <2>5. CASE MobileAnswersAlreadyOn \/ MobileFails \/ HostedFails
    BY <2>5 DEF MobileAnswersAlreadyOn, MobileFails, HostedFails, StartFailed,
                Authority!EndStart
  <2>6. CASE StopHotspot
    BY <2>6 DEF StopHotspot, Authority!BeginStop
  <2>7. CASE StopAnswersOk \/ StopFails
    BY <2>7 DEF StopAnswersOk, StopFails, Authority!EndStop
  <2>8. CASE VerifyHotspot
    BY <2>8 DEF VerifyHotspot, BeginCheck, Authority!Verify
  <2>9. ASSUME NEW k \in checks, CheckAnswers(k)
        PROVE  [Authority!AuthorityNext]_(Authority!authorityVars)
    BY <2>9 DEF CheckIsCurrent, CheckAnswers, Authority!Verify
  <2>10. CASE MarkInterrupted
    BY <2>10 DEF MarkInterrupted, Authority!Interrupt
  <2>11. CASE RadioComesUp \/ StopTakesEffect
    BY <2>11 DEF RadioComesUp, StopTakesEffect
  <2>12. CASE Probe \/ ProbeReads \/ ProbeCompletes
    BY <2>12 DEF Probe, ProbeReads, ProbeCompletes
  <2>13. CASE OperatorSwitchesOff \/ OperatorSwitchesOn
    BY <2>13 DEF OperatorSwitchesOff, OperatorSwitchesOn
  <2>14. CASE UNCHANGED hotspotVars
    BY <2>14
  <2> QED
    BY <2>1, <2>2, <2>3, <2>4, <2>5, <2>6, <2>7, <2>8, <2>9, <2>10, <2>11, <2>12,
       <2>13, <2>14 DEF HotspotNext
<1> QED
  BY <1>1, <1>2, WordsTyped, OwnershipHolds, PTL
     DEF HotspotSpec, ImplementsAuthority, Authority!AuthoritySpec
-----------------------------------------------------------------------------
(***************************************************************************)
(* Transitions and checks come to their end, from the fair specification   *)
(* and AwaitsCanEnd, the invariant that says what is enabled, which is     *)
(* TLC's.  A start is five commands at most and a stop two, each of which  *)
(* only gives way to a later one; and the phase follows the command.       *)
(***************************************************************************)
Awaiting(x) == command = x
InTransit == phase \in {"starting", "stopping"}
Landed == phase \in {"inactive", "live"}

\* A start or a stop goes to a later command of its own, or to its end.
GoesForward ==
    \/ Awaiting("probe") /\ (Awaiting("mobile") \/ Awaiting("hosted") \/ Awaiting("none"))'
    \/ Awaiting("mobile") /\ (Awaiting("mobile-up") \/ Awaiting("hosted") \/ Awaiting("none"))'
    \/ Awaiting("mobile-up") /\ (Awaiting("hosted") \/ Awaiting("none"))'
    \/ Awaiting("hosted") /\ (Awaiting("hosted-up") \/ Awaiting("none"))'
    \/ Awaiting("hosted-up") /\ Awaiting("none")'
    \/ Awaiting("stop") /\ (Awaiting("stop-done") \/ Awaiting("none"))'
    \/ Awaiting("stop-done") /\ Awaiting("none")'

\* The command that is awaited stays.
StaysWhereItIs ==
    /\ Awaiting("probe") => Awaiting("probe")'
    /\ Awaiting("mobile") => Awaiting("mobile")'
    /\ Awaiting("mobile-up") => Awaiting("mobile-up")'
    /\ Awaiting("hosted") => Awaiting("hosted")'
    /\ Awaiting("hosted-up") => Awaiting("hosted-up")'
    /\ Awaiting("stop") => Awaiting("stop")'
    /\ Awaiting("stop-done") => Awaiting("stop-done")'

\* One command is awaited at a time.
OneIsAwaited ==
    /\ \/ Awaiting("probe") \/ Awaiting("mobile") \/ Awaiting("mobile-up")
       \/ Awaiting("hosted") \/ Awaiting("hosted-up") \/ Awaiting("stop")
       \/ Awaiting("stop-done") \/ Awaiting("none")
    /\ Awaiting("probe") => ~Awaiting("mobile") /\ ~Awaiting("mobile-up")
    /\ Awaiting("probe") \/ Awaiting("mobile") \/ Awaiting("mobile-up")
         => ~Awaiting("hosted") /\ ~Awaiting("hosted-up")
    /\ Awaiting("mobile") => ~Awaiting("mobile-up")
    /\ Awaiting("hosted") => ~Awaiting("hosted-up")
    /\ Awaiting("probe") \/ Awaiting("mobile") \/ Awaiting("mobile-up")
         \/ Awaiting("hosted") \/ Awaiting("hosted-up")
         => ~Awaiting("stop") /\ ~Awaiting("stop-done") /\ ~Awaiting("none")
    /\ Awaiting("stop") => ~Awaiting("stop-done") /\ ~Awaiting("none")
    /\ Awaiting("stop-done") => ~Awaiting("none")

\* An answer takes a start or a stop to its next command, or to its end.
LEMMA AnswersGoForward == CommandAnswers => GoesForward
<1> USE DEF Awaiting, GoesForward
<1>1. CASE ProbeAnswers
  BY <1>1 DEF ProbeAnswers, StartFailed
<1>2. CASE RadioComesUp
  BY <1>2 DEF RadioComesUp
<1>3. CASE MobileAnswersOk \/ MobileAnswersMismatch \/ MobileAnswersAlreadyOn
  BY <1>3 DEF MobileAnswersOk, MobileAnswersMismatch, MobileAnswersAlreadyOn,
     StartSucceeded, StartFailed
<1>4. CASE MobileFails
  BY <1>4 DEF MobileFails, StartFailed
<1>5. CASE HostedAnswersOk \/ HostedFails
  BY <1>5 DEF HostedAnswersOk, HostedFails, StartSucceeded, StartFailed
<1>6. CASE StopTakesEffect \/ StopAnswersOk \/ StopFails
  BY <1>6 DEF StopTakesEffect, StopAnswersOk, StopFails
<1> QED
  BY <1>1, <1>2, <1>3, <1>4, <1>5, <1>6 DEF CommandAnswers

\* Nothing else touches the command that is awaited.
LEMMA CommandsStay ==
    WordsTypeOK /\ OwnershipInv /\ ~Awaiting("none") /\ [HotspotNext]_hotspotVars
        => CommandAnswers \/ StaysWhereItIs
<1> SUFFICES ASSUME WordsTypeOK, OwnershipInv, ~Awaiting("none"), [HotspotNext]_hotspotVars,
                    ~CommandAnswers
             PROVE  command' = command
  BY DEF StaysWhereItIs, Awaiting
<1>1. phase \in {"starting", "stopping"}
  BY DEF WordsTypeOK, OwnershipInv, Awaiting
<1>2. ~StartHotspot /\ ~StopHotspot
  BY <1>1 DEF StartHotspot, StopHotspot
<1>3. ASSUME NEW k \in checks, CheckAnswers(k) PROVE command' = command
  BY <1>3 DEF CheckAnswers
<1> QED
  BY <1>2, <1>3 DEF HotspotNext, CommandAnswers, VerifyHotspot, MarkInterrupted, Probe,
     ProbeReads, ProbeCompletes, OperatorSwitchesOff, OperatorSwitchesOn

\* The phase follows the command.
LEMMA NoCommandIsLanded ==
    WordsTypeOK /\ OwnershipInv => OneIsAwaited /\ (Awaiting("none") => Landed)
BY DEF WordsTypeOK, OwnershipInv, OneIsAwaited, Awaiting, Landed

\* If no await is without an answer to come, every transition settles, whatever
\* goes wrong: a quit that waits for one is not deferred for ever.
LEMMA TransitsLand ==
    HotspotSpec /\ CommandFair /\ []AwaitsCanEnd => (InTransit ~> Landed)
<1>1. AwaitsCanEnd => (~Awaiting("none") => CommandCanAnswer)
  BY DEF AwaitsCanEnd, Awaiting
<1> QED
  BY <1>1, AnswersGoForward, CommandsStay, NoCommandIsLanded, WordsTyped, OwnershipHolds, PTL
  DEF HotspotSpec, CommandFair, CommandCanAnswer, GoesForward, StaysWhereItIs, OneIsAwaited

\* whenSettled() resolves, whatever goes wrong.
THEOREM TransitionsEnd == HotspotFairSpec /\ []AwaitsCanEnd => TransitionsSettle
<1>1. HotspotFairSpec => HotspotSpec /\ CommandFair
  BY DEF HotspotFairSpec, HotspotFairness
<1>2. (InTransit ~> Landed) => TransitionsSettle
  BY DEF InTransit, Landed, TransitionsSettle
<1> QED
  BY <1>1, <1>2, TransitsLand
-----------------------------------------------------------------------------
(***************************************************************************)
(* "verifying" passes.  The newest check answers; but REVERIFY begins a    *)
(* newer one, for which the waiting starts again.  The bound on the checks *)
(* ends that in a run of TLC; here it is the hypothesis that from some     *)
(* time on nobody asks for yet another check.                              *)
(***************************************************************************)
CheckLanded == readiness # "verifying" \/ StopFailed
Ending == phase = "stopping"
Current(k) == Asked(k) /\ k.epoch = epoch /\ phase = "live"
NoNewChecks == [][UNCHANGED epoch]_hotspotVars

CheckingInv == WordsTypeOK /\ TalliesTypeOK /\ OwnershipInv /\ VerifyingIsWatched

\* While "verifying" stands, its check is under way or the session is ending.
LEMMA VerifyingHasItsCheck ==
    CheckingInv /\ ~CheckLanded => Ending \/ \E k \in Check : Current(k)
BY DEF CheckingInv, WordsTypeOK, TalliesTypeOK, OwnershipInv, VerifyingIsWatched,
   CheckLanded, Ending, Current, Asked

\* The newest check stays the newest until it answers, its session ends or
\* another begins; and when it answers it lands.
LEMMA NewestCheckStays ==
    ASSUME NEW k \in Check, CheckingInv, Current(k), [HotspotNext]_hotspotVars
    PROVE  /\ [UNCHANGED epoch]_hotspotVars => Current(k)' \/ CheckLanded' \/ Ending'
           /\ CheckAnswers(k) => CheckLanded'
<1> USE DEF CheckingInv, OwnershipInv, Current, Asked, CheckLanded, Ending
<1>1. CheckAnswers(k) => CheckLanded'
  BY DEF CheckAnswers, CheckIsCurrent
<1>2. ASSUME NEW j \in checks, CheckAnswers(j)
      PROVE  Current(k)' \/ CheckLanded'
  <2>1. CASE j = k
    BY <1>1, <1>2, <2>1
  <2>2. CASE j # k
    BY <1>2, <2>2 DEF CheckAnswers
  <2> QED
    BY <2>1, <2>2
<1>3. CASE CommandAnswers
  <2>1. phase # "live"
    BY <1>3 DEF CommandAnswers, ProbeAnswers, RadioComesUp, MobileAnswersOk,
       MobileAnswersMismatch, MobileAnswersAlreadyOn, MobileFails, HostedAnswersOk,
       HostedFails, StopTakesEffect, StopAnswersOk, StopFails
  <2> QED
    BY <2>1
<1>4. CASE StartHotspot
  BY <1>4 DEF StartHotspot
<1>5. CASE StopHotspot
  BY <1>1, <1>5 DEF StopHotspot
<1>6. CASE VerifyHotspot
  <2>1. epoch' # epoch
    BY <1>6 DEF VerifyHotspot, BeginCheck, TalliesTypeOK
  <2> QED
    BY <1>1, <2>1
<1>7. CASE \/ MarkInterrupted \/ Probe \/ ProbeReads \/ ProbeCompletes
           \/ OperatorSwitchesOff \/ OperatorSwitchesOn
  BY <1>1, <1>7 DEF MarkInterrupted, Probe, ProbeReads, ProbeCompletes,
     OperatorSwitchesOff, OperatorSwitchesOn
<1>8. CASE UNCHANGED hotspotVars
  BY <1>1, <1>8
<1> QED
  BY <1>1, <1>2, <1>3, <1>4, <1>5, <1>6, <1>7, <1>8 DEF HotspotNext, CommandAnswers

\* A stop ends the verifying with the session, or fails.
LEMMA EndingLands ==
    ASSUME CheckingInv, Ending, ~CheckLanded, [HotspotNext]_hotspotVars
    PROVE  Ending' \/ CheckLanded'
<1> USE DEF CheckingInv, OwnershipInv, CheckLanded, Ending
<1>1. ASSUME NEW k \in checks, CheckAnswers(k) PROVE Ending'
  BY <1>1 DEF CheckAnswers
<1>2. CASE StopAnswersOk \/ StopFails
  BY <1>2 DEF StopAnswersOk, StopFails, StopFailed
<1>3. CASE StopTakesEffect
  BY <1>3 DEF StopTakesEffect
<1>4. ~(\/ ProbeAnswers \/ RadioComesUp \/ MobileAnswersOk \/ MobileAnswersMismatch
        \/ MobileAnswersAlreadyOn \/ MobileFails \/ HostedAnswersOk \/ HostedFails
        \/ StartHotspot \/ StopHotspot \/ VerifyHotspot \/ MarkInterrupted)
  BY DEF ProbeAnswers, RadioComesUp, MobileAnswersOk, MobileAnswersMismatch,
     MobileAnswersAlreadyOn, MobileFails, HostedAnswersOk, HostedFails, StartHotspot,
     StopHotspot, VerifyHotspot, MarkInterrupted
<1>5. CASE \/ Probe \/ ProbeReads \/ ProbeCompletes \/ OperatorSwitchesOff
           \/ OperatorSwitchesOn
  BY <1>5 DEF Probe, ProbeReads, ProbeCompletes, OperatorSwitchesOff, OperatorSwitchesOn
<1>6. CASE UNCHANGED hotspotVars
  BY <1>6
<1> QED
  BY <1>1, <1>2, <1>3, <1>4, <1>5, <1>6 DEF HotspotNext

\* If no await is without an answer to come and from some time on no new check
\* is begun, "verifying" always passes: a check answers, or the session ends or
\* could not be ended.
THEOREM ChecksLand ==
    HotspotFairSpec /\ []AwaitsCanEnd /\ <>NoNewChecks => VerificationLands
<1>1. HotspotSpec => []CheckingInv
  BY WordsTyped, TalliesTyped, OwnershipHolds, VerificationIsWatched, PTL DEF CheckingInv
<1>2. ASSUME NEW CONSTANT k \in Check
      PROVE  HotspotSpec /\ CheckFair(k) /\ [](Asked(k) => CheckCanAnswer(k))
             => [](NoNewChecks /\ Current(k) => <>(CheckLanded \/ Ending))
  <2>1. CheckingInv /\ Current(k) /\ [HotspotNext]_hotspotVars
        => /\ [UNCHANGED epoch]_hotspotVars => Current(k)' \/ CheckLanded' \/ Ending'
           /\ CheckAnswers(k) => CheckLanded'
    BY NewestCheckStays
  <2>2. Current(k) => Asked(k)
    BY DEF Current
  <2> QED
    BY <1>1, <2>1, <2>2, PTL DEF HotspotSpec, CheckFair, CheckCanAnswer, NoNewChecks
<1>3. HotspotFairSpec => HotspotSpec /\ CommandFair /\ \A k \in Check : CheckFair(k)
  BY DEF HotspotFairSpec, HotspotFairness
<1>4. []AwaitsCanEnd => \A k \in Check : [](Asked(k) => CheckCanAnswer(k))
  <2>1. AwaitsCanEnd => \A k \in Check : Asked(k) => CheckCanAnswer(k)
    BY DEF AwaitsCanEnd
  <2>2. []AwaitsCanEnd => [](\A k \in Check : Asked(k) => CheckCanAnswer(k))
    BY <2>1, PTL
  <2>3. [](\A k \in Check : Asked(k) => CheckCanAnswer(k))
        => \A k \in Check : [](Asked(k) => CheckCanAnswer(k))
    OBVIOUS
  <2> QED
    BY <2>2, <2>3
<1>5. (\A k \in Check : [](NoNewChecks /\ Current(k) => <>(CheckLanded \/ Ending)))
        => [](NoNewChecks /\ (\E k \in Check : Current(k)) => <>(CheckLanded \/ Ending))
  <2>1. (\A k \in Check : [](NoNewChecks /\ Current(k) => <>(CheckLanded \/ Ending)))
        => [](\A k \in Check : NoNewChecks /\ Current(k) => <>(CheckLanded \/ Ending))
    OBVIOUS
  <2>2. (\A k \in Check : NoNewChecks /\ Current(k) => <>(CheckLanded \/ Ending))
        => (NoNewChecks /\ (\E k \in Check : Current(k)) => <>(CheckLanded \/ Ending))
    OBVIOUS
  <2> QED
    BY <2>1, <2>2, PTL
<1>6. HotspotSpec /\ (InTransit ~> Landed) => (Ending ~> CheckLanded)
  <2>1. CheckingInv /\ Ending /\ ~CheckLanded /\ [HotspotNext]_hotspotVars
        => Ending' \/ CheckLanded'
    BY EndingLands
  <2>2. Ending => InTransit /\ ~Landed
    BY DEF Ending, InTransit, Landed
  <2> QED
    BY <1>1, <2>1, <2>2, PTL DEF HotspotSpec
<1>7. HotspotSpec /\ <>NoNewChecks /\ (Ending ~> CheckLanded)
        /\ [](NoNewChecks /\ (\E k \in Check : Current(k)) => <>(CheckLanded \/ Ending))
      => (~CheckLanded ~> CheckLanded)
  BY <1>1, VerifyingHasItsCheck, PTL DEF NoNewChecks
<1>8. (~CheckLanded ~> CheckLanded) => VerificationLands
  <2>1. CheckLanded <=> readiness # "verifying" \/ StopFailed
    BY DEF CheckLanded
  <2> QED
    BY <2>1, PTL DEF VerificationLands
<1> QED
  BY <1>2, <1>3, <1>4, <1>5, <1>6, <1>7, <1>8, TransitsLand
=============================================================================
