--------------------------- MODULE RaceDayProofs ----------------------------
(***************************************************************************)
(* Theorems about RaceDay, for every set of drive programs and on both     *)
(* platforms: seen from the runner race day only takes the runner's steps, *)
(* so that the theorems of MapperRunnerProofs hold of it; what the card    *)
(* says agrees with the runner and with the link; every bring-up ends, and *)
(* a failed stop is taken back.                                            *)
(***************************************************************************)
EXTENDS RaceDay, MapperRunnerProofs

\* Every step of race day is a step of the runner or leaves it alone.
LEMMA StepsOfTheRunner == RaceDayNext => RunnerNext \/ UNCHANGED runnerVars
<1> SUFFICES ASSUME RaceDayNext PROVE RunnerNext \/ UNCHANGED runnerVars
  OBVIOUS
<1>1. CASE PressRaceDay \/ HotspotStartAnswers \/ HotspotVerifyAnswers
  BY <1>1 DEF PressRaceDay, HotspotStartAnswers, HotspotVerifyAnswers
<1>2. CASE DetectFindsOne \/ DetectThenRefuse
  BY <1>2 DEF DetectFindsOne, DetectThenRefuse
<1>3. CASE DetectThenLaunch
  BY <1>3 DEF DetectThenLaunch, RunnerNext
<1>4. CASE LinkIsUp \/ LinkWindowCloses \/ ReadingAnswers
  BY <1>4 DEF LinkIsUp, WindowClosed, LinkWindowCloses, ReadingAnswers
<1>5. CASE PressStop
  BY <1>5 DEF PressStop, RunnerNext
<1>6. ASSUME NEW c \in Child, RunnerTells(c)
      PROVE  RunnerNext
  BY <1>6 DEF RunnerTells, RunnerNext
<1>7. ASSUME NEW c \in Child, RunnerIsSilent(c)
      PROVE  RunnerNext
  BY <1>7 DEF RunnerIsSilent, RunnerNext
<1>8. ASSUME NEW v \in {"unknown", "up", "down"}, LinkSays(v)
      PROVE  UNCHANGED runnerVars
  BY <1>8 DEF LinkSays
<1> QED
  BY <1>1, <1>2, <1>3, <1>4, <1>5, <1>6, <1>7, <1>8 DEF RaceDayNext

\* Seen from the runner, a race day is a behaviour of the runner.
THEOREM RaceDayKeepsTheRunner == RaceDaySpec => RunnerSpec
<1>1. RaceDayInit => RunnerInit
  BY DEF RaceDayInit
<1>2. [RaceDayNext]_raceDayVars => [RunnerNext]_runnerVars
  BY StepsOfTheRunner DEF raceDayVars
<1> QED
  BY <1>1, <1>2, PTL DEF RaceDaySpec, RunnerSpec

\* Race day never drops the handle on a living drive program it may signal.
THEOREM RaceDayHoldsTheLiving == RaceDaySpec => []HoldsTheLiving
BY RaceDayKeepsTheRunner, HandleIsNeverLost

\* What the card of race day reads of status() is the abstract drive program's
\* word, through every bring-up, stop and death.
THEOREM RaceDayDrivesTheProgram == RaceDaySpec => ImplementsDriveProgram
BY RaceDayKeepsTheRunner, ImplementsTheDriveProgram

\* Nor does a race day ever drive the car with two programs.
THEOREM RaceDayHasOneDriver == RaceDaySpec => []OneDriver
BY RaceDayDrivesTheProgram, OneDriverByContract, PTL
-----------------------------------------------------------------------------
\* The race day half of RaceDayTypeOK.
CardTypeOK ==
    /\ at \in {"rest", "hotspot-start", "hotspot-verify", "detect", "link", "reading"}
    /\ card \in [Step -> Status]
    /\ kind \in Kind
    /\ okKind \in OkKind
    /\ up \in {"unknown", "up", "down"}
    /\ watching \in BOOLEAN
    /\ everUp \in BOOLEAN

\* The steps after the mapper end at rest or in the wait for a reading, with the
\* mapper's step as they found it.
LEMMA LaterStepsTyped ==
    ASSUME NEW c \in [Step -> Status], TelemetryStep(c) \/ BridgeStep(c)
    PROVE  /\ card' \in [Step -> Status]
           /\ card'.mapper = c.mapper
           /\ at' \in {"rest", "reading"}
<1>1. ASSUME NEW d \in [Step -> Status], d.mapper = c.mapper, BridgeStep(d)
      PROVE  /\ card' \in [Step -> Status]
             /\ card'.mapper = c.mapper
             /\ at' = "rest"
  BY <1>1 DEF BridgeStep, Ends, Step, Status
<1>2. CASE TelemetryStep(c)
  <2> DEFINE d == [c EXCEPT !.telemetry = "skipped"]
  <2>1. d \in [Step -> Status] /\ d.mapper = c.mapper
    BY DEF Step, Status
  <2>2. CASE BridgeStep(d)
    BY <1>1, <2>1, <2>2
  <2>3. CASE at' = "reading" /\ card' = [c EXCEPT !.telemetry = "running"]
    BY <2>3 DEF Step, Status
  <2> QED
    BY <1>2, <2>2, <2>3 DEF TelemetryStep
<1> QED
  BY <1>1, <1>2

\* What the card says of the runner and of the link.
CardInv ==
    /\ StopFailedIsCurrent
    /\ IdleCardIsHonest
    /\ ClaimYieldsToTheLink
    /\ LinkFaultIsTakenBack

\* A link check leaves a card that claims nothing the link or the runner denies.
LEMMA LinkCheckKeeps ==
    ASSUME CardTypeOK,
           NEW c \in [Step -> Status], NEW s \in {"pending", "running"}, NEW k \in OkKind,
           LinkCheck(c, s, k)
    PROVE  CardTypeOK' /\ CardInv'
<1>1. /\ okKind' = k /\ at' = "link" /\ watching' = TRUE
      /\ card' = [c EXCEPT !.mapper = s]
      /\ kind' \in {"none", "starting"}
      /\ UNCHANGED <<up, everUp>>
  BY DEF LinkCheck
<1>2. card' \in [Step -> Status] /\ card'.mapper = s
  BY <1>1 DEF Step, Status
<1>3. CardTypeOK'
  BY <1>1, <1>2 DEF CardTypeOK, Kind
<1> QED
  BY <1>1, <1>2, <1>3 DEF CardInv, StopFailedIsCurrent, IdleCardIsHonest,
     ClaimYieldsToTheLink, LinkFaultIsTakenBack, LinkBearing, OkKind

\* So does a segment of start() that halts or stops at the detection.
LEMMA SegmentKeeps ==
    ASSUME CardTypeOK,
           NEW c \in [Step -> Status],
           c.mapper = "idle" /\ proc # NoChild => stopping,
           UNCHANGED runnerVars,
           MapperStep(c) \/ HotspotFails(c)
             \/ \E k \in {"refused", "spawn-failed"} : MapperFails(c, k)
    PROVE  CardTypeOK' /\ CardInv'
<1> USE DEF linkVars, runnerVars
<1>1. ASSUME NEW k \in {"refused", "spawn-failed"}, MapperFails(c, k)
      PROVE  CardTypeOK' /\ CardInv'
  <2>1. card' \in [Step -> Status] /\ card'.mapper = "fail" /\ at' = "rest" /\ kind' = k
    BY <1>1 DEF MapperFails, Ends, Step, Status
  <2>2. UNCHANGED <<okKind, up, watching, everUp>>
    BY <1>1 DEF MapperFails
  <2> QED
    BY <2>1, <2>2 DEF CardTypeOK, Kind, CardInv, StopFailedIsCurrent, IdleCardIsHonest,
       ClaimYieldsToTheLink, LinkFaultIsTakenBack
<1>2. ASSUME card' \in [Step -> Status], card'.mapper = c.mapper, kind' = "none",
             at' \in {"rest", "detect"}, UNCHANGED linkVars
      PROVE  CardTypeOK' /\ CardInv'
  <2>1. UNCHANGED <<okKind, up, watching, everUp, proc, stopping>>
    BY <1>2
  <2> QED
    BY <1>2, <2>1 DEF CardTypeOK, Kind, CardInv, StopFailedIsCurrent, IdleCardIsHonest,
       ClaimYieldsToTheLink, LinkFaultIsTakenBack, LinkBearing, OkKind
<1>3. CASE HotspotFails(c)
  BY <1>2, <1>3 DEF HotspotFails, Ends, Step, Status
<1>4. CASE MapperStep(c)
  BY <1>1, <1>2, <1>4, LinkCheckKeeps DEF MapperStep, OkKind
<1> QED
  BY <1>1, <1>3, <1>4

\* Between two awaits start() and its collaborators keep the card honest.
LEMMA BringUpKeeps ==
    ASSUME CardTypeOK, CardInv, PressRaceDay \/ BringUpMoves
    PROVE  CardTypeOK' /\ CardInv'
<1> USE DEF linkVars, runnerVars
<1>1. CASE PressRaceDay
  <2> DEFINE c == [s \in Step |-> "pending"]
  <2>1. /\ [c EXCEPT !.hotspot = "skipped"] \in [Step -> Status]
        /\ [c EXCEPT !.hotspot = "skipped"].mapper = "pending"
        /\ [c EXCEPT !.hotspot = "running"] \in [Step -> Status]
        /\ [c EXCEPT !.hotspot = "running"].mapper = "pending"
        /\ c \in [Step -> Status] /\ c.mapper = "pending"
    BY DEF Step, Status
  <2>2. CASE MapperStep([c EXCEPT !.hotspot = "skipped"]) /\ UNCHANGED runnerVars
    BY <2>1, <2>2, SegmentKeeps
  <2>3. CASE HotspotFails(c) /\ UNCHANGED runnerVars
    BY <2>1, <2>3, SegmentKeeps
  <2>4. CASE /\ at' \in {"hotspot-start", "hotspot-verify"}
             /\ card' = [c EXCEPT !.hotspot = "running"]
             /\ kind' = "none"
             /\ UNCHANGED linkVars
    BY <2>1, <2>4 DEF CardTypeOK, Kind, CardInv, StopFailedIsCurrent, IdleCardIsHonest,
       ClaimYieldsToTheLink, LinkFaultIsTakenBack, LinkBearing, OkKind
  <2> QED
    BY <1>1, <2>2, <2>3, <2>4 DEF PressRaceDay
<1>2. /\ card.mapper = "idle" /\ proc # NoChild => stopping
      /\ [card EXCEPT !.hotspot = "ok"] \in [Step -> Status]
      /\ [card EXCEPT !.hotspot = "ok"].mapper = card.mapper
      /\ card \in [Step -> Status]
  BY DEF CardInv, IdleCardIsHonest, CardTypeOK, Step, Status
<1>3. CASE HotspotStartAnswers
  <2>1. CASE at' = "hotspot-verify" /\ UNCHANGED <<card, kind, linkVars, runnerVars>>
    BY <2>1 DEF CardTypeOK, CardInv, StopFailedIsCurrent, IdleCardIsHonest,
       ClaimYieldsToTheLink, LinkFaultIsTakenBack
  <2> QED
    BY <1>2, <1>3, <2>1, SegmentKeeps DEF HotspotStartAnswers
<1>4. CASE HotspotVerifyAnswers
  BY <1>2, <1>4, SegmentKeeps DEF HotspotVerifyAnswers
<1>5. CASE DetectFindsOne
  BY <1>2, <1>5, LinkCheckKeeps DEF DetectFindsOne, OkKind
<1>6. CASE DetectThenRefuse
  BY <1>2, <1>6, SegmentKeeps, LinkCheckKeeps DEF DetectThenRefuse, OkKind
<1>7. CASE DetectThenLaunch
  BY <1>2, <1>7, LinkCheckKeeps DEF DetectThenLaunch, OkKind
<1>8. CASE LinkIsUp
  <2> DEFINE c == [card EXCEPT !.mapper = "ok"]
  <2>1. c \in [Step -> Status] /\ c.mapper = "ok"
    BY DEF CardTypeOK, Step, Status
  <2>2. card' \in [Step -> Status] /\ card'.mapper = "ok" /\ at' \in {"rest", "reading"}
    BY <1>8, <2>1, LaterStepsTyped DEF LinkIsUp
  <2>3. /\ kind' = okKind /\ everUp' = TRUE /\ up = "up"
        /\ UNCHANGED <<okKind, up, watching>>
    BY <1>8 DEF LinkIsUp
  <2> QED
    BY <2>2, <2>3 DEF CardTypeOK, Kind, OkKind, CardInv, StopFailedIsCurrent,
       IdleCardIsHonest, ClaimYieldsToTheLink, LinkFaultIsTakenBack
<1>9. CASE LinkWindowCloses
  <2> DEFINE c == [card EXCEPT !.mapper = "ok"]
  <2>1. c \in [Step -> Status] /\ c.mapper = "ok"
    BY DEF CardTypeOK, Step, Status
  <2>2. CASE MapperFails(card, "link-down")
    <3>1. card' \in [Step -> Status] /\ card'.mapper = "fail" /\ at' = "rest"
      BY <2>2 DEF MapperFails, Ends, CardTypeOK, Step, Status
    <3>2. kind' = "link-down" /\ UNCHANGED <<okKind, up, watching, everUp>> /\ up # "up"
      BY <1>9, <2>2 DEF MapperFails, WindowClosed, LinkWindowCloses
    <3> QED
      BY <3>1, <3>2 DEF CardTypeOK, Kind, CardInv, StopFailedIsCurrent,
         IdleCardIsHonest, ClaimYieldsToTheLink, LinkFaultIsTakenBack
  <2>3. CASE /\ TelemetryStep(c)
             /\ kind' = IF up = "down" THEN "link-not-yet" ELSE "link-unknown"
             /\ UNCHANGED linkVars
    <3>1. card' \in [Step -> Status] /\ card'.mapper = "ok" /\ at' \in {"rest", "reading"}
      BY <2>1, <2>3, LaterStepsTyped
    <3>2. UNCHANGED <<okKind, up, watching, everUp>> /\ up # "up"
      BY <1>9, <2>3 DEF WindowClosed, LinkWindowCloses
    <3> QED
      BY <2>3, <3>1, <3>2 DEF CardTypeOK, Kind, OkKind, CardInv, StopFailedIsCurrent,
         IdleCardIsHonest, ClaimYieldsToTheLink, LinkFaultIsTakenBack, LinkBearing
  <2> QED
    BY <1>9, <2>2, <2>3 DEF WindowClosed, LinkWindowCloses
<1>10. CASE ReadingAnswers
  <2> DEFINE c == [card EXCEPT !.telemetry = "ok"]
  <2>1. c \in [Step -> Status] /\ c.mapper = card.mapper
    BY DEF CardTypeOK, Step, Status
  <2>2. BridgeStep(c) /\ UNCHANGED <<kind, okKind, up, watching, everUp, proc, stopping,
                                     stopFailed>>
    BY <1>10 DEF ReadingAnswers
  <2>3. card' \in [Step -> Status] /\ card'.mapper = card.mapper /\ at' = "rest"
    BY <2>1, <2>2, LaterStepsTyped DEF BridgeStep, Ends
  <2> QED
    BY <2>2, <2>3 DEF CardTypeOK, CardInv, StopFailedIsCurrent,
       IdleCardIsHonest, ClaimYieldsToTheLink, LinkFaultIsTakenBack
<1> QED
  BY <1>1, <1>3, <1>4, <1>5, <1>6, <1>7, <1>8, <1>9, <1>10 DEF BringUpMoves

\* What the runner listener draws agrees with what the runner says.
LEMMA MirrorKeeps ==
    ASSUME RunnerTypeOK, CardTypeOK, CardInv, MirrorRunner,
           UNCHANGED <<at, linkVars>>,
           \/ stopFailed'
           \/ ~stopFailed' /\ proc' = NoChild
    PROVE  CardTypeOK' /\ CardInv'
<1>1. /\ UNCHANGED <<at, okKind, up, watching, everUp>>
      /\ card \in [Step -> Status]
  BY DEF linkVars, CardTypeOK
<1>2. ASSUME NEW status \in {"idle", "fail"},
             NEW k \in {"none", "stop-failed", "spawn-failed", "exited",
                        "exited-with-message"},
             ShowMapper(card, status, k),
             k = "stop-failed" => stopFailed',
             status = "idle" => proc' = NoChild
      PROVE  CardTypeOK' /\ CardInv'
  <2>1. card' \in [Step -> Status] /\ card'.mapper = status /\ kind' = k
    BY <1>1, <1>2 DEF ShowMapper, Step, Status
  <2> QED
    BY <1>1, <1>2, <2>1 DEF CardTypeOK, Kind, OkKind, LinkBearing, CardInv,
       StopFailedIsCurrent, IdleCardIsHonest, ClaimYieldsToTheLink, LinkFaultIsTakenBack
<1>3. CASE stopFailed'
  BY <1>2, <1>3 DEF MirrorRunner
<1>4. CASE ~stopFailed' /\ proc' = NoChild /\ kind = "stop-failed"
  <2>1. ShowMapper(card, "idle", "none")
    BY <1>4 DEF MirrorRunner, Running
  <2> QED
    BY <1>2, <1>4, <2>1
<1>5. CASE ~stopFailed' /\ proc' = NoChild /\ kind # "stop-failed" /\ card.mapper = "ok"
  <2>1. EndOfRun
    BY <1>5 DEF MirrorRunner, Running
  <2>2. CASE stoppedByUs'
    BY <1>2, <1>5, <2>1, <2>2 DEF EndOfRun
  <2>3. CASE ~stoppedByUs'
    BY <1>2, <1>5, <2>1, <2>3 DEF EndOfRun
  <2> QED
    BY <2>2, <2>3
<1>6. CASE ~stopFailed' /\ proc' = NoChild /\ kind # "stop-failed" /\ card.mapper # "ok"
  <2>1. UNCHANGED <<card, kind>>
    BY <1>6 DEF MirrorRunner, Running
  <2> QED
    BY <1>1, <1>6, <2>1 DEF CardTypeOK, CardInv, StopFailedIsCurrent, IdleCardIsHonest,
       ClaimYieldsToTheLink, LinkFaultIsTakenBack
<1> QED
  BY <1>3, <1>4, <1>5, <1>6

\* STOP, the runner's events and the link's answers keep the card honest.
LEMMA EventsKeep ==
    ASSUME RunnerTypeOK, CardTypeOK, CardInv,
           \/ PressStop
           \/ \E c \in Child : RunnerTells(c) \/ RunnerIsSilent(c)
           \/ \E v \in {"unknown", "up", "down"} : LinkSays(v)
    PROVE  CardTypeOK' /\ CardInv'
<1> USE DEF linkVars, runnerVars
<1>1. ASSUME WindDown, UNCHANGED stopFailed, proc' = NoChild \/ stopping'
      PROVE  CardTypeOK' /\ CardInv'
  <2>1. /\ card' \in [Step -> Status] /\ card'.mapper = "idle" /\ kind' = "none"
        /\ watching' = FALSE /\ up' = "unknown" /\ UNCHANGED <<at, okKind, everUp>>
    BY <1>1 DEF WindDown, Step, Status
  <2> QED
    BY <1>1, <2>1 DEF CardTypeOK, Kind, CardInv, StopFailedIsCurrent, IdleCardIsHonest,
       ClaimYieldsToTheLink, LinkFaultIsTakenBack
<1>2. ASSUME UNCHANGED <<raceVars, proc, stopping, stopFailed>>
      PROVE  CardTypeOK' /\ CardInv'
  BY <1>2 DEF raceVars, cardVars, CardTypeOK, CardInv, StopFailedIsCurrent,
     IdleCardIsHonest, ClaimYieldsToTheLink, LinkFaultIsTakenBack
<1>3. CASE PressStop
  <2>1. ASSUME NEW c \in Child, StopDelivered(c), WindDown
        PROVE  CardTypeOK' /\ CardInv'
    BY <1>1, <2>1 DEF StopDelivered
  <2>2. ASSUME NEW c \in Child, StopThrows(c), UNCHANGED raceVars
        PROVE  CardTypeOK' /\ CardInv'
    BY <1>2, <2>2 DEF StopThrows
  <2>3. ASSUME NEW c \in Child, StopUndelivered(c) \/ StopDenied(c), MirrorRunner,
               UNCHANGED <<at, linkVars>>
        PROVE  CardTypeOK' /\ CardInv'
    BY <2>3, MirrorKeeps DEF StopUndelivered, StopDenied
  <2>4. CASE ~Running /\ WindDown /\ UNCHANGED runnerVars
    BY <1>1, <2>4 DEF Running
  <2> QED
    BY <1>3, <2>1, <2>2, <2>3, <2>4 DEF PressStop
<1>4. ASSUME NEW c \in Child, RunnerTells(c)
      PROVE  CardTypeOK' /\ CardInv'
  <2>1. CASE SpawnError(c) \/ Exit(c)
    BY <1>4, <2>1, MirrorKeeps DEF RunnerTells, SpawnError, HandleError, Exit, SettleStop
  <2>2. CASE proc = c /\ FireGiveUp(c)
    BY <1>4, <2>2, MirrorKeeps DEF RunnerTells, FireGiveUp
  <2> QED
    BY <1>4, <2>1, <2>2 DEF RunnerTells
<1>5. ASSUME NEW c \in Child, RunnerIsSilent(c)
      PROVE  CardTypeOK' /\ CardInv'
  <2>1. UNCHANGED raceVars
    BY <1>5 DEF RunnerIsSilent
  <2>2. CASE proc # c /\ FireGiveUp(c)
    BY <1>2, <2>1, <2>2 DEF FireGiveUp, RunnerTypeOK
  <2>3. CASE FireEscalate(c) \/ StaleExit(c) \/ Data(c) \/ Output(c) \/ Die(c)
    BY <1>2, <2>1, <2>3 DEF FireEscalate, StaleExit, Data, Output, Die
  <2> QED
    BY <1>5, <2>2, <2>3 DEF RunnerIsSilent
<1>6. ASSUME NEW v \in {"unknown", "up", "down"}, LinkSays(v)
      PROVE  CardTypeOK' /\ CardInv'
  <2>1. /\ up' = v /\ everUp' = (everUp \/ v = "up") /\ MirrorLink(v)
        /\ UNCHANGED <<at, okKind, watching, proc, stopping, stopFailed>>
    BY <1>6 DEF LinkSays
  <2>2. ASSUME NEW status \in {"ok", "fail"}, NEW k \in OkKind \cup {"link-down"},
               ShowMapper(card, status, k), k = "link-down" <=> v = "down",
               k = "link-down" <=> status = "fail"
        PROVE  CardTypeOK' /\ CardInv'
    <3>1. card' \in [Step -> Status] /\ card'.mapper = status /\ kind' = k
      BY <2>2 DEF ShowMapper, CardTypeOK, Step, Status
    <3>2. everUp' \in BOOLEAN
      BY <2>1 DEF CardTypeOK
    <3> QED
      BY <2>1, <2>2, <3>1, <3>2 DEF CardTypeOK, Kind, OkKind, LinkBearing, CardInv,
         StopFailedIsCurrent, IdleCardIsHonest, ClaimYieldsToTheLink, LinkFaultIsTakenBack
  <2>3. CASE v = "down" /\ card.mapper = "ok" /\ kind \in LinkBearing
    BY <2>1, <2>2, <2>3 DEF MirrorLink
  <2>4. CASE v = "up" /\ kind \in {"link-down", "link-not-yet"}
    BY <2>1, <2>2, <2>4 DEF MirrorLink, CardTypeOK, OkKind
  <2>5. CASE /\ ~(v = "down" /\ card.mapper = "ok" /\ kind \in LinkBearing)
             /\ ~(v = "up" /\ kind \in {"link-down", "link-not-yet"})
    <3>1. UNCHANGED <<card, kind>>
      BY <2>1, <2>5 DEF MirrorLink
    <3>2. everUp' \in BOOLEAN
      BY <2>1 DEF CardTypeOK
    <3> QED
      BY <2>1, <2>5, <3>1, <3>2 DEF CardTypeOK, CardInv, StopFailedIsCurrent,
         IdleCardIsHonest, ClaimYieldsToTheLink, LinkFaultIsTakenBack
  <2> QED
    BY <2>3, <2>4, <2>5
<1> QED
  BY <1>3, <1>4, <1>5, <1>6

\* The card's types and its honesty hold of every reachable state.
LEMMA CardHolds == RaceDaySpec => [](RunnerTypeOK /\ CardTypeOK /\ CardInv)
<1>1. RaceDayInit => CardTypeOK /\ CardInv
  BY DEF RaceDayInit, RunnerInit, CardTypeOK, Step, Status, Kind, OkKind,
     CardInv, StopFailedIsCurrent, IdleCardIsHonest, ClaimYieldsToTheLink,
     LinkFaultIsTakenBack, LinkBearing
<1>2. RunnerTypeOK /\ CardTypeOK /\ CardInv /\ [RaceDayNext]_raceDayVars
        => (CardTypeOK /\ CardInv)'
  <2> SUFFICES ASSUME RunnerTypeOK, CardTypeOK, CardInv, [RaceDayNext]_raceDayVars
               PROVE  (CardTypeOK /\ CardInv)'
    OBVIOUS
  <2>1. CASE PressRaceDay \/ BringUpMoves
    BY <2>1, BringUpKeeps
  <2>2. CASE \/ PressStop
             \/ \E c \in Child : RunnerTells(c) \/ RunnerIsSilent(c)
             \/ \E v \in {"unknown", "up", "down"} : LinkSays(v)
    BY <2>2, EventsKeep
  <2>3. CASE UNCHANGED raceDayVars
    BY <2>3 DEF raceDayVars, runnerVars, raceVars, cardVars, linkVars, CardTypeOK, CardInv,
       StopFailedIsCurrent, IdleCardIsHonest, ClaimYieldsToTheLink, LinkFaultIsTakenBack
  <2> QED
    BY <2>1, <2>2, <2>3 DEF RaceDayNext, BringUpMoves
<1>3. RaceDaySpec => []RunnerTypeOK
  BY RaceDayKeepsTheRunner, TypeCorrect
<1> QED
  BY <1>1, <1>2, <1>3, PTL DEF RaceDaySpec

\* Every variable keeps its type.
THEOREM RaceDayTypeCorrect == RaceDaySpec => []RaceDayTypeOK
<1>1. RunnerTypeOK /\ CardTypeOK => RaceDayTypeOK
  BY DEF CardTypeOK, RaceDayTypeOK
<1> QED
  BY <1>1, CardHolds, PTL

\* The card agrees with the runner: a stop is called failed only while the runner
\* calls it so, and a stopped-looking card hides no drive program.
THEOREM CardTellsTheRunner == RaceDaySpec => [](StopFailedIsCurrent /\ IdleCardIsHonest)
BY CardHolds, PTL DEF CardInv

\* The card agrees with the link: a claim yields to a link that is down, a fault
\* to one that is up.
THEOREM CardTellsTheLink ==
    RaceDaySpec => [](ClaimYieldsToTheLink /\ LinkFaultIsTakenBack)
BY CardHolds, PTL DEF CardInv

\* CardIsHonest: both together.
THEOREM TheCardIsHonest == RaceDaySpec => []CardIsHonest
BY CardTellsTheRunner, CardTellsTheLink, PTL DEF CardIsHonest
-----------------------------------------------------------------------------
\* A runner that loses its drive program while the card says OK: the listener
\* draws the end, whether the loss is a failed stop or the end of a run.
LEMMA MirrorSeesTheEnd ==
    ASSUME CardTypeOK, MirrorRunner, proc' = NoChild, card.mapper = "ok"
    PROVE  card'.mapper # "ok"
<1>1. ASSUME NEW status \in {"idle", "fail"}, NEW k, ShowMapper(card, status, k)
      PROVE  card'.mapper # "ok"
  BY <1>1 DEF ShowMapper, CardTypeOK, Step
<1>2. CASE stopFailed'
  BY <1>1, <1>2 DEF MirrorRunner
<1>3. CASE ~stopFailed' /\ kind = "stop-failed"
  BY <1>1, <1>3 DEF MirrorRunner, Running
<1>4. CASE ~stopFailed' /\ kind # "stop-failed"
  <2>1. EndOfRun
    BY <1>4 DEF MirrorRunner, Running
  <2>2. CASE stoppedByUs'
    BY <1>1, <2>1, <2>2 DEF EndOfRun
  <2>3. CASE ~stoppedByUs'
    BY <1>1, <2>1, <2>3 DEF EndOfRun
  <2> QED
    BY <2>2, <2>3
<1> QED
  BY <1>2, <1>3, <1>4

\* Whichever way the runner loses its drive program, a card that said OK says so
\* no longer.
THEOREM CardTellsTheEnd == RaceDaySpec => EndIsSeen
<1>1. CardTypeOK /\ [RaceDayNext]_raceDayVars
        => [card.mapper = "ok" /\ proc # NoChild /\ proc' = NoChild
                => card'.mapper # "ok"]_raceDayVars
  <2> SUFFICES ASSUME CardTypeOK, [RaceDayNext]_raceDayVars,
                      card.mapper = "ok", proc # NoChild, proc' = NoChild
               PROVE  card'.mapper # "ok"
    OBVIOUS
  <2>1. CASE PressRaceDay \/ BringUpMoves
    <3>1. ~(\E c \in Child : Start(c))
      BY RunnerAssumption DEF Start
    <3> QED
      BY <2>1, <3>1 DEF PressRaceDay, BringUpMoves, HotspotStartAnswers,
         HotspotVerifyAnswers, DetectFindsOne, DetectThenRefuse, DetectThenLaunch,
         LinkIsUp, LinkWindowCloses, ReadingAnswers, runnerVars
  <2>2. CASE PressStop
    <3>1. ASSUME NEW c \in Child, StopDelivered(c) \/ StopThrows(c)
          PROVE  FALSE
      BY <3>1 DEF StopDelivered, StopThrows
    <3>2. CASE WindDown /\ UNCHANGED runnerVars
      BY <3>2 DEF runnerVars
    <3>3. CASE MirrorRunner
      BY <3>3, MirrorSeesTheEnd
    <3> QED
      BY <2>2, <3>1, <3>2, <3>3 DEF PressStop
  <2>3. ASSUME NEW c \in Child, RunnerTells(c)
        PROVE  card'.mapper # "ok"
    BY <2>3, MirrorSeesTheEnd DEF RunnerTells
  <2>4. ASSUME NEW c \in Child, RunnerIsSilent(c)
        PROVE  FALSE
    BY <2>4 DEF RunnerIsSilent, FireGiveUp, FireEscalate, StaleExit, Data, Output, Die
  <2>5. ASSUME NEW v \in {"unknown", "up", "down"}, LinkSays(v)
        PROVE  FALSE
    BY <2>5 DEF LinkSays, runnerVars
  <2>6. CASE UNCHANGED raceDayVars
    BY <2>6 DEF raceDayVars, runnerVars
  <2> QED
    BY <2>1, <2>2, <2>3, <2>4, <2>5, <2>6 DEF RaceDayNext, BringUpMoves
<1> QED
  BY <1>1, CardHolds, PTL DEF RaceDaySpec, EndIsSeen
-----------------------------------------------------------------------------
(***************************************************************************)
(* A race day comes to its end, from the fair specification and            *)
(* NothingHangs, the invariant that says what is enabled, which is TLC's.  *)
(* The events of a tick are drained, because a spawn that failed is the    *)
(* program the runner holds; and an await only ever gives way to a later   *)
(* one, so that start() comes to rest after five of them at most.          *)
(***************************************************************************)
\* A program that is held has its last event still to come, and one whose spawn
\* failed is held.
HeldInv == \A c \in Child :
    /\ proc = c => os[c] \in {"failed", "alive", "exited"}
    /\ os[c] = "failed" => proc = c

\* Every step of the runner keeps it so.
LEMMA HeldStep == RunnerTypeOK /\ HeldInv /\ [RunnerNext]_runnerVars => HeldInv'
<1> SUFFICES ASSUME RunnerTypeOK, HeldInv, [RunnerNext]_runnerVars
             PROVE  HeldInv'
  OBVIOUS
<1> USE RunnerAssumption DEF RunnerTypeOK, HeldInv
<1>1. ASSUME NEW c \in Child, Start(c) PROVE HeldInv'
  BY <1>1 DEF Start, TickDrained
<1>2. ASSUME NEW c \in Child, SpawnError(c) PROVE HeldInv'
  BY <1>2 DEF SpawnError, HandleError
<1>3. ASSUME NEW c \in Child, Exit(c) \/ StaleExit(c) PROVE HeldInv'
  BY <1>3 DEF Exit, StaleExit, TickDrained
<1>4. ASSUME NEW c \in Child, Die(c) PROVE HeldInv'
  BY <1>4 DEF Die
<1>5. ASSUME NEW c \in Child, StopDenied(c) PROVE HeldInv'
  BY <1>5 DEF StopDenied, StopIssued, HandleError, TickDrained
<1>6. ASSUME NEW c \in Child,
             \/ Data(c) \/ Output(c) \/ FireGiveUp(c) \/ FireEscalate(c)
             \/ StopDelivered(c) \/ StopThrows(c) \/ StopUndelivered(c)
      PROVE  HeldInv'
  BY <1>6 DEF Data, Output, FireGiveUp, FireEscalate, StopDelivered, StopThrows,
              StopUndelivered
<1>7. CASE UNCHANGED runnerVars
  BY <1>7 DEF runnerVars
<1> QED
  BY <1>1, <1>2, <1>3, <1>4, <1>5, <1>6, <1>7 DEF RunnerNext

\* Every state of a race day has its types, its card and its handle in order.
DayInv == RunnerTypeOK /\ CardTypeOK /\ CardInv /\ HeldInv

\* DayInv is an invariant.
LEMMA DayHolds == RaceDaySpec => []DayInv
<1>1. RunnerInit => HeldInv
  BY RunnerAssumption DEF RunnerInit, HeldInv
<1> QED
  BY <1>1, HeldStep, CardHolds, RaceDayKeepsTheRunner, PTL DEF RunnerSpec, DayInv

\* The tick of a failed spawn ends with its 'error' event, and nothing else
\* happens to that program.
LEMMA TickEnds ==
    ASSUME NEW c \in Child, DayInv, os[c] = "failed", [RaceDayNext]_raceDayVars
    PROVE  os'[c] = "failed" \/ TickDrained'
<1>1. [RunnerNext]_runnerVars
  BY StepsOfTheRunner DEF raceDayVars
<1> USE RunnerAssumption DEF DayInv, RunnerTypeOK, HeldInv, TickDrained
<1>2. ASSUME NEW d \in Child, SpawnError(d) PROVE TickDrained'
  BY <1>2 DEF SpawnError
<1>3. ASSUME NEW d \in Child, Start(d) \/ Exit(d) \/ StaleExit(d) PROVE FALSE
  BY <1>3 DEF Start, Exit, StaleExit
<1>4. ASSUME NEW d \in Child,
             \/ Data(d) \/ Output(d) \/ FireGiveUp(d) \/ FireEscalate(d)
             \/ StopDelivered(d) \/ StopThrows(d) \/ StopUndelivered(d) \/ StopDenied(d)
      PROVE  os'[c] = "failed"
  BY <1>4 DEF Data, Output, FireGiveUp, FireEscalate, StopDelivered, StopThrows,
              StopUndelivered, StopDenied
<1>5. ASSUME NEW d \in Child, Die(d) PROVE os'[c] = "failed"
  BY <1>5 DEF Die
<1>6. CASE UNCHANGED runnerVars
  BY <1>6 DEF runnerVars
<1> QED
  BY <1>1, <1>2, <1>3, <1>4, <1>5, <1>6 DEF RunnerNext

\* The awaits of start(), in their order.
Starting  == at = "hotspot-start"
Verifying == at = "hotspot-verify"
Detecting == at = "detect"
Linking   == at = "link"
Reading   == at = "reading"
Resting   == at = "rest"
Failed(c) == os[c] = "failed"

\* An answer takes start() to a later await, or to its end.
LEMMA AnswersGoForward ==
    ASSUME BringUpMoves
    PROVE  \/ Starting  /\ (Verifying \/ Detecting \/ Linking \/ Reading \/ Resting)'
           \/ Verifying /\ (Detecting \/ Linking \/ Reading \/ Resting)'
           \/ Detecting /\ (Linking \/ Reading \/ Resting)'
           \/ Linking   /\ (Reading \/ Resting)'
           \/ Reading   /\ Resting'
<1> USE DEF Starting, Verifying, Detecting, Linking, Reading, Resting
<1>1. ASSUME NEW c, MapperStep(c) PROVE at' \in {"rest", "detect", "link"}
  BY <1>1 DEF MapperStep, LinkCheck, MapperFails, Ends
<1>2. ASSUME NEW c, TelemetryStep(c) PROVE at' \in {"rest", "reading"}
  BY <1>2 DEF TelemetryStep, BridgeStep, Ends
<1>3. CASE HotspotStartAnswers
  BY <1>1, <1>3 DEF HotspotStartAnswers, HotspotFails, Ends
<1>4. CASE HotspotVerifyAnswers
  BY <1>1, <1>4 DEF HotspotVerifyAnswers, HotspotFails, Ends
<1>5. CASE DetectFindsOne \/ DetectThenRefuse \/ DetectThenLaunch
  BY <1>5 DEF DetectFindsOne, DetectThenRefuse, DetectThenLaunch, LinkCheck, MapperFails, Ends
<1>6. CASE LinkIsUp \/ LinkWindowCloses
  BY <1>2, <1>6 DEF LinkIsUp, LinkWindowCloses, WindowClosed, MapperFails, Ends
<1>7. CASE ReadingAnswers
  BY <1>7 DEF ReadingAnswers, BridgeStep, Ends
<1> QED
  BY <1>3, <1>4, <1>5, <1>6, <1>7 DEF BringUpMoves

\* Nothing else moves an await, or fails a spawn while one is pending.
LEMMA AwaitsStay ==
    ASSUME RunnerTypeOK, ~Resting, [RaceDayNext]_raceDayVars
    PROVE  BringUpMoves \/ (at' = at /\ (TickDrained => TickDrained'))
<1> USE DEF Resting
<1>1. ASSUME UNCHANGED os PROVE TickDrained => TickDrained'
  BY <1>1 DEF TickDrained
<1>2. ASSUME NEW c \in Child, RunnerTells(c) \/ RunnerIsSilent(c)
      PROVE  at' = at /\ (TickDrained => TickDrained')
  <2>1. at' = at
    BY <1>2 DEF RunnerTells, RunnerIsSilent, raceVars, cardVars
  <2>2. CASE UNCHANGED os
    BY <1>1, <2>1, <2>2
  <2>3. CASE os' = [os EXCEPT ![c] = "gone"] \/ os' = [os EXCEPT ![c] = "exited"]
    BY <2>1, <2>3 DEF TickDrained, RunnerTypeOK
  <2> QED
    BY <1>2, <2>2, <2>3 DEF RunnerTells, RunnerIsSilent, SpawnError, Exit, FireGiveUp,
       FireEscalate, StaleExit, Data, Output, Die
<1>3. ASSUME NEW v \in {"unknown", "up", "down"}, LinkSays(v)
      PROVE  at' = at /\ (TickDrained => TickDrained')
  BY <1>1, <1>3 DEF LinkSays, runnerVars
<1>4. CASE PressRaceDay \/ PressStop
  BY <1>4 DEF PressRaceDay, PressStop
<1>5. CASE UNCHANGED raceDayVars
  BY <1>1, <1>5 DEF raceDayVars, runnerVars, raceVars, cardVars
<1> QED
  BY <1>2, <1>3, <1>4, <1>5 DEF RaceDayNext, BringUpMoves

\* If nothing hangs, the error of a failed spawn is heard of.
LEMMA TicksEnd ==
    RaceDayFairSpec /\ []NothingHangs => ((\E c \in Child : Failed(c)) ~> TickDrained)
<1>1. ASSUME NEW CONSTANT c \in Child
      PROVE  RaceDaySpec /\ LastEventFair(c) /\ [](Ended(c) => LastEventCanCome(c))
             => (Failed(c) ~> TickDrained)
  <2>1. DayInv /\ Failed(c) => Ended(c)
    BY DEF DayInv, HeldInv, Failed, Ended
  <2>2. DayInv /\ Failed(c) /\ [RaceDayNext]_raceDayVars => Failed(c)' \/ TickDrained'
    BY TickEnds DEF Failed
  <2>3. RunnerTells(c) /\ os'[c] = "gone" => ~Failed(c)'
    BY DEF Failed
  <2> QED
    BY <2>1, <2>2, <2>3, DayHolds, PTL DEF RaceDaySpec, LastEventFair, LastEventCanCome
<1>2. RaceDayFairSpec => RaceDaySpec /\ \A c \in Child : LastEventFair(c)
  BY DEF RaceDayFairSpec
<1>3. []NothingHangs => \A c \in Child : [](Ended(c) => LastEventCanCome(c))
  <2>1. NothingHangs => \A c \in Child : Ended(c) => LastEventCanCome(c)
    BY DEF NothingHangs
  <2>2. []NothingHangs => [](\A c \in Child : Ended(c) => LastEventCanCome(c))
    BY <2>1, PTL
  <2>3. [](\A c \in Child : Ended(c) => LastEventCanCome(c))
        => \A c \in Child : [](Ended(c) => LastEventCanCome(c))
    OBVIOUS
  <2> QED
    BY <2>2, <2>3
<1>4. (\A c \in Child : Failed(c) ~> TickDrained)
        => ((\E c \in Child : Failed(c)) ~> TickDrained)
  <2>1. (\A c \in Child : Failed(c) ~> TickDrained)
        => \A c \in Child : [](Failed(c) => <>TickDrained)
    <3>1. ASSUME NEW CONSTANT c \in Child
          PROVE  (Failed(c) ~> TickDrained) => [](Failed(c) => <>TickDrained)
      BY PTL
    <3> QED
      BY <3>1
  <2>2. (\A c \in Child : [](Failed(c) => <>TickDrained))
        => [](\A c \in Child : Failed(c) => <>TickDrained)
    OBVIOUS
  <2>3. (\A c \in Child : Failed(c) => <>TickDrained)
        => ((\E c \in Child : Failed(c)) => <>TickDrained)
    OBVIOUS
  <2> QED
    BY <2>1, <2>2, <2>3, PTL
<1> QED
  BY <1>1, <1>2, <1>3, <1>4

\* If nothing hangs every bring-up ends, whatever its collaborators answer, with
\* any number of drive programs, signalled or not, on both platforms.
THEOREM BringUpsEnd == RaceDayFairSpec /\ []NothingHangs => BringUpEnds
<1>1. ~TickDrained => \E c \in Child : Failed(c)
  BY DEF TickDrained, Failed
<1>2. NothingHangs => (~Resting /\ TickDrained => BringUpCanMove)
  BY DEF NothingHangs, Resting
<1>3. BringUpMoves =>
           \/ Starting  /\ (Verifying \/ Detecting \/ Linking \/ Reading \/ Resting)'
           \/ Verifying /\ (Detecting \/ Linking \/ Reading \/ Resting)'
           \/ Detecting /\ (Linking \/ Reading \/ Resting)'
           \/ Linking   /\ (Reading \/ Resting)'
           \/ Reading   /\ Resting'
  BY AnswersGoForward
<1>4. DayInv /\ ~Resting /\ [RaceDayNext]_raceDayVars
        => \/ BringUpMoves
           \/ /\ TickDrained => TickDrained'
              /\ (Starting => Starting') /\ (Verifying => Verifying')
              /\ (Detecting => Detecting') /\ (Linking => Linking') /\ (Reading => Reading')
  BY AwaitsStay DEF DayInv, Starting, Verifying, Detecting, Linking, Reading
<1>5. DayInv => /\ Starting \/ Verifying \/ Detecting \/ Linking \/ Reading \/ Resting
                /\ Starting => ~Verifying /\ ~Detecting /\ ~Linking /\ ~Reading /\ ~Resting
                /\ Verifying => ~Detecting /\ ~Linking /\ ~Reading /\ ~Resting
                /\ Detecting => ~Linking /\ ~Reading /\ ~Resting
                /\ Linking => ~Reading /\ ~Resting
                /\ Reading => ~Resting
  BY DEF DayInv, CardTypeOK, Starting, Verifying, Detecting, Linking, Reading, Resting
<1>6. RaceDayFairSpec => RaceDaySpec /\ BringUpFair
  BY DEF RaceDayFairSpec
<1>7. RaceDaySpec /\ BringUpFair /\ []NothingHangs
        /\ ((\E c \in Child : Failed(c)) ~> TickDrained)
      => (~Resting ~> Resting)
  BY <1>1, <1>2, <1>3, <1>4, <1>5, DayHolds, PTL
  DEF RaceDaySpec, BringUpFair, BringUpCanMove
<1>8. (~Resting ~> Resting) => BringUpEnds
  <2>1. (at # "rest") => ~Resting
    BY DEF Resting
  <2>2. Resting => (at = "rest")
    BY DEF Resting
  <2> QED
    BY <2>1, <2>2, PTL DEF BringUpEnds
<1> QED
  BY <1>6, <1>7, <1>8, TicksEnd
-----------------------------------------------------------------------------
(***************************************************************************)
(* A failed stop does not stay on the card, on POSIX and with a program    *)
(* the app may signal: by the time the stop is called failed the system    *)
(* has been told to kill the program, or it was dead already, so that its  *)
(* exit is still to come, and with it the listener that takes the words    *)
(* back.                                                                   *)
(***************************************************************************)
\* A program that is given up on was forced, or is dead.
ForceInv == \A c \in Child :
    GivingUp(c) \/ (stopFailed /\ proc = c) => c \in forced \/ os[c] # "alive"

\* Every step of the runner keeps it so.
LEMMA ForceStep ==
    ASSUME ~Win32, Denied = {},
           RunnerTypeOK, ClockInv, ForceInv, [RunnerNext]_runnerVars
    PROVE  ForceInv'
<1> USE RunnerAssumption DEF RunnerTypeOK, ForceInv, GivingUp
<1>1. ASSUME NEW c \in Child, Start(c) PROVE ForceInv'
  <2>1. timers' = {} /\ stopFailed' = FALSE
    BY <1>1 DEF Start, SettleStop, WithoutStopTimer, ClockInv, NoStrayTimer
  <2> QED
    BY <2>1
<1>2. ASSUME NEW c \in Child, SpawnError(c) \/ Exit(c) PROVE ForceInv'
  <2>1. timers' = {} /\ stopFailed' = FALSE
    BY <1>2 DEF SpawnError, Exit, SettleStop, WithoutStopTimer, ClockInv, NoStrayTimer
  <2> QED
    BY <2>1
<1>3. ASSUME NEW c \in Child, StaleExit(c) \/ Die(c) PROVE ForceInv'
  BY <1>3 DEF StaleExit, Die
<1>4. ASSUME NEW c \in Child, Data(c) \/ Output(c) \/ StopThrows(c) PROVE ForceInv'
  BY <1>4 DEF Data, Output, StopThrows
<1>5. ASSUME NEW c \in Child, StopUndelivered(c) \/ StopDenied(c) PROVE FALSE
  BY <1>5 DEF StopUndelivered, StopDenied
<1>6. ASSUME NEW c \in Child, StopDelivered(c) PROVE ForceInv'
  <2>1. /\ timers' = timers \cup {EscalateTimer(c)}
        /\ UNCHANGED <<proc, stopFailed, os, forced>>
    BY <1>6 DEF StopDelivered
  <2>2. \A d \in Child : GiveUpTimer(d) # EscalateTimer(c)
    BY DEF GiveUpTimer, EscalateTimer
  <2> QED
    BY <2>1, <2>2
<1>7. ASSUME NEW c \in Child, FireEscalate(c) PROVE ForceInv'
  <2>1. proc = c /\ Escalate(c, timers \ {EscalateTimer(c)})
    BY <1>7 DEF FireEscalate, ClockInv, NoStrayTimer, EscalateTimer
  <2>2. /\ timers' = (timers \ {EscalateTimer(c)}) \cup {GiveUpTimer(c)}
        /\ c \in forced' \/ os[c] # "alive"
        /\ forced \subseteq forced'
    BY <2>1 DEF Escalate, ForceReaches
  <2>3. UNCHANGED <<proc, stopFailed, os>>
    BY <1>7 DEF FireEscalate
  <2>4. \A d \in Child : GiveUpTimer(d) = GiveUpTimer(c) => d = c
    BY DEF GiveUpTimer
  <2> QED
    BY <2>2, <2>3, <2>4
<1>8. ASSUME NEW c \in Child, FireGiveUp(c) PROVE ForceInv'
  BY <1>8 DEF FireGiveUp
<1>9. CASE UNCHANGED runnerVars
  BY <1>9 DEF runnerVars
<1> QED
  BY <1>1, <1>2, <1>3, <1>4, <1>5, <1>6, <1>7, <1>8, <1>9 DEF RunnerNext

\* The card says that the stop of c failed.
Reported(c) == kind = "stop-failed" /\ proc = c
NotReported == kind # "stop-failed"

\* The words stay with the program they are about, until its end takes them back.
LEMMA ReportsEnd ==
    ASSUME Denied = {}, NEW c \in Child,
           DayInv, Reported(c), [RaceDayNext]_raceDayVars
    PROVE  /\ Reported(c)' \/ NotReported'
           /\ (\E d \in Child : SpawnError(d) \/ Exit(d)) => NotReported'
           /\ Doomed(c) => Doomed(c)' \/ Ended(c)' \/ NotReported'
           /\ Ended(c) => Ended(c)' \/ NotReported'
<1> USE RunnerAssumption DEF Reported, NotReported
<1>1. [RunnerNext]_runnerVars
  BY StepsOfTheRunner DEF raceDayVars
<1>2. \A d \in Child : ~Start(d)
  BY DEF Start
<1>3. \A d \in Child : ~StopDenied(d)
  BY DEF StopDenied
<1>4. ASSUME NEW d \in Child, SpawnError(d) \/ Exit(d) PROVE NotReported'
  <2>1. proc' = NoChild /\ stopFailed' = FALSE
    BY <1>4 DEF SpawnError, HandleError, Exit, SettleStop
  <2>2. MirrorRunner
    <3>1. proc # proc'
      BY <2>1
    <3> QED
      BY <1>2, <1>3, <3>1 DEF RaceDayNext, RunnerTells, RunnerIsSilent, PressRaceDay,
         HotspotStartAnswers, HotspotVerifyAnswers, DetectFindsOne, DetectThenRefuse,
         DetectThenLaunch, LinkIsUp, LinkWindowCloses, ReadingAnswers, PressStop,
         StopDelivered, StopThrows, StopUndelivered, LinkSays, FireGiveUp, FireEscalate,
         StaleExit, Data, Output, Die, raceDayVars, runnerVars
  <2> QED
    BY <2>1, <2>2 DEF MirrorRunner, Running, ShowMapper
<1>5. CASE \A d \in Child : ~SpawnError(d) /\ ~Exit(d)
  <2>1. proc' = proc
    BY <1>1, <1>2, <1>3, <1>5 DEF RunnerNext, StaleExit, Data, StopDelivered, StopThrows,
       StopUndelivered, FireEscalate, FireGiveUp, Output, Die, runnerVars
  <2>2. os'[c] = os[c] \/ (os[c] = "alive" /\ os'[c] = "exited")
    BY <1>1, <1>2, <1>3, <1>5 DEF RunnerNext, StaleExit, Data, StopDelivered, StopThrows,
       StopUndelivered, FireEscalate, FireGiveUp, Output, Die, runnerVars, DayInv,
       RunnerTypeOK
  <2>3. forced \subseteq forced'
    BY <1>1, <1>2, <1>3, <1>5 DEF RunnerNext, StaleExit, Data, StopDelivered, StopThrows,
       StopUndelivered, FireEscalate, FireGiveUp, Output, Die, runnerVars, Escalate,
       ForceReaches
  <2> QED
    BY <1>5, <2>1, <2>2, <2>3 DEF Doomed, Ended
<1> QED
  BY <1>4, <1>5

\* If nothing hangs, "it would not stop" does not stay on the card: on POSIX the
\* forced stop of a program the app may signal takes, and its end is told.
THEOREM FailedStopsAreWithdrawn ==
    ASSUME ~Win32, Denied = {}
    PROVE  RaceDayFairSpec /\ []NothingHangs => StopFailedIsWithdrawn
<1>1. RaceDaySpec => [](DayInv /\ ForceInv)
  <2>1. RunnerInit => ClockInv /\ ForceInv
    BY RunnerAssumption DEF RunnerInit, ClockInv, StopHasItsClock, NoStrayTimer, IdleClock,
       ForceInv, GivingUp
  <2>2. RunnerTypeOK /\ ClockInv /\ ForceInv /\ [RunnerNext]_runnerVars => ForceInv'
    BY ForceStep
  <2>3. RunnerSpec => []ForceInv
    BY <2>1, <2>2, ClockStep, TypeCorrect, PTL DEF RunnerSpec
  <2> QED
    BY <2>3, DayHolds, RaceDayKeepsTheRunner, PTL
<1>2. RaceDaySpec => [](StopFailedIsCurrent /\ StopFailedHasASubject)
  BY CardTellsTheRunner, RaceDayKeepsTheRunner, EndOfRunIsAttributed, PTL
<1>3. DayInv /\ StopFailedIsCurrent /\ StopFailedHasASubject /\ ~NotReported
        => \E c \in Child : Reported(c)
  BY DEF DayInv, RunnerTypeOK, StopFailedIsCurrent, StopFailedHasASubject, Reported,
     NotReported
<1>4. ASSUME NEW CONSTANT c \in Child
      PROVE  RaceDaySpec /\ LastEventFair(c) /\ SilentDeathFair(c)
                /\ [](Ended(c) => LastEventCanCome(c)) /\ [](Doomed(c) => DeathCanCome(c))
             => (Reported(c) ~> NotReported)
  <2>1. DayInv /\ ForceInv /\ StopFailedIsCurrent /\ Reported(c) => Doomed(c) \/ Ended(c)
    BY DEF DayInv, HeldInv, ForceInv, StopFailedIsCurrent, Reported, Doomed, Ended
  <2>2. DayInv /\ Reported(c) /\ [RaceDayNext]_raceDayVars
        => /\ Reported(c)' \/ NotReported'
           /\ Doomed(c) => Doomed(c)' \/ Ended(c)' \/ NotReported'
           /\ Ended(c) => Ended(c)' \/ NotReported'
    BY ReportsEnd
  <2>3. DayInv /\ Reported(c) /\ [RaceDayNext]_raceDayVars
          /\ RunnerTells(c) /\ os'[c] = "gone" => NotReported'
    <3>1. ASSUME DayInv, Reported(c), RunnerTells(c), os'[c] = "gone"
          PROVE  SpawnError(c) \/ Exit(c)
      BY <3>1 DEF DayInv, HeldInv, Reported, RunnerTells, FireGiveUp
    <3> QED
      BY <3>1, ReportsEnd
  <2>4. DayInv /\ ForcedDeath(c) /\ UNCHANGED raceVars => ~Doomed(c)'
    BY DEF DayInv, RunnerTypeOK, ForcedDeath, Die, Doomed
  <2>5. Ended(c) => ~Doomed(c)
    BY DEF Ended, Doomed
  <2> QED
    BY <1>1, <1>2, <2>1, <2>2, <2>3, <2>4, <2>5, PTL
    DEF RaceDaySpec, LastEventFair, LastEventCanCome, SilentDeathFair, DeathCanCome
<1>5. RaceDayFairSpec
        => RaceDaySpec /\ \A c \in Child : LastEventFair(c) /\ SilentDeathFair(c)
  BY DEF RaceDayFairSpec
<1>6. []NothingHangs => \A c \in Child : /\ [](Ended(c) => LastEventCanCome(c))
                                         /\ [](Doomed(c) => DeathCanCome(c))
  <2>1. []NothingHangs => /\ [](\A c \in Child : Ended(c) => LastEventCanCome(c))
                          /\ [](\A c \in Child : Doomed(c) => DeathCanCome(c))
    <3>1. NothingHangs => /\ \A c \in Child : Ended(c) => LastEventCanCome(c)
                          /\ \A c \in Child : Doomed(c) => DeathCanCome(c)
      BY DEF NothingHangs
    <3> QED
      BY <3>1, PTL
  <2>2. [](\A c \in Child : Ended(c) => LastEventCanCome(c))
        => \A c \in Child : [](Ended(c) => LastEventCanCome(c))
    OBVIOUS
  <2>3. [](\A c \in Child : Doomed(c) => DeathCanCome(c))
        => \A c \in Child : [](Doomed(c) => DeathCanCome(c))
    OBVIOUS
  <2> QED
    BY <2>1, <2>2, <2>3
<1>7. RaceDaySpec /\ (\A c \in Child : Reported(c) ~> NotReported)
        => StopFailedIsWithdrawn
  <2>1. (\A c \in Child : Reported(c) ~> NotReported)
        => \A c \in Child : [](Reported(c) => <>NotReported)
    <3>1. ASSUME NEW CONSTANT c \in Child
          PROVE  (Reported(c) ~> NotReported) => [](Reported(c) => <>NotReported)
      BY PTL
    <3> QED
      BY <3>1
  <2>2. (\A c \in Child : [](Reported(c) => <>NotReported))
        => [](\A c \in Child : Reported(c) => <>NotReported)
    OBVIOUS
  <2>3. (\A c \in Child : Reported(c) => <>NotReported)
        => ((\E c \in Child : Reported(c)) => <>NotReported)
    OBVIOUS
  <2>4. (kind = "stop-failed" => ~NotReported) /\ (NotReported => kind # "stop-failed")
    BY DEF NotReported
  <2> QED
    BY <1>1, <1>2, <1>3, <2>1, <2>2, <2>3, <2>4, PTL DEF StopFailedIsWithdrawn
<1> QED
  BY <1>4, <1>5, <1>6, <1>7
=============================================================================
