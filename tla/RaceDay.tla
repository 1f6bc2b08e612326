------------------------------- MODULE RaceDay ------------------------------
(***************************************************************************)
(* The RACE DAY button: src/main/raceDayOrchestrator.js, on top of the     *)
(* managed drive program (MapperRunner) whose changes it mirrors and of    *)
(* the link watch, which tells whether the drive program transmits.        *)
(*                                                                         *)
(* start() is one asynchronous function over four steps.  It gives way     *)
(* only at an await, so the model's actions are the segments between two   *)
(* awaits: the rest of a step, the steps after it that do not wait, and    *)
(* the first part of the one that does.  `at' names the await.  While it   *)
(* is pending the drive program may die, the link may come and go and the  *)
(* listeners below rewrite the card.                                       *)
(*                                                                         *)
(* Of the steps' machine kinds only the mapper's are ever read back by the *)
(* code, so only those are kept; what an awaited collaborator answers is a *)
(* choice over its answers.                                                *)
(***************************************************************************)
EXTENDS MapperRunner

VARIABLES
    at,         \* the await start() is at; "rest" when this._running is false
    card,       \* this._steps: the status of each step
    kind,       \* this._steps.mapper.kind
    okKind,     \* this._linkOkKind
    up,         \* linkProbe.snapshot().up
    watching,   \* the link watch is started
    everUp      \* this._linkEverUp

linkVars == <<okKind, up, watching, everUp>>
cardVars == <<at, card, kind>>
raceVars == <<cardVars, linkVars>>
raceDayVars == <<runnerVars, raceVars>>

Step == {"hotspot", "mapper", "telemetry", "bridge"}
Status == {"idle", "pending", "running", "ok", "skipped", "fail"}
OkKind == {"running", "already-running", "external"}
Kind == OkKind \cup
        {"none", "starting", "refused", "spawn-failed", "exited",
         "exited-with-message", "stop-failed", "link-unknown", "link-not-yet",
         "link-down"}

\* LINK_BEARING_KINDS
LinkBearing == OkKind \cup {"link-unknown"}

RaceDayTypeOK ==
    /\ RunnerTypeOK
    /\ at \in {"rest", "hotspot-start", "hotspot-verify", "detect", "link", "reading"}
    /\ card \in [Step -> Status]
    /\ kind \in Kind
    /\ okKind \in OkKind
    /\ up \in {"unknown", "up", "down"}
    /\ watching \in BOOLEAN
    /\ everUp \in BOOLEAN

RaceDayInit ==
    /\ RunnerInit
    /\ at = "rest"
    /\ card = [s \in Step |-> "idle"]
    /\ kind = "none"
    /\ okKind = "running"
    /\ up = "unknown"
    /\ watching = FALSE
    /\ everUp = FALSE

-----------------------------------------------------------------------------
\* _set('mapper', status, k) on the card c.
ShowMapper(c, status, k) ==
    /\ card' = [c EXCEPT !.mapper = status]
    /\ kind' = k

\* The card of a program that ended while its step said OK.
EndOfRun ==
    IF stoppedByUs' THEN ShowMapper(card, "idle", "none")
    ELSE ShowMapper(card, "fail",
                    IF exitCode' = "spawn-error" THEN "spawn-failed"
                    ELSE IF exitMessage' # {} THEN "exited-with-message"
                    ELSE "exited")

\* The runner listener, called with the status() after the runner's step.
MirrorRunner_NeverWithdraws ==
    CASE stopFailed' -> ShowMapper(card, "fail", "stop-failed")
      [] ~stopFailed' /\ ~Running' /\ card.mapper = "ok" -> EndOfRun
      [] OTHER -> UNCHANGED <<card, kind>>

MirrorRunner_MissesTheEnd ==
    CASE stopFailed' -> ShowMapper(card, "fail", "stop-failed")
      [] ~stopFailed' /\ ~Running' /\ kind = "stop-failed" ->
           ShowMapper(card, "idle", "none")
      [] OTHER -> UNCHANGED <<card, kind>>

MirrorRunner ==
    CASE stopFailed' -> ShowMapper(card, "fail", "stop-failed")
      [] ~stopFailed' /\ ~Running' /\ kind = "stop-failed" ->
           ShowMapper(card, "idle", "none")
      [] ~stopFailed' /\ ~Running' /\ kind # "stop-failed" /\ card.mapper = "ok" ->
           EndOfRun
      [] OTHER -> UNCHANGED <<card, kind>>

\* The link listener, called with the answer v.
MirrorLink_OnlyUp(v) ==
    IF v = "up" /\ kind \in {"link-down", "link-not-yet"}
    THEN ShowMapper(card, "ok", okKind) ELSE UNCHANGED <<card, kind>>

MirrorLink(v) ==
    CASE v = "down" /\ card.mapper = "ok" /\ kind \in LinkBearing ->
           ShowMapper(card, "fail", "link-down")
      [] v = "up" /\ kind \in {"link-down", "link-not-yet"} ->
           ShowMapper(card, "ok", okKind)
      [] OTHER -> UNCHANGED <<card, kind>>

\* start() ends, with the card c.
Ends(c) == at' = "rest" /\ card' = c

\* _bridgeStep()
BridgeStep(c) ==
    \E outcome \in {"ok", "skipped", "fail"} : Ends([c EXCEPT !.bridge = outcome])

\* _telemetryStep() up to its wait for a first reading, or past it.
TelemetryStep(c) ==
    \/ BridgeStep([c EXCEPT !.telemetry = "skipped"])
    \/ /\ at' = "reading"
       /\ card' = [c EXCEPT !.telemetry = "running"]

\* _linkCheck(k) up to its wait for the link (production wires a link watch).
LinkCheck(c, status, k) ==
    /\ at' = "link"
    /\ card' = [c EXCEPT !.mapper = status]
    /\ kind' = IF status = "running" THEN "starting" ELSE "none"
    /\ okKind' = k
    /\ watching' = TRUE
    /\ UNCHANGED <<up, everUp>>

\* A step of the mapper fails: the sequence halts.
MapperFails(c, k) ==
    /\ Ends([c EXCEPT !.mapper = "fail"])
    /\ kind' = k
    /\ UNCHANGED linkVars

\* _mapperStep() up to its probe for a program outside race day.
MapperStep(c) ==
    IF Running THEN LinkCheck(c, "pending", "already-running")
    ELSE \/ MapperFails(c, "refused")
         \/ at' = "detect" /\ card' = c /\ kind' = "none" /\ UNCHANGED linkVars

\* A step of the hotspot fails: the sequence halts.
HotspotFails(c) ==
    Ends([c EXCEPT !.hotspot = "fail"]) /\ kind' = "none" /\ UNCHANGED linkVars

-----------------------------------------------------------------------------
\* start(), when none is in flight: the network plan is no hotspot; or the
\* hotspot is busy, not live (start it) or live (verify it).
PressRaceDay ==
    /\ TickDrained
    /\ at = "rest"
    /\ LET c == [s \in Step |-> "pending"] IN
         \/ MapperStep([c EXCEPT !.hotspot = "skipped"])
         \/ HotspotFails(c)
         \/ \E next \in {"hotspot-start", "hotspot-verify"} :
              /\ at' = next
              /\ card' = [c EXCEPT !.hotspot = "running"]
              /\ kind' = "none"
              /\ UNCHANGED linkVars
    /\ UNCHANGED runnerVars

\* lifecycle.start() answers: live, already on under the saved name, or not.
HotspotStartAnswers ==
    /\ TickDrained
    /\ at = "hotspot-start"
    /\ \/ at' = "hotspot-verify" /\ UNCHANGED <<card, kind, linkVars>>
       \/ MapperStep([card EXCEPT !.hotspot = "ok"])
       \/ HotspotFails(card)
    /\ UNCHANGED runnerVars

\* lifecycle.verify() answers: verified or unsupported, or anything else.
HotspotVerifyAnswers ==
    /\ TickDrained
    /\ at = "hotspot-verify"
    /\ \/ MapperStep([card EXCEPT !.hotspot = "ok"])
       \/ HotspotFails(card)
    /\ UNCHANGED runnerVars

\* The probe for an outside instance answers; then the profile is looked up
\* and runner.start() is called.
DetectFindsOne ==
    /\ TickDrained
    /\ at = "detect"
    /\ LinkCheck(card, "pending", "external")
    /\ UNCHANGED runnerVars

DetectThenRefuse ==
    /\ TickDrained
    /\ at = "detect"
    /\ \/ MapperFails(card, "refused")
       \/ proc = NoChild /\ MapperFails(card, "spawn-failed")
       \/ proc # NoChild /\ LinkCheck(card, "running", "already-running")
    /\ UNCHANGED runnerVars

DetectThenLaunch ==
    /\ at = "detect"
    /\ \E c \in Child : Start(c)
    /\ LinkCheck(card, "running", "running")

\* _awaitLink() resolves, at once when the link is up and otherwise when the
\* window has closed, and _linkCheck goes on.
LinkIsUp ==
    /\ TickDrained
    /\ at = "link" /\ up = "up"
    /\ TelemetryStep([card EXCEPT !.mapper = "ok"])
    /\ kind' = okKind
    /\ everUp' = TRUE
    /\ UNCHANGED <<runnerVars, okKind, up, watching>>

WindowClosed_OnAnswer == at = "link" /\ up = "down"
WindowClosed == at = "link" /\ up # "up"

LinkWindowCloses ==
    /\ TickDrained
    /\ WindowClosed
    /\ IF up = "down" /\ everUp
       THEN MapperFails(card, "link-down")
       ELSE /\ TelemetryStep([card EXCEPT !.mapper = "ok"])
            /\ kind' = IF up = "down" THEN "link-not-yet" ELSE "link-unknown"
            /\ UNCHANGED linkVars
    /\ UNCHANGED runnerVars

\* A first reading came, or its window closed.
ReadingAnswers ==
    /\ TickDrained
    /\ at = "reading"
    /\ BridgeStep([card EXCEPT !.telemetry = "ok"])
    /\ UNCHANGED <<runnerVars, kind, linkVars>>

-----------------------------------------------------------------------------
\* The end of stop(): the link watch is stopped, the card wound back.
WindDown ==
    /\ card' = [s \in Step |-> "idle"]
    /\ kind' = "none"
    /\ watching' = FALSE
    /\ up' = "unknown"
    /\ UNCHANGED <<at, okKind, everUp>>

\* stop(), when no bring-up is in flight.
PressStop ==
    /\ TickDrained
    /\ at = "rest"
    /\ \/ /\ \E c \in Child : StopDelivered(c)
          /\ WindDown
       \/ /\ \E c \in Child : StopThrows(c)
          /\ UNCHANGED raceVars
       \/ /\ \E c \in Child : StopUndelivered(c) \/ StopDenied(c)
          /\ MirrorRunner
          /\ UNCHANGED <<at, linkVars>>
       \/ /\ ~Running
          /\ WindDown
          /\ UNCHANGED runnerVars

\* The runner's own events.  A give-up for a child that is no longer held, an
\* escalation, a stale exit and output tell the listener nothing.
RunnerTells(c) ==
    /\ \/ SpawnError(c)
       \/ Exit(c)
       \/ proc = c /\ FireGiveUp(c)
    /\ MirrorRunner
    /\ UNCHANGED <<at, linkVars>>

RunnerIsSilent(c) ==
    /\ \/ proc # c /\ FireGiveUp(c)
       \/ FireEscalate(c)
       \/ StaleExit(c)
       \/ Data(c)
       \/ Output(c)
       \/ Die(c)
    /\ UNCHANGED raceVars

\* The link watch answers, or its stream drops (unknown).
LinkSays(v) ==
    /\ TickDrained
    /\ watching
    /\ v # up
    /\ up' = v
    /\ everUp' = (everUp \/ v = "up")
    /\ MirrorLink(v)
    /\ UNCHANGED <<runnerVars, at, okKind, watching>>

RaceDayNext ==
    \/ PressRaceDay
    \/ HotspotStartAnswers
    \/ HotspotVerifyAnswers
    \/ DetectFindsOne
    \/ DetectThenRefuse
    \/ DetectThenLaunch
    \/ LinkIsUp
    \/ LinkWindowCloses
    \/ ReadingAnswers
    \/ PressStop
    \/ \E c \in Child : RunnerTells(c)
    \/ \E c \in Child : RunnerIsSilent(c)
    \/ \E v \in {"unknown", "up", "down"} : LinkSays(v)

RaceDaySpec == RaceDayInit /\ [][RaceDayNext]_raceDayVars

\* Every awaited answer comes: the hotspot's commands and the process list
\* have timeouts, the link and the reading windows are timers.  The runner's
\* fairness is that of RunnerFairSpec: a child's last event, its two timers and
\* the death SIGKILL brings.
BringUpMoves ==
    \/ HotspotStartAnswers \/ HotspotVerifyAnswers
    \/ DetectFindsOne \/ DetectThenRefuse \/ DetectThenLaunch
    \/ LinkIsUp \/ LinkWindowCloses \/ ReadingAnswers

BringUpFair == WF_raceDayVars(BringUpMoves)
LastEventFair(c) == WF_raceDayVars(RunnerTells(c) /\ os'[c] = "gone")
TellsFair(c) == WF_raceDayVars(RunnerTells(c) /\ os'[c] # "gone")
SilentTimerFair(c) == WF_raceDayVars(FireEscalate(c) /\ UNCHANGED raceVars)
SilentDeathFair(c) == WF_raceDayVars(ForcedDeath(c) /\ UNCHANGED raceVars)

RaceDayFairSpec ==
    /\ RaceDaySpec
    /\ BringUpFair
    /\ \A c \in Child : /\ LastEventFair(c) /\ TellsFair(c)
                        /\ SilentTimerFair(c) /\ SilentDeathFair(c)
-----------------------------------------------------------------------------
\* "It would not stop when asked and is still running" is on the card only
\* while the runner says so.  (raceDayOrchestrator.js:184-192)
StopFailedIsCurrent == kind = "stop-failed" => stopFailed

\* A stopped-looking card never hides a held drive program, except while its
\* stop is in flight.  (raceDayOrchestrator.js:177-183, 681-688)
IdleCardIsHonest == card.mapper = "idle" /\ proc # NoChild => stopping

\* A card that claims the car is being driven does not stand beside a link the
\* drive program reports as down.  (raceDayOrchestrator.js:98-102, 207-215)
ClaimYieldsToTheLink ==
    card.mapper = "ok" /\ kind \in LinkBearing /\ watching => up # "down"

\* A fault of the link is taken back once the link is up.
\* (raceDayOrchestrator.js:207-210)
LinkFaultIsTakenBack == kind \in {"link-down", "link-not-yet"} => up # "up"

\* What the card says is so: of the runner, which start() and the listener both
\* draw, and of the link, whose answers come at any await.
\* (raceDayOrchestrator.js:98-102, 172-217)
CardIsHonest ==
    /\ StopFailedIsCurrent /\ IdleCardIsHonest
    /\ ClaimYieldsToTheLink /\ LinkFaultIsTakenBack

\* Whichever way the runner loses its drive program -- a death, a failed spawn,
\* a refused signal -- a card that said OK says so no longer.
\* (raceDayOrchestrator.js:172-175, 193-205)
EndIsSeen ==
    [][card.mapper = "ok" /\ proc # NoChild /\ proc' = NoChild
           => card'.mapper # "ok"]_raceDayVars

\* Nothing is waited for in vain: an await of the bring-up has an answer to come,
\* whatever the drive program and the link do meanwhile, a program that is gone
\* has its last event on the way, and one the system was told to kill can die.
\* (raceDayOrchestrator.js:289-298, mapperRunner.js:190-205, 285-300)
BringUpCanMove == ENABLED <<BringUpMoves>>_raceDayVars
LastEventCanCome(c) == ENABLED <<RunnerTells(c) /\ os'[c] = "gone">>_raceDayVars
DeathCanCome(c) == ENABLED <<ForcedDeath(c) /\ UNCHANGED raceVars>>_raceDayVars

Ended(c) == proc = c /\ os[c] \in {"failed", "exited"}
Doomed(c) == c \in forced /\ os[c] = "alive"

NothingHangs ==
    /\ at # "rest" /\ TickDrained => BringUpCanMove
    /\ \A c \in Child : Ended(c) => LastEventCanCome(c)
    /\ \A c \in Child : Doomed(c) => DeathCanCome(c)

\* A bring-up ends, whatever its collaborators answer.
\* (raceDayOrchestrator.js:289-298)
BringUpEnds == at # "rest" ~> at = "rest"

\* A failed stop is settled on the card too: it is withdrawn, or the operator
\* has pressed RACE DAY over it.  (raceDayOrchestrator.js:184-192)
StopFailedIsWithdrawn == kind = "stop-failed" ~> kind # "stop-failed"
-----------------------------------------------------------------------------
\* What a comment of the code says and the code does not keep: if the managed
\* mapper dies while its step says OK, the card says so, so a card that says OK
\* has its program.  (raceDayOrchestrator.js:172-173)
ClaimHasItsProgram == card.mapper = "ok" /\ okKind # "external" => proc # NoChild
=============================================================================
