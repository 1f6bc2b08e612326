----------------------------- MODULE SetupFlow ------------------------------
(***************************************************************************)
(* The setup flow of the renderer, from the first settings load to the     *)
(* drive: src/renderer/setupFlow.js, with shared/setupSteps.mjs (the path  *)
(* through the steps), shared/checklist.mjs (the GRID's rows) and the      *)
(* gate of hud.js.                                                         *)
(*                                                                         *)
(* The page has one thread: an action is what runs between two awaits or   *)
(* from a timer.  A continuation that was entered for a visit of a step is *)
(* <<step, "current">> until the visit ends, then <<step, "stale">>: that  *)
(* is all the code can tell by comparing its epoch with pitwallEpoch or    *)
(* gridEpoch.                                                              *)
(*                                                                         *)
(* Of the GRID's rows two are kept: `controller', read when a tick begins, *)
(* and `program', read after the tick's await.  The video, telemetry and   *)
(* phone rows are read like one or the other.                              *)
(***************************************************************************)
EXTENDS Naturals

CONSTANT MaxPress   \* bound: unfinished presses of a mode card, and of START
                    \* when RACE DAY or START is pressed again

ASSUME MaxPressAssumption == MaxPress \in Nat \ {0}

VARIABLES
    boot,       \* the first settings load: "loading", "failed" or "up"
    mode,       \* "solo" or "iphone-hud"
    completed,  \* settings.setupCompleted
    step,       \* the current step
    screen,     \* the screen that has class `active', or "none"
    gate,       \* the gate covers the HUD
    timers,     \* the steps whose poll interval runs
    arriving,   \* enterPitwall and enterGrid calls at an await
    checks,     \* the status of the two rows
    enabled,    \* START can be pressed (startBtn.disabled is false)
    tick,       \* gridTick at its await: what it read of the controller, or "none"
    plugged,    \* a controller is connected
    armed,      \* autoStartArmed
    bringing,   \* raceday:start is awaited
    choosing,   \* mode cards whose save is awaited
    saving,     \* beginStart calls at their save
    counting,   \* start-light countdowns that run
    fading,     \* finishStart timers that run
    lights,     \* lightsRunning
    started     \* hud.js: S.started

gridVars == <<checks, enabled, tick, plugged>>
pressVars == <<bringing, choosing>>
startVars == <<completed, saving, counting, fading, lights, started>>
stepVars == <<step, screen, timers, arriving, armed>>
flowVars == <<boot, mode, gate, gridVars, pressVars, startVars, stepVars>>

Screen == {"garage", "pitwall", "seatfit", "setup", "grid"}
Polled == {"pitwall", "seatfit", "grid"}    \* the steps that have an interval
Awaited == {"pitwall", "grid"}              \* the steps whose entry waits
Row == {"controller", "program"}
Mark == {"pending", "ok", "fail", "skipped"}
Pressed == saving + counting + fading

FlowTypeOK ==
    /\ boot \in {"loading", "failed", "up"}
    /\ mode \in {"solo", "iphone-hud"}
    /\ step \in Screen
    /\ screen \in Screen \cup {"none"}
    /\ timers \subseteq Polled
    /\ arriving \subseteq Awaited \X {"current", "stale"}
    /\ checks \in [Row -> Mark]
    /\ tick \in {"none", "ok", "fail"}
    /\ completed \in BOOLEAN /\ gate \in BOOLEAN /\ enabled \in BOOLEAN
    /\ plugged \in BOOLEAN /\ armed \in BOOLEAN /\ bringing \in BOOLEAN
    /\ lights \in BOOLEAN /\ started \in BOOLEAN
    /\ choosing \in 0 .. MaxPress
    /\ Pressed \in 0 .. MaxPress + 1

FlowInit ==
    /\ boot = "loading"
    /\ mode = "solo"
    /\ completed = FALSE
    /\ step = "garage"
    /\ screen = "none"
    /\ gate = TRUE
    /\ timers = {}
    /\ arriving = {}
    /\ checks = [r \in Row |-> "pending"]
    /\ enabled = FALSE
    /\ tick = "none"
    /\ plugged \in BOOLEAN
    /\ armed = FALSE
    /\ bringing = FALSE
    /\ choosing = 0
    /\ saving = 0
    /\ counting = 0
    /\ fading = 0
    /\ lights = FALSE
    /\ started = FALSE
-----------------------------------------------------------------------------
Path(m) == IF m = "iphone-hud" THEN <<"garage", "pitwall", "seatfit", "setup", "grid">>
                               ELSE <<"garage", "seatfit", "setup", "grid">>

Place(s, m) == CHOOSE i \in DOMAIN Path(m) : Path(m)[i] = s
OnPath(s, m) == \E i \in DOMAIN Path(m) : Path(m)[i] = s
NextOf(s, m) == IF OnPath(s, m) THEN Path(m)[Place(s, m) + 1] ELSE "garage"
PrevOf(s, m) == IF OnPath(s, m) /\ s # "garage" THEN Path(m)[Place(s, m) - 1] ELSE "garage"

\* An epoch that only an entry bumps.
Outdated_ByEntryOnly(s) == arriving

\* The epoch of step s is bumped: its calls in flight are of a visit that ended.
Outdated(s) == {<<a[1], IF a[1] = s THEN "stale" ELSE a[2]>> : a \in arriving}

\* leaveGrid, with the leave hooks of the other steps.
Leave(s) == /\ timers' = timers \ {s}
            /\ arriving' = Outdated(s)

\* The leave hook of the step that is left, then the enter hook of the next.
\* The arm a leaves with the GRID.
ShowStep(next, a) ==
    /\ step' = next
    /\ screen' = next
    /\ armed' = (a /\ step # "grid")
    /\ timers' = (timers \ {step}) \cup ({next} \cap {"seatfit"})
    /\ arriving' = Outdated(step) \cup ({next} \cap Awaited) \X {"current"}

\* What the operator can reach: the active screen of a gate that is up.
Operable(s) == boot = "up" /\ gate /\ screen = s
-----------------------------------------------------------------------------
BootLoads ==
    /\ boot = "loading"
    /\ boot' = "up"
    /\ mode' \in {"solo", "iphone-hud"}
    /\ completed' \in BOOLEAN
    /\ ShowStep("garage", armed)
    /\ UNCHANGED <<gate, gridVars, pressVars, saving, counting, fading, lights, started>>

BootFails ==
    /\ boot = "loading"
    /\ boot' = "failed"
    /\ UNCHANGED <<mode, gate, gridVars, pressVars, startVars, stepVars>>

BootRetry ==
    /\ boot = "failed"
    /\ boot' = "loading"
    /\ UNCHANGED <<mode, gate, gridVars, pressVars, startVars, stepVars>>

ChooseMode ==
    /\ Operable("garage")
    /\ choosing < MaxPress
    /\ mode' \in {"solo", "iphone-hud"}
    /\ choosing' = choosing + 1
    /\ UNCHANGED <<boot, gate, gridVars, bringing, startVars, stepVars>>

\* The save of a mode card has answered; the mode may be another card's by now.
ModeIsSaved ==
    /\ choosing > 0
    /\ choosing' = choosing - 1
    /\ ShowStep(NextOf("garage", mode), armed)
    /\ UNCHANGED <<boot, mode, gate, gridVars, bringing, startVars>>

FastPath ==
    /\ Operable("garage")
    /\ completed
    /\ ShowStep("grid", armed)
    /\ UNCHANGED <<boot, mode, gate, gridVars, pressVars, startVars>>

Navigate ==
    /\ \/ /\ Operable(step) /\ step \notin {"garage", "grid"}
          /\ ShowStep(NextOf(step, mode), armed)
       \/ /\ Operable(step) /\ step # "garage"
          /\ ShowStep(PrevOf(step, mode), armed)
    /\ UNCHANGED <<boot, mode, gate, gridVars, pressVars, startVars>>

ChangeSetup ==
    /\ Operable("grid")
    /\ ShowStep("garage", armed)
    /\ UNCHANGED <<boot, mode, gate, gridVars, pressVars, startVars>>

PressRaceDay ==
    /\ Operable("garage")
    /\ completed
    /\ ~bringing
    /\ Pressed < MaxPress
    /\ bringing' = TRUE
    /\ UNCHANGED <<boot, mode, gate, gridVars, choosing, startVars, stepVars>>

\* It did not come up; or it did, with or without the word that the link is up.
RaceDayAnswers ==
    /\ bringing
    /\ bringing' = FALSE
    /\ \/ UNCHANGED stepVars
       \/ \E confirmed \in BOOLEAN : ShowStep("grid", confirmed)
    /\ UNCHANGED <<boot, mode, gate, gridVars, choosing, startVars>>
-----------------------------------------------------------------------------
PitwallArrives ==
    /\ \/ /\ <<"pitwall", "current">> \in arriving
          /\ arriving' = arriving \ {<<"pitwall", "current">>}
          /\ timers' = timers \cup {"pitwall"}
       \/ /\ <<"pitwall", "stale">> \in arriving
          /\ arriving' = arriving \ {<<"pitwall", "stale">>}
          /\ UNCHANGED timers
    /\ UNCHANGED <<boot, mode, gate, gridVars, pressVars, startVars, step, screen, armed>>

\* gridTick up to its await.
TickBegins == tick' = IF tick # "none" THEN tick ELSE IF plugged THEN "ok" ELSE "fail"

\* session:apply has answered: the rows are pending anew, START is disabled.
GridArrives ==
    /\ <<"grid", "current">> \in arriving
    /\ arriving' = arriving \ {<<"grid", "current">>}
    /\ checks' = [r \in Row |-> "pending"]
    /\ enabled' = FALSE
    /\ timers' = timers \cup {"grid"}
    /\ TickBegins
    /\ UNCHANGED <<boot, mode, gate, plugged, pressVars, startVars, step, screen, armed>>

GridArrivesLate ==
    /\ <<"grid", "stale">> \in arriving
    /\ arriving' = arriving \ {<<"grid", "stale">>}
    /\ UNCHANGED <<boot, mode, gate, gridVars, pressVars, startVars, step, screen, timers, armed>>

Plug ==
    /\ plugged' = ~plugged
    /\ UNCHANGED <<boot, mode, gate, checks, enabled, tick, pressVars, startVars, stepVars>>

GridTick ==
    /\ "grid" \in timers
    /\ TickBegins
    /\ UNCHANGED <<boot, mode, gate, checks, enabled, plugged, pressVars, startVars, stepVars>>

CanStart(c) == \A r \in Row : c[r] \in {"ok", "skipped"}

\* beginStart up to its save.
BeginStart ==
    IF lights THEN UNCHANGED <<saving, timers, arriving, armed>>
    ELSE /\ saving' = saving + 1
         /\ armed' = FALSE
         /\ Leave("grid")

\* The probes of a tick have answered: the rows show them, START follows, and
\* an armed GRID that is all green starts by itself.
TickEnds ==
    /\ tick # "none"
    /\ tick' = "none"
    /\ \E answer \in {"ok", "fail", "skipped"} :
          checks' = [controller |-> tick, program |-> answer]
    /\ enabled' = CanStart(checks')
    /\ IF enabled' /\ armed /\ ~lights
       THEN BeginStart
       ELSE UNCHANGED <<saving, timers, arriving, armed>>
    /\ UNCHANGED <<boot, mode, gate, plugged, pressVars, completed, counting, fading,
                   lights, started, step, screen>>

\* START, or START ANYWAY, which shows when START is disabled.
PressStart ==
    /\ Operable("grid")
    /\ Pressed < MaxPress
    /\ BeginStart
    /\ UNCHANGED <<boot, mode, gate, gridVars, pressVars, completed, counting, fading,
                   lights, started, step, screen>>

\* The save of beginStart has answered, or failed; runLights.
RunLights ==
    /\ saving > 0
    /\ saving' = saving - 1
    /\ completed' \in {completed, TRUE}
    /\ lights' = TRUE
    /\ screen' = "none"
    /\ \/ counting' = counting + 1 /\ UNCHANGED fading
       \/ fading' = fading + 1 /\ UNCHANGED counting
    /\ UNCHANGED <<boot, mode, gate, gridVars, pressVars, started, step, timers, arriving, armed>>

LightsOut ==
    /\ counting > 0
    /\ counting' = counting - 1
    /\ fading' = fading + 1
    /\ UNCHANGED <<boot, mode, gate, gridVars, pressVars, completed, saving, lights, started, stepVars>>

\* hud.js: the gate goes when the first ride starts.
StartRide == IF started THEN UNCHANGED <<started, gate>>
                        ELSE started' = TRUE /\ gate' = FALSE

FadeEnds ==
    /\ fading > 0
    /\ fading' = fading - 1
    /\ StartRide
    /\ lights' = FALSE
    /\ UNCHANGED <<boot, mode, gridVars, pressVars, completed, saving, counting, stepVars>>

RerunSetup ==
    /\ boot = "up"
    /\ gate' = TRUE
    /\ ShowStep("garage", armed)
    /\ UNCHANGED <<boot, mode, gridVars, pressVars, startVars>>

FlowNext ==
    \/ BootLoads \/ BootFails \/ BootRetry
    \/ ChooseMode \/ ModeIsSaved \/ FastPath \/ Navigate \/ ChangeSetup
    \/ PressRaceDay \/ RaceDayAnswers
    \/ PitwallArrives \/ GridArrives \/ GridArrivesLate
    \/ Plug \/ GridTick \/ TickEnds
    \/ PressStart \/ RunLights \/ LightsOut \/ FadeEnds
    \/ RerunSetup

FlowSpec == FlowInit /\ [][FlowNext]_flowVars
-----------------------------------------------------------------------------
\* The poll of a step runs on that step only: a visit that is over leaves no
\* interval behind, however late the answer it was waiting for.
\* (setupFlow.js:587-590, 1796-1800)
PollsBelongToTheStep == timers \subseteq {step}

-----------------------------------------------------------------------------
\* What a comment of the code says and the code does not keep: startRide,
\* called after lights-out, dismisses the gate and goes live.  (hud.js:187)
RideDismissesTheGate == [][fading' < fading => ~gate']_flowVars
=============================================================================
