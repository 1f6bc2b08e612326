----------------------------- MODULE QuitPolicy -----------------------------
(***************************************************************************)
(* Quitting the app: src/main/quitPolicy.js, over the hotspot authority    *)
(* (HotspotAuthority), the managed drive program and a race day that may   *)
(* still be bringing both up while the operator closes the window.         *)
(*                                                                         *)
(* decide() is a chain of awaits: it waits for the hotspot to settle, asks *)
(* about the drive program, waits and asks about the hotspot, stops it,    *)
(* and asks about a drive program that came up meanwhile.  `decision' is   *)
(* the await it is at.  A promise that is settled continues before any     *)
(* other event is served, and a prompt is modal: while it is open nothing  *)
(* can be clicked, but what was under way goes on.                         *)
(*                                                                         *)
(* Electron's way from an allowed quit to 'will-quit' (the window closes,  *)
(* the teardown runs) is one step.                                         *)
(***************************************************************************)
EXTENDS HotspotAuthority

CONSTANT AllowLeave     \* allowLeaveHotspot: a development build

ASSUME QuitAssumption == AllowLeave \in BOOLEAN

VARIABLES
    mapper,         \* the managed drive program: "off", "up" or "stopping"
    bringUp,        \* race day's start() in flight: "none", "hotspot", "mapper"
    decision,       \* the await decide() is at; "none" when not deciding
    mapperWasAsked, \* decide()'s constant of that name
    gone,           \* the app has quit and its teardown has run
    answers         \* history: what the operator answered to this quit

quitVars == <<decision, mapperWasAsked, gone, answers>>
otherVars == <<mapper, bringUp>>
quitPolicyVars == <<authorityVars, otherVars, quitVars>>

Waits == {"settle", "settle-hotspot", "settle-stop"}
Prompts == {"mapper", "hotspot", "mapper-again"}

QuitTypeOK ==
    /\ AuthorityTypeOK
    /\ mapper \in {"off", "up", "stopping"}
    /\ bringUp \in {"none", "hotspot", "mapper"}
    /\ decision \in {"none", "stop"} \cup Waits \cup Prompts
    /\ mapperWasAsked \in BOOLEAN
    /\ gone \in BOOLEAN
    /\ answers \subseteq {"quit-mapper", "leave", "stop", "stopped", "cancel", "broken"}

QuitInit ==
    /\ AuthorityInit
    /\ mapper = "off"
    /\ bringUp = "none"
    /\ decision = "none"
    /\ mapperWasAsked = FALSE
    /\ gone = FALSE
    /\ answers = {}

-----------------------------------------------------------------------------
Settled == phase \in {"inactive", "live"}

\* A settled wait continues at once.
Continues == decision \in Waits /\ Settled

\* Another event is served.
Served == ~gone /\ ~Continues

\* The operator can reach the renderer.
Reachable == Served /\ decision \notin Prompts

\* mapperAlive(): a program that is being stopped does not count.
MapperAlive == mapper = "up"

\* quit(): the window closes, and the teardown asks a drive program that still
\* counts as running to stop.  No timer of the app outlives it.
Quit ==
    /\ gone' = TRUE
    /\ decision' = "none"
    /\ mapper' = IF mapper = "up" THEN "stopping" ELSE mapper
    /\ bringUp' = "none"

\* The decision so far is not to quit.
Stay_Answered == decision' = "cancel" /\ UNCHANGED <<otherVars, gone>>
Stay_Pending == UNCHANGED <<decision, otherVars, gone>>
Stay == decision' = "none" /\ UNCHANGED <<otherVars, gone>>

AskNext(d) == decision' = d /\ UNCHANGED <<otherVars, gone>>

\* decide() after decideHotspot() said quit: a drive program that came up since
\* is asked about.
AfterHotspot_NoSecondLook == Quit
AfterHotspot ==
    IF ~mapperWasAsked /\ MapperAlive THEN AskNext("mapper-again") ELSE Quit

\* onBeforeQuit(), when no decision is pending: nothing owned, nothing in
\* transit and no drive program quits without a word.
RequestQuit ==
    /\ Reachable
    /\ decision = "none"
    /\ answers' = {}
    /\ mapperWasAsked' = FALSE
    /\ IF ~owned /\ Settled /\ ~MapperAlive THEN Quit ELSE AskNext("settle")
    /\ UNCHANGED authorityVars

SettledForMapper ==
    /\ decision = "settle" /\ Settled
    /\ mapperWasAsked' = MapperAlive
    /\ AskNext(IF MapperAlive THEN "mapper" ELSE "settle-hotspot")
    /\ UNCHANGED <<authorityVars, answers>>

MapperAnswered ==
    /\ decision = "mapper"
    /\ \/ AskNext("settle-hotspot") /\ answers' = answers \cup {"quit-mapper"}
       \/ Stay /\ answers' = answers \cup {"cancel"}
    /\ UNCHANGED <<authorityVars, mapperWasAsked>>

SettledForHotspot_WhenOwned ==
    /\ decision = "settle-hotspot" /\ Settled
    /\ owned
    /\ AskNext("hotspot")
    /\ UNCHANGED <<authorityVars, mapperWasAsked, answers>>
SettledForHotspot ==
    /\ decision = "settle-hotspot" /\ Settled
    /\ IF owned THEN AskNext("hotspot") ELSE AfterHotspot
    /\ UNCHANGED <<authorityVars, mapperWasAsked, answers>>

HotspotAnswered ==
    /\ decision = "hotspot"
    /\ \/ Stay /\ answers' = answers \cup {"cancel"}
       \/ AllowLeave /\ AfterHotspot /\ answers' = answers \cup {"leave"}
       \/ AskNext("settle-stop") /\ answers' = answers \cup {"stop"}
    /\ UNCHANGED <<authorityVars, mapperWasAsked>>

\* lifecycle.stop(): a no-op that succeeds when nothing is owned any more.
SettledForStop ==
    /\ decision = "settle-stop" /\ Settled
    /\ IF owned
       THEN BeginStop /\ AskNext("stop")
       ELSE AfterHotspot /\ UNCHANGED authorityVars
    /\ UNCHANGED <<mapperWasAsked, answers>>

StopSucceeds ==
    /\ decision = "stop"
    /\ EndStop /\ phase' = "inactive"
    /\ AfterHotspot
    /\ answers' = answers \cup {"stopped"}
    /\ UNCHANGED mapperWasAsked

StopDoesNot_QuitsAnyway ==
    /\ decision = "stop"
    /\ EndStop /\ phase' = "live"
    /\ Quit
    /\ UNCHANGED <<mapperWasAsked, answers>>

StopDoesNot ==
    /\ decision = "stop"
    /\ EndStop /\ phase' = "live"
    /\ Stay
    /\ UNCHANGED <<mapperWasAsked, answers>>

\* The program may go while its prompt is open, which changes nothing.
MapperAgainAnswered ==
    /\ decision = "mapper-again"
    /\ \/ Quit /\ answers' = answers \cup {"quit-mapper"}
       \/ Stay /\ answers' = answers \cup {"cancel"}
    /\ UNCHANGED <<authorityVars, mapperWasAsked>>

\* A prompt that cannot be shown must not make the app unquittable.
PromptBreaks ==
    /\ decision \in Prompts
    /\ Quit
    /\ answers' = answers \cup {"broken"}
    /\ UNCHANGED <<authorityVars, mapperWasAsked>>

-----------------------------------------------------------------------------
\* The renderer: START and STOP HOTSPOT, RACE DAY and STOP RACE DAY.
PressStartHotspot ==
    /\ Reachable
    /\ BeginStart
    /\ UNCHANGED <<otherVars, quitVars>>

PressStopHotspot ==
    /\ Reachable
    /\ BeginStop
    /\ UNCHANGED <<otherVars, quitVars>>

PressRaceDay ==
    /\ Reachable
    /\ bringUp = "none"
    /\ \/ bringUp' = "mapper" /\ Settled /\ UNCHANGED authorityVars
       \/ bringUp' = "hotspot" /\ BeginStart
    /\ UNCHANGED <<mapper, quitVars>>

PressStopRaceDay ==
    /\ Reachable
    /\ bringUp = "none"
    /\ mapper = "up"
    /\ mapper' = "stopping"
    /\ UNCHANGED <<authorityVars, bringUp, quitVars>>

\* What goes on by itself, prompt or no prompt.
HotspotSettles ==
    /\ Served
    /\ decision # "stop"
    /\ EndStart \/ EndStop
    /\ UNCHANGED <<otherVars, quitVars>>

HotspotIsWatched ==
    /\ Served
    /\ Verify \/ Interrupt
    /\ UNCHANGED <<otherVars, quitVars>>

RaceDayGoesOn ==
    /\ Served
    /\ \/ /\ bringUp = "hotspot" /\ Settled
          /\ bringUp' = IF owned THEN "mapper" ELSE "none"
          /\ UNCHANGED mapper
       \/ /\ bringUp = "mapper"
          /\ bringUp' = "none"
          /\ mapper' \in IF mapper = "off" THEN {"off", "up"} ELSE {mapper}
    /\ UNCHANGED <<authorityVars, quitVars>>

\* The program ends; or a forced stop did not take, and it counts again.
ProgramEnds ==
    /\ ~Continues
    /\ mapper # "off"
    /\ mapper' = "off"
    /\ UNCHANGED <<authorityVars, bringUp, quitVars>>

ProgramWouldNotStop ==
    /\ Served
    /\ mapper = "stopping"
    /\ mapper' = "up"
    /\ UNCHANGED <<authorityVars, bringUp, quitVars>>

PolicyNext ==
    \/ SettledForMapper
    \/ SettledForHotspot
    \/ SettledForStop
    \/ StopSucceeds
    \/ StopDoesNot

AnswerNext ==
    \/ MapperAnswered
    \/ HotspotAnswered
    \/ MapperAgainAnswered
    \/ PromptBreaks

WorldNext ==
    \/ PressStartHotspot
    \/ PressStopHotspot
    \/ PressRaceDay
    \/ PressStopRaceDay
    \/ HotspotSettles
    \/ HotspotIsWatched
    \/ RaceDayGoesOn
    \/ ProgramEnds
    \/ ProgramWouldNotStop

QuitNext == RequestQuit \/ PolicyNext \/ AnswerNext \/ WorldNext

QuitSpec == QuitInit /\ [][QuitNext]_quitPolicyVars
-----------------------------------------------------------------------------
\* The app is never gone from a hotspot it started unless the operator chose to
\* leave it on, or no prompt could be shown.  (quitPolicy.js:1-12)
HotspotIsNotAbandoned == gone /\ owned => answers \cap {"leave", "broken"} # {}

\* The stop of the drive program at the quit was agreed to.
\* (quitPolicy.js:14-20, 158-165)
ProgramIsNotStoppedUnasked ==
    [][mapper = "up" /\ gone' /\ ~gone => answers' \cap {"quit-mapper", "broken"} # {}]_quitPolicyVars

\* Only the operator keeps a quit waiting: a decision that is not at a prompt
\* gets to one or ends.  (quitPolicy.js:8-12)
DecisionMovesOn == decision \in Waits \cup {"stop"} ~> decision \in Prompts \cup {"none"}

\* A cancelled quit leaves the hotspot as it was found.
\* (quitPolicy.js:20-24, 143-147)
CancelHasNoEffect == decision = "none" /\ "cancel" \in answers => "stopped" \notin answers
=============================================================================
