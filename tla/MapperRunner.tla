---------------------------- MODULE MapperRunner ----------------------------
(***************************************************************************)
(* The managed lifecycle of the drive program: src/main/mapperRunner.js.   *)
(*                                                                         *)
(* The module keeps two pictures side by side.  One is what the runner     *)
(* believes (its fields: proc, stopping, stopFailed, ...).  The other is   *)
(* what the operating system knows (os, pipe, forced): the process of a    *)
(* child exists apart from the runner's handle on it, its death is         *)
(* reported later by an 'exit' event, and what it printed travels through  *)
(* a pipe of its own.  The properties say how far the first picture may    *)
(* drift from the second.                                                  *)
(*                                                                         *)
(* An operator named X_Y, here and in the other modules, is X with the bug *)
(* Y in it: no behaviour uses it, a property is shown to fail with it.     *)
(*                                                                         *)
(* Each handler of the code runs to completion before another (one         *)
(* JavaScript thread), so each is one action.  A start() or stop() that    *)
(* only refuses changes nothing and is not an action.                      *)
(***************************************************************************)
EXTENDS FiniteSets

CONSTANTS
    Child,      \* identities of the child processes that start() may spawn
    NoChild,    \* the null of this._proc
    Denied,     \* the children this app is not permitted to signal (EPERM)
    Win32       \* whether process.platform is 'win32'

ASSUME RunnerAssumption ==
    /\ NoChild \notin Child
    /\ Denied \subseteq Child
    /\ Win32 \in BOOLEAN

VARIABLES
    proc,         \* this._proc: the child the runner holds, or NoChild
    exitCode,     \* this._exitCode: "none", "code" or "spawn-error"
    stoppedByUs,  \* this._stoppedByUs
    stopping,     \* this._stopping: a delivered stop is in flight
    stopFailed,   \* this._stopFailed
    stopTimer,    \* this._stopTimer: the timer the runner can still cancel
    timers,       \* the timers that are pending in the event loop
    ring,         \* this._ring: the children whose lines it holds
    exitMessage,  \* this._exitMessage: the children it quotes, {} for null
    os,           \* the operating system's view of each child
    pipe,         \* the children whose output waits unread in the pipe
    forced,       \* the children a forced stop has reached
    run,          \* history: the child of the last start() that spawned
    asked         \* history: the children a stop() was issued for

runnerVars == <<proc, exitCode, stoppedByUs, stopping, stopFailed, stopTimer,
                timers, ring, exitMessage, os, pipe, forced, run, asked>>

Timer == [kind : {"escalate", "giveup"}, child : Child]
NoTimer == [kind |-> "none", child |-> NoChild]

\* (A timer that is armed without its child.)
EscalateTimer_OfNobody(c) == [kind |-> "escalate", child |-> NoChild]
EscalateTimer(c) == [kind |-> "escalate", child |-> c]
GiveUpTimer(c) == [kind |-> "giveup", child |-> c]

(***************************************************************************)
(* "failed": spawn returned a child whose asynchronous 'error' (ENOENT,    *)
(* EACCES) is queued for the next tick.  "exited": dead, its 'exit' event  *)
(* not delivered yet.  "gone": the last event of the child was delivered.  *)
(***************************************************************************)
OsState == {"unused", "failed", "alive", "exited", "gone"}

RunnerTypeOK ==
    /\ proc \in Child \cup {NoChild}
    /\ exitCode \in {"none", "code", "spawn-error"}
    /\ stoppedByUs \in BOOLEAN
    /\ stopping \in BOOLEAN
    /\ stopFailed \in BOOLEAN
    /\ stopTimer \in Timer \cup {NoTimer}
    /\ timers \in SUBSET Timer
    /\ ring \in SUBSET Child
    /\ exitMessage \in SUBSET Child
    /\ os \in [Child -> OsState]
    /\ pipe \in SUBSET Child
    /\ forced \in SUBSET Child
    /\ run \in Child \cup {NoChild}
    /\ asked \in SUBSET Child

RunnerInit ==
    /\ proc = NoChild
    /\ exitCode = "none"
    /\ stoppedByUs = FALSE
    /\ stopping = FALSE
    /\ stopFailed = FALSE
    /\ stopTimer = NoTimer
    /\ timers = {}
    /\ ring = {}
    /\ exitMessage = {}
    /\ os = [c \in Child |-> "unused"]
    /\ pipe = {}
    /\ forced = {}
    /\ run = NoChild
    /\ asked = {}

-----------------------------------------------------------------------------
\* What status() reports.
Running == proc # NoChild /\ ~stopping

\* A failed spawn reports its 'error' on the next tick, before any timer,
\* message or user input is served.
TickDrained == \A c \in Child : os[c] # "failed"

\* _clearStopTimer(): only the timer the runner still has a handle on.
WithoutStopTimer == timers \ {stopTimer}

\* _settleStop()
SettleStop_KeepsTheReport ==
    /\ timers' = WithoutStopTimer
    /\ stopTimer' = NoTimer
    /\ stopping' = FALSE
    /\ UNCHANGED stopFailed

SettleStop ==
    /\ timers' = WithoutStopTimer
    /\ stopTimer' = NoTimer
    /\ stopping' = FALSE
    /\ stopFailed' = FALSE

\* What start() resets for a new run.
FreshRun_KeepsBlame ==
    /\ exitCode' = "none"
    /\ exitMessage' = {}
    /\ ring' = {}
    /\ UNCHANGED stoppedByUs

FreshRun ==
    /\ exitCode' = "none"
    /\ stoppedByUs' = FALSE
    /\ exitMessage' = {}
    /\ ring' = {}

\* start(): proc is free; the spawn succeeds, or fails asynchronously.  (A
\* spawn that throws, a missing path or a held proc change nothing.)
Start(c) ==
    /\ TickDrained
    /\ proc = NoChild
    /\ os[c] = "unused"
    /\ \E outcome \in {"alive", "failed"} : os' = [os EXCEPT ![c] = outcome]
    /\ proc' = c
    /\ run' = c
    /\ FreshRun
    /\ SettleStop
    /\ UNCHANGED <<pipe, forced, asked>>

\* The child's 'error' handler: the runner treats the child as exited.
HandleError(c) ==
    /\ proc = c
    /\ ring' = ring \cup {c}
    /\ proc' = NoChild
    /\ exitCode' = "spawn-error"
    /\ exitMessage' = ring'

SpawnError(c) ==
    /\ os[c] = "failed"
    /\ HandleError(c)
    /\ SettleStop
    /\ os' = [os EXCEPT ![c] = "gone"]
    /\ UNCHANGED <<stoppedByUs, pipe, forced, run, asked>>

\* What the card quotes of a child that exited.
LastWords == IF stoppedByUs THEN {} ELSE ring

\* The child's 'exit' handler.
Exit(c) ==
    /\ TickDrained
    /\ os[c] = "exited"
    /\ proc = c
    /\ os' = [os EXCEPT ![c] = "gone"]
    /\ proc' = NoChild
    /\ SettleStop
    /\ exitCode' = "code"
    /\ exitMessage' = LastWords
    /\ UNCHANGED <<stoppedByUs, ring, pipe, forced, run, asked>>

\* The same event for a child the runner no longer holds: ignored.
StaleExit_Unguarded(c) ==
    /\ TickDrained
    /\ os[c] = "exited"
    /\ os' = [os EXCEPT ![c] = "gone"]
    /\ proc' = NoChild
    /\ UNCHANGED <<exitCode, stoppedByUs, stopping, stopFailed, stopTimer, timers,
                   ring, exitMessage, pipe, forced, run, asked>>

StaleExit(c) ==
    /\ TickDrained
    /\ os[c] = "exited"
    /\ proc # c
    /\ os' = [os EXCEPT ![c] = "gone"]
    /\ UNCHANGED <<proc, exitCode, stoppedByUs, stopping, stopFailed, stopTimer,
                   timers, ring, exitMessage, pipe, forced, run, asked>>

\* A 'data' event of stdout or stderr: _record has no identity guard.
Data(c) ==
    /\ TickDrained
    /\ c \in pipe
    /\ pipe' = pipe \ {c}
    /\ ring' = ring \cup {c}
    /\ UNCHANGED <<proc, exitCode, stoppedByUs, stopping, stopFailed, stopTimer,
                   timers, exitMessage, os, forced, run, asked>>
-----------------------------------------------------------------------------
(***************************************************************************)
(* stop() with a child held and no stop in flight.  The four actions are   *)
(* the four answers of ChildProcess.kill(): true; an exception; false for  *)
(* a process that is gone (ESRCH, which POSIX does not answer for a child  *)
(* that was not reaped); false after emitting 'error' (EPERM).             *)
(***************************************************************************)
StopIssued(c) ==
    /\ TickDrained
    /\ proc = c
    /\ ~stopping
    /\ stoppedByUs' = TRUE
    /\ asked' = asked \cup {c}

StopDelivered(c) ==
    /\ StopIssued(c)
    /\ \/ os[c] = "alive" /\ c \notin Denied
       \/ os[c] = "exited" /\ ~Win32
    /\ stopping' = TRUE
    /\ timers' = timers \cup {EscalateTimer(c)}
    /\ stopTimer' = EscalateTimer(c)
    /\ UNCHANGED <<proc, exitCode, stopFailed, ring, exitMessage, os, pipe,
                   forced, run>>

StopThrows(c) ==
    /\ StopIssued(c)
    /\ os[c] = "alive"
    /\ UNCHANGED <<proc, exitCode, stopping, stopFailed, stopTimer, timers, ring,
                   exitMessage, os, pipe, forced, run>>

\* The signal of a forced stop: SIGKILL on POSIX, taskkill of the tree on
\* Windows, which may fail without telling.  (A child that SIGKILL is denied
\* was denied the polite signal too, and is no longer held.)
ForceReaches(c) ==
    \/ /\ os[c] = "alive" /\ c \notin Denied
       /\ forced' = forced \cup {c}
    \/ /\ Win32 \/ os[c] # "alive"
       /\ forced' = forced

\* _escalate(child) for the child that is still held.
Escalate_NoGiveUp(c, pending) ==
    /\ ForceReaches(c)
    /\ timers' = pending
    /\ stopTimer' = NoTimer

Escalate(c, pending) ==
    /\ ForceReaches(c)
    /\ timers' = pending \cup {GiveUpTimer(c)}
    /\ stopTimer' = GiveUpTimer(c)

StopUndelivered(c) ==
    /\ StopIssued(c)
    /\ os[c] = "exited" /\ Win32
    /\ stopFailed' = TRUE
    /\ Escalate(c, WithoutStopTimer)
    /\ UNCHANGED <<proc, exitCode, stopping, ring, exitMessage, os, pipe, run>>

\* The 'error' handler runs inside kill(); the rest of stop() then finds a
\* child that is no longer held, so _escalate returns at once.
StopDenied(c) ==
    /\ StopIssued(c)
    /\ os[c] = "alive" /\ c \in Denied
    /\ HandleError(c)
    /\ timers' = WithoutStopTimer
    /\ stopTimer' = NoTimer
    /\ stopping' = FALSE
    /\ stopFailed' = TRUE
    /\ UNCHANGED <<os, pipe, forced, run>>

\* ESCALATE_MS after a delivered stop.
FireEscalate_Interval(c) ==
    /\ TickDrained
    /\ EscalateTimer(c) \in timers
    /\ proc = c /\ Escalate(c, timers)
    /\ UNCHANGED <<proc, exitCode, stoppedByUs, stopping, stopFailed, ring,
                   exitMessage, os, pipe, run, asked>>

FireEscalate(c) ==
    /\ TickDrained
    /\ EscalateTimer(c) \in timers
    /\ IF proc = c
       THEN Escalate(c, timers \ {EscalateTimer(c)})
       ELSE /\ timers' = timers \ {EscalateTimer(c)}
            /\ stopTimer' = NoTimer
            /\ forced' = forced
    /\ UNCHANGED <<proc, exitCode, stoppedByUs, stopping, stopFailed, ring,
                   exitMessage, os, pipe, run, asked>>

\* GIVE_UP_MS after a forced stop.
FireGiveUp(c) ==
    /\ TickDrained
    /\ GiveUpTimer(c) \in timers
    /\ timers' = timers \ {GiveUpTimer(c)}
    /\ stopTimer' = NoTimer
    /\ stopFailed' = (stopFailed \/ proc = c)
    /\ stopping' = (stopping /\ proc # c)
    /\ UNCHANGED <<proc, exitCode, stoppedByUs, ring, exitMessage, os, pipe,
                   forced, run, asked>>
-----------------------------------------------------------------------------
\* The process itself: it prints a line, and it dies, of its own accord, of the
\* polite signal or of the forced one.
Output(c) ==
    /\ os[c] = "alive"
    /\ c \notin pipe
    /\ pipe' = pipe \cup {c}
    /\ UNCHANGED <<proc, exitCode, stoppedByUs, stopping, stopFailed, stopTimer,
                   timers, ring, exitMessage, os, forced, run, asked>>

Die(c) ==
    /\ os[c] = "alive"
    /\ os' = [os EXCEPT ![c] = "exited"]
    /\ UNCHANGED <<proc, exitCode, stoppedByUs, stopping, stopFailed, stopTimer,
                   timers, ring, exitMessage, pipe, forced, run, asked>>

ForcedDeath(c) == c \in forced /\ Die(c)

StopPressed(c) ==
    StopDelivered(c) \/ StopThrows(c) \/ StopUndelivered(c) \/ StopDenied(c)

RunnerNext == \E c \in Child :
    \/ Start(c)
    \/ SpawnError(c)
    \/ Exit(c)
    \/ StaleExit(c)
    \/ Data(c)
    \/ StopDelivered(c)
    \/ StopThrows(c)
    \/ StopUndelivered(c)
    \/ StopDenied(c)
    \/ FireEscalate(c)
    \/ FireGiveUp(c)
    \/ Output(c)
    \/ Die(c)

RunnerSpec == RunnerInit /\ [][RunnerNext]_runnerVars

(***************************************************************************)
(* Timers fire, events are delivered, and a process that SIGKILL reached   *)
(* dies.  Nothing makes the operator press a button, and nothing makes a   *)
(* process die of a polite signal.                                         *)
(***************************************************************************)
ErrorFair(c)    == WF_runnerVars(SpawnError(c))
ExitFair(c)     == WF_runnerVars(Exit(c))
EscalateFair(c) == WF_runnerVars(FireEscalate(c))
GiveUpFair(c)   == WF_runnerVars(FireGiveUp(c))
DeathFair(c)    == WF_runnerVars(ForcedDeath(c))

RunnerFairness == \A c \in Child :
    /\ ErrorFair(c) /\ ExitFair(c)
    /\ EscalateFair(c) /\ GiveUpFair(c)
    /\ DeathFair(c)

RunnerFairSpec == RunnerSpec /\ RunnerFairness
-----------------------------------------------------------------------------
\* A live drive program this app may signal is the one the runner holds: no
\* start, stop, error or exit ever drops the handle on a program that still
\* drives the car, and no two of them drive it at once.
HoldsTheLiving == \A c \in Child \ Denied : os[c] \in {"failed", "alive"} => proc = c

\* The card may not read "not running" for good: a stop that hides the
\* program (status().running false from the press on) always has a clock
\* running that will either see it dead or take the claim back.
StopHasItsClock == stopping => /\ proc # NoChild
                               /\ \E t \in timers : t.child = proc

\* No timer escapes _clearStopTimer: whatever is pending is the timer the
\* runner can cancel, and the escalation is only ever pending for the child
\* it was armed for, never for a pid the system may have reused.
NoStrayTimer ==
    /\ timers \subseteq {stopTimer}
    /\ \A t \in timers : t.child = proc

\* A death is called ours only if a stop was issued for that very child, so a
\* crash of the next run is never drawn as a requested shutdown.
BlameOnlyIfAsked == stoppedByUs => run \in asked

\* "It would not stop and is still running" is only said of a program that
\* is held, or that this app may not signal.
StopFailedHasASubject == stopFailed => proc # NoChild \/ run \in Denied

\* The last words are shown for a program that ended by itself: a stop this
\* app asked for carries no message, unless the signal was refused.
StoppedRunSaysNothing ==
    exitMessage # {} /\ run \in asked => run \in Denied

\* Through failed spawns, refused signals, forced stops and late exits the run
\* stays in hand: the living program is held, its stop is timed by the one timer
\* that can be cancelled, and what is told of its end is told of this run.
\* (mapperRunner.js:157-222, 240-341)
RunIsInHand ==
    /\ HoldsTheLiving
    /\ StopHasItsClock /\ NoStrayTimer
    /\ BlameOnlyIfAsked /\ StopFailedHasASubject /\ StoppedRunSaysNothing

\* The clock of a stop is never held up: a timer that is pending can fire, also
\* while spawns fail and programs die, and firing it gets the stop somewhere.
\* (mapperRunner.js:277-280, 302-309)
Escalating(c) == EscalateTimer(c) \in timers
GivingUp(c) == GiveUpTimer(c) \in timers
EscalateCanFire(c) == ENABLED <<FireEscalate(c)>>_runnerVars
GiveUpCanFire(c) == ENABLED <<FireGiveUp(c)>>_runnerVars

TimersCanFire == \A c \in Child :
    /\ Escalating(c) => EscalateCanFire(c)
    /\ GivingUp(c) => GiveUpCanFire(c)

\* A stop in flight is settled: the program is seen dead, or the card gets
\* "it would not stop" with STOP back on it.
StopSettles == \A c \in Child :
    (proc = c /\ stopping) ~> (proc # c \/ stopFailed)

\* The programs this app may signal that are alive, and the word the rest of
\* the app gets of them.
Driving == {c \in Child \ Denied : os[c] = "alive"}
Word == CASE proc = NoChild -> "off"
          [] proc # NoChild /\ stopping -> "stopping"
          [] Running -> "running"

Drive == INSTANCE DriveProgram
         WITH Program <- Child \ Denied, living <- Driving, word <- Word,
              stuck <- stopFailed, ours <- stoppedByUs

\* Through spawns that fail, signals that are refused, timers and late exits,
\* what status() tells is what the abstract drive program promises: no second
\* one beside a living one, no "off" over a living one, and no stop that is
\* forgotten.
ImplementsDriveProgram == Drive!DriveSpec
=============================================================================
