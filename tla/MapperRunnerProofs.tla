------------------------- MODULE MapperRunnerProofs -------------------------
(***************************************************************************)
(* What TLAPS proves of MapperRunner, for every set of children, every set *)
(* of children the app may not signal, and both platforms.                 *)
(***************************************************************************)
EXTENDS MapperRunner, TLAPS

USE DEF Timer, NoTimer, EscalateTimer, GiveUpTimer

\* The runner's fields and the history of its runs have their types in every
\* reachable state.
THEOREM TypeCorrect == RunnerSpec => []RunnerTypeOK
<1> USE RunnerAssumption DEF RunnerTypeOK, OsState
<1>1. RunnerInit => RunnerTypeOK
  BY DEF RunnerInit
<1>2. RunnerTypeOK /\ [RunnerNext]_runnerVars => RunnerTypeOK'
  <2> SUFFICES ASSUME RunnerTypeOK, [RunnerNext]_runnerVars
               PROVE  RunnerTypeOK'
    OBVIOUS
  <2>1. ASSUME NEW c \in Child, Start(c) PROVE RunnerTypeOK'
    BY <2>1 DEF Start, FreshRun, SettleStop, WithoutStopTimer
  <2>2. ASSUME NEW c \in Child, SpawnError(c) PROVE RunnerTypeOK'
    BY <2>2 DEF SpawnError, HandleError, SettleStop, WithoutStopTimer
  <2>3. ASSUME NEW c \in Child, Exit(c) PROVE RunnerTypeOK'
    BY <2>3 DEF Exit, LastWords, SettleStop, WithoutStopTimer
  <2>4. ASSUME NEW c \in Child, StaleExit(c) PROVE RunnerTypeOK'
    BY <2>4 DEF StaleExit
  <2>5. ASSUME NEW c \in Child, Data(c) PROVE RunnerTypeOK'
    BY <2>5 DEF Data
  <2>6. ASSUME NEW c \in Child, StopDelivered(c) PROVE RunnerTypeOK'
    BY <2>6 DEF StopDelivered, StopIssued
  <2>7. ASSUME NEW c \in Child, StopThrows(c) PROVE RunnerTypeOK'
    BY <2>7 DEF StopThrows, StopIssued
  <2>8. ASSUME NEW c \in Child, StopUndelivered(c) PROVE RunnerTypeOK'
    BY <2>8 DEF StopUndelivered, StopIssued, Escalate, ForceReaches,
                WithoutStopTimer
  <2>9. ASSUME NEW c \in Child, StopDenied(c) PROVE RunnerTypeOK'
    BY <2>9 DEF StopDenied, StopIssued, HandleError, WithoutStopTimer
  <2>10. ASSUME NEW c \in Child, FireEscalate(c) PROVE RunnerTypeOK'
    <3>1. CASE proc = c
      BY <2>10, <3>1 DEF FireEscalate, Escalate, ForceReaches
    <3>2. CASE proc # c
      BY <2>10, <3>2 DEF FireEscalate
    <3> QED
      BY <3>1, <3>2
  <2>11. ASSUME NEW c \in Child, FireGiveUp(c) PROVE RunnerTypeOK'
    BY <2>11 DEF FireGiveUp
  <2>12. ASSUME NEW c \in Child, Output(c) PROVE RunnerTypeOK'
    BY <2>12 DEF Output
  <2>13. ASSUME NEW c \in Child, Die(c) PROVE RunnerTypeOK'
    BY <2>13 DEF Die
  <2>14. CASE UNCHANGED runnerVars
    BY <2>14 DEF runnerVars
  <2> QED
    BY <2>1, <2>2, <2>3, <2>4, <2>5, <2>6, <2>7, <2>8, <2>9, <2>10, <2>11,
       <2>12, <2>13, <2>14 DEF RunnerNext
<1> QED
  BY <1>1, <1>2, PTL DEF RunnerSpec

-----------------------------------------------------------------------------
(***************************************************************************)
(* The handle.  HoldsTheLiving is not inductive as it stands: a program    *)
(* that died is still held until its exit is delivered, which is what lets *)
(* start() conclude from a null handle that nothing else is alive.         *)
(***************************************************************************)
HoldInv == \A c \in Child \ Denied :
    os[c] \in {"failed", "alive", "exited"} => proc = c

\* Every step of the runner keeps the handle on the living child.
LEMMA HoldStep == RunnerTypeOK /\ HoldInv /\ [RunnerNext]_runnerVars => HoldInv'
<1> SUFFICES ASSUME RunnerTypeOK, HoldInv, [RunnerNext]_runnerVars
             PROVE  HoldInv'
  OBVIOUS
<1> USE RunnerAssumption DEF RunnerTypeOK, HoldInv
<1>1. ASSUME NEW c \in Child, Start(c) PROVE HoldInv'
  BY <1>1 DEF Start
<1>2. ASSUME NEW c \in Child, SpawnError(c) PROVE HoldInv'
  BY <1>2 DEF SpawnError, HandleError
<1>3. ASSUME NEW c \in Child, Exit(c) PROVE HoldInv'
  BY <1>3 DEF Exit
<1>4. ASSUME NEW c \in Child, StaleExit(c) PROVE HoldInv'
  BY <1>4 DEF StaleExit
<1>5. ASSUME NEW c \in Child, Die(c) PROVE HoldInv'
  BY <1>5 DEF Die
<1>6. ASSUME NEW c \in Child, StopDenied(c) PROVE HoldInv'
  BY <1>6 DEF StopDenied, StopIssued, HandleError
<1>7. ASSUME NEW c \in Child,
             \/ Data(c) \/ Output(c) \/ FireGiveUp(c) \/ FireEscalate(c)
             \/ StopDelivered(c) \/ StopThrows(c) \/ StopUndelivered(c)
      PROVE  HoldInv'
  BY <1>7 DEF Data, Output, FireGiveUp, FireEscalate, StopDelivered, StopThrows,
              StopUndelivered
<1>8. CASE UNCHANGED runnerVars
  BY <1>8 DEF runnerVars
<1> QED
  BY <1>1, <1>2, <1>3, <1>4, <1>5, <1>6, <1>7, <1>8 DEF RunnerNext

\* Whatever the operator presses and however the program ends, the runner
\* never loses its handle on a live drive program it may signal, and never
\* starts a second one beside it.
THEOREM HandleIsNeverLost == RunnerSpec => []HoldsTheLiving
<1>1. RunnerInit => HoldInv
  BY DEF RunnerInit, HoldInv
<1>2. HoldInv => HoldsTheLiving
  BY DEF HoldInv, HoldsTheLiving
<1> QED
  BY <1>1, <1>2, HoldStep, TypeCorrect, PTL DEF RunnerSpec
-----------------------------------------------------------------------------
(***************************************************************************)
(* The clock of a stop.  A timer that is pending while no stop is in       *)
(* flight was armed by a stop that Windows answered with "no such          *)
(* process": that program is already dead, so no later stop can be         *)
(* delivered to it and arm a second timer over the first.                  *)
(***************************************************************************)
IdleClock == timers # {} /\ ~stopping => Win32 /\ os[proc] = "exited"
ClockInv == StopHasItsClock /\ NoStrayTimer /\ IdleClock

\* Every step keeps the clock of a stop, and the timers within reach.
LEMMA ClockStep == RunnerTypeOK /\ ClockInv /\ [RunnerNext]_runnerVars => ClockInv'
<1> SUFFICES ASSUME RunnerTypeOK, ClockInv, [RunnerNext]_runnerVars
             PROVE  ClockInv'
  OBVIOUS
<1> USE RunnerAssumption
    DEF RunnerTypeOK, ClockInv, StopHasItsClock, NoStrayTimer, IdleClock
<1>1. ASSUME NEW c \in Child, Start(c) PROVE ClockInv'
  BY <1>1 DEF Start, FreshRun, SettleStop, WithoutStopTimer
<1>2. ASSUME NEW c \in Child, SpawnError(c) PROVE ClockInv'
  BY <1>2 DEF SpawnError, SettleStop, WithoutStopTimer
<1>3. ASSUME NEW c \in Child, Exit(c) PROVE ClockInv'
  BY <1>3 DEF Exit, LastWords, SettleStop, WithoutStopTimer
<1>4. ASSUME NEW c \in Child, StaleExit(c) PROVE ClockInv'
  BY <1>4 DEF StaleExit
<1>5. ASSUME NEW c \in Child, Die(c) PROVE ClockInv'
  BY <1>5 DEF Die
<1>6. ASSUME NEW c \in Child, Data(c) \/ Output(c) PROVE ClockInv'
  BY <1>6 DEF Data, Output
<1>7. ASSUME NEW c \in Child, StopDelivered(c) PROVE ClockInv'
  <2>1. timers = {}
    BY <1>7 DEF StopDelivered, StopIssued
  <2> QED
    BY <1>7, <2>1 DEF StopDelivered, StopIssued
<1>8. ASSUME NEW c \in Child, StopThrows(c) PROVE ClockInv'
  BY <1>8 DEF StopThrows
<1>9. ASSUME NEW c \in Child, StopUndelivered(c) PROVE ClockInv'
  BY <1>9 DEF StopUndelivered, StopIssued, Escalate, WithoutStopTimer
<1>10. ASSUME NEW c \in Child, StopDenied(c) PROVE ClockInv'
  BY <1>10 DEF StopDenied, WithoutStopTimer
<1>11. ASSUME NEW c \in Child, FireEscalate(c) PROVE ClockInv'
  <2>1. proc = c /\ timers \ {EscalateTimer(c)} = {}
    BY <1>11 DEF FireEscalate
  <2>2. /\ timers' = {GiveUpTimer(c)} /\ stopTimer' = GiveUpTimer(c)
        /\ proc' = c /\ stopping' = stopping /\ os' = os
    BY <1>11, <2>1 DEF FireEscalate, Escalate
  <2>3. timers # {} /\ proc = c
    BY <1>11, <2>1 DEF FireEscalate
  <2> QED
    BY <2>2, <2>3
<1>12. ASSUME NEW c \in Child, FireGiveUp(c) PROVE ClockInv'
  BY <1>12 DEF FireGiveUp
<1>13. CASE UNCHANGED runnerVars
  BY <1>13 DEF runnerVars
<1> QED
  BY <1>1, <1>2, <1>3, <1>4, <1>5, <1>6, <1>7, <1>8, <1>9, <1>10, <1>11,
     <1>12, <1>13 DEF RunnerNext

\* A stop that took the claim "running" back is always being timed, and no
\* timer is ever pending that the runner could not cancel or that belongs to
\* a child it no longer holds.
THEOREM StopIsAlwaysTimed == RunnerSpec => [](StopHasItsClock /\ NoStrayTimer)
<1>1. RunnerInit => ClockInv
  BY DEF RunnerInit, ClockInv, StopHasItsClock, NoStrayTimer, IdleClock
<1>2. ClockInv => StopHasItsClock /\ NoStrayTimer
  BY DEF ClockInv
<1> QED
  BY <1>1, <1>2, ClockStep, TypeCorrect, PTL DEF RunnerSpec
-----------------------------------------------------------------------------
(***************************************************************************)
(* Who ended the run.  The flag stoppedByUs, the failure report and the    *)
(* quoted message all speak of the latest run; a stop is only ever issued  *)
(* for a program that really ran, so the asynchronous 'error' of a failed  *)
(* spawn is never answered as a requested stop.                            *)
(***************************************************************************)
RunInv ==
    /\ proc # NoChild => run = proc /\ exitMessage = {}
    /\ proc # NoChild /\ run \in asked => stoppedByUs
    /\ \A c \in asked : os[c] \notin {"unused", "failed"}

BlameInv ==
    /\ RunInv
    /\ BlameOnlyIfAsked
    /\ StopFailedHasASubject
    /\ StoppedRunSaysNothing

\* Every step keeps the end of a run attributed to who caused it.
LEMMA BlameStep == RunnerTypeOK /\ BlameInv /\ [RunnerNext]_runnerVars => BlameInv'
<1> SUFFICES ASSUME RunnerTypeOK, BlameInv, [RunnerNext]_runnerVars
             PROVE  BlameInv'
  OBVIOUS
<1> USE RunnerAssumption
    DEF RunnerTypeOK, BlameInv, RunInv, BlameOnlyIfAsked,
        StopFailedHasASubject, StoppedRunSaysNothing
<1>1. ASSUME NEW c \in Child, Start(c) PROVE BlameInv'
  BY <1>1 DEF Start, FreshRun, SettleStop
<1>2. ASSUME NEW c \in Child, SpawnError(c) PROVE BlameInv'
  BY <1>2 DEF SpawnError, HandleError, SettleStop
<1>3. ASSUME NEW c \in Child, Exit(c) PROVE BlameInv'
  BY <1>3 DEF Exit, LastWords, SettleStop
<1>4. ASSUME NEW c \in Child, StaleExit(c) PROVE BlameInv'
  BY <1>4 DEF StaleExit
<1>5. ASSUME NEW c \in Child, Die(c) PROVE BlameInv'
  BY <1>5 DEF Die
<1>6. ASSUME NEW c \in Child, Data(c) \/ Output(c) PROVE BlameInv'
  BY <1>6 DEF Data, Output
<1>7. ASSUME NEW c \in Child, StopDelivered(c) PROVE BlameInv'
  BY <1>7 DEF StopDelivered, StopIssued
<1>8. ASSUME NEW c \in Child, StopThrows(c) PROVE BlameInv'
  BY <1>8 DEF StopThrows, StopIssued
<1>9. ASSUME NEW c \in Child, StopUndelivered(c) PROVE BlameInv'
  BY <1>9 DEF StopUndelivered, StopIssued
<1>10. ASSUME NEW c \in Child, StopDenied(c) PROVE BlameInv'
  BY <1>10 DEF StopDenied, StopIssued, HandleError
<1>11. ASSUME NEW c \in Child, FireEscalate(c) PROVE BlameInv'
  BY <1>11 DEF FireEscalate
<1>12. ASSUME NEW c \in Child, FireGiveUp(c) PROVE BlameInv'
  BY <1>12 DEF FireGiveUp
<1>13. CASE UNCHANGED runnerVars
  BY <1>13 DEF runnerVars
<1> QED
  BY <1>1, <1>2, <1>3, <1>4, <1>5, <1>6, <1>7, <1>8, <1>9, <1>10, <1>11,
     <1>12, <1>13 DEF RunnerNext

\* A crash is never drawn as a requested shutdown, "it would not stop" always
\* has a program it is said of, and a stopped run carries no last words.
THEOREM EndOfRunIsAttributed ==
    RunnerSpec => [](BlameOnlyIfAsked /\ StopFailedHasASubject
                     /\ StoppedRunSaysNothing)
<1>1. RunnerInit => BlameInv
  BY RunnerAssumption
     DEF RunnerInit, BlameInv, RunInv, BlameOnlyIfAsked,
         StopFailedHasASubject, StoppedRunSaysNothing
<1>2. BlameInv => BlameOnlyIfAsked /\ StopFailedHasASubject
                  /\ StoppedRunSaysNothing
  BY DEF BlameInv
<1> QED
  BY <1>1, <1>2, BlameStep, TypeCorrect, PTL DEF RunnerSpec

\* RunIsInHand: all of it together.
THEOREM TheRunIsInHand == RunnerSpec => []RunIsInHand
BY HandleIsNeverLost, StopIsAlwaysTimed, EndOfRunIsAttributed, PTL DEF RunIsInHand
-----------------------------------------------------------------------------
(***************************************************************************)
(* The runner implements the abstract drive program.  The steps need what  *)
(* was shown above -- a living program is held (HoldInv), a pending timer  *)
(* is of the program that is held (NoStrayTimer) -- and that a timer only  *)
(* runs for a stop of our own, which is what makes "it would not stop" an  *)
(* answer to somebody who asked.                                           *)
(***************************************************************************)
TimedByUs == timers # {} => stoppedByUs

\* No step leaves a stop's timer pending for a program nobody asked to stop.
LEMMA TimedStep ==
    RunnerTypeOK /\ NoStrayTimer /\ TimedByUs /\ [RunnerNext]_runnerVars => TimedByUs'
<1> SUFFICES ASSUME RunnerTypeOK, NoStrayTimer, TimedByUs, [RunnerNext]_runnerVars
             PROVE  TimedByUs'
  OBVIOUS
<1> USE RunnerAssumption DEF RunnerTypeOK, NoStrayTimer, TimedByUs
<1>1. ASSUME NEW c \in Child, Start(c) PROVE TimedByUs'
  BY <1>1 DEF Start, SettleStop, WithoutStopTimer
<1>2. ASSUME NEW c \in Child, SpawnError(c) PROVE TimedByUs'
  BY <1>2 DEF SpawnError, SettleStop, WithoutStopTimer
<1>3. ASSUME NEW c \in Child, Exit(c) PROVE TimedByUs'
  BY <1>3 DEF Exit, SettleStop, WithoutStopTimer
<1>4. ASSUME NEW c \in Child, StopPressed(c) PROVE TimedByUs'
  BY <1>4 DEF StopPressed, StopDelivered, StopThrows, StopUndelivered, StopDenied,
              StopIssued
<1>5. ASSUME NEW c \in Child, FireEscalate(c) PROVE TimedByUs'
  BY <1>5 DEF FireEscalate
<1>6. ASSUME NEW c \in Child, FireGiveUp(c) PROVE TimedByUs'
  BY <1>6 DEF FireGiveUp
<1>7. ASSUME NEW c \in Child,
             StaleExit(c) \/ Data(c) \/ Output(c) \/ Die(c)
      PROVE  TimedByUs'
  BY <1>7 DEF StaleExit, Data, Output, Die
<1>8. CASE UNCHANGED runnerVars
  BY <1>8 DEF runnerVars
<1> QED
  BY <1>1, <1>2, <1>3, <1>4, <1>5, <1>6, <1>7, <1>8 DEF RunnerNext, StopPressed

\* What the word of status() is, case by case.
LEMMA WordOfStatus ==
    /\ proc = NoChild => Word = "off"
    /\ proc # NoChild /\ stopping => Word = "stopping"
    /\ proc # NoChild /\ ~stopping => Word = "running"
BY DEF Word, Running

\* A step that keeps the handle and the claim keeps the word.
LEMMA WordStays == proc' = proc /\ stopping' = stopping => Word' = Word
BY DEF Word, Running

\* While the held program is dead, or is one the app may not signal, none of
\* the programs it may signal is alive.
LEMMA NoneDriving ==
    ASSUME RunnerTypeOK, HoldInv, proc \in Child => os[proc] # "alive" \/ proc \in Denied
    PROVE  Driving = {}
BY DEF RunnerTypeOK, HoldInv, Driving

\* What a step of the runner may rest on.
DriveInv == RunnerTypeOK /\ HoldInv /\ ClockInv /\ TimedByUs

\* Every step of the runner is a step of the abstract drive program, or none.
LEMMA DriveStep ==
    DriveInv /\ [RunnerNext]_runnerVars => [Drive!DriveNext]_(Drive!driveVars)
<1> SUFFICES ASSUME DriveInv, [RunnerNext]_runnerVars
             PROVE  Drive!DriveNext \/ UNCHANGED Drive!driveVars
  OBVIOUS
<1> USE RunnerAssumption
<1>0. RunnerTypeOK /\ HoldInv /\ NoStrayTimer /\ TimedByUs
  BY DEF DriveInv, ClockInv
<1>1. ASSUME NEW c \in Child, Start(c) PROVE Drive!Launch
  <2>1. Word = "off" /\ Driving = {}
    BY <1>0, <1>1, WordOfStatus, NoneDriving DEF Start
  <2>2. proc' # NoChild /\ ~stopping' /\ stopFailed' = FALSE /\ stoppedByUs' = FALSE
    BY <1>1 DEF Start, SettleStop, FreshRun
  <2>3. Word' = "running"
    BY <2>2 DEF Word, Running
  <2>4. Driving' = {} \/ \E p \in Child \ Denied : Driving' = {p}
    <3>1. \A d \in Child \ Denied : d # c => os'[d] # "alive"
      BY <1>0, <1>1 DEF Start, RunnerTypeOK, HoldInv
    <3>2. Driving' \subseteq {c}
      BY <3>1 DEF Driving
    <3> QED
      BY <3>2 DEF Driving
  <2> QED
    BY <2>1, <2>2, <2>3, <2>4 DEF Drive!Launch
<1>2. ASSUME NEW c \in Child, SpawnError(c) \/ Exit(c) PROVE Drive!EndSeen
  <2>1. /\ proc = c /\ os[c] # "alive" /\ proc' = NoChild
        /\ os' = [os EXCEPT ![c] = "gone"]
        /\ stopFailed' = FALSE /\ stoppedByUs' = stoppedByUs
    BY <1>2 DEF SpawnError, HandleError, Exit, SettleStop
  <2>2. Word # "off" /\ Word' = "off"
    BY <2>1 DEF Word, Running
  <2>3. Driving = {}
    BY <1>0, <2>1, NoneDriving
  <2>4. Driving' = {}
    BY <1>0, <2>1, <2>3 DEF Driving, RunnerTypeOK
  <2> QED
    BY <2>1, <2>2, <2>3, <2>4 DEF Drive!EndSeen
<1>3. ASSUME NEW c \in Child, StopPressed(c)
      PROVE  Drive!AskStop \/ Drive!StopRefused
  <2>1. /\ proc = c /\ ~stopping /\ stoppedByUs' = TRUE
        /\ os' = os /\ Word = "running" /\ Driving' = Driving
    BY <1>3 DEF StopPressed, StopDelivered, StopThrows, StopUndelivered, StopDenied,
                StopIssued, Word, Running, Driving
  <2>2. CASE StopDelivered(c)
    <3>1. Word' = "stopping" /\ stopFailed' = stopFailed
      BY <2>1, <2>2 DEF StopDelivered, Word, Running
    <3> QED
      BY <2>1, <3>1 DEF Drive!AskStop
  <2>3. CASE StopThrows(c)
    <3>1. Word' = "running" /\ stopFailed' = stopFailed
      BY <2>1, <2>3 DEF StopThrows, Word, Running
    <3> QED
      BY <2>1, <3>1 DEF Drive!AskStop
  <2>4. CASE StopUndelivered(c)
    <3>1. Word' = "running" /\ stopFailed' = TRUE
      BY <2>1, <2>4 DEF StopUndelivered, Word, Running
    <3>2. Driving = {}
      BY <1>0, <2>1, <2>4, NoneDriving DEF StopUndelivered
    <3> QED
      BY <2>1, <3>1, <3>2 DEF Drive!AskStop
  <2>5. CASE StopDenied(c)
    <3>1. Word' = "off" /\ stopFailed' = TRUE
      BY <2>5 DEF StopDenied, HandleError, Word, Running
    <3>2. Driving = {}
      BY <1>0, <2>1, <2>5, NoneDriving DEF StopDenied
    <3> QED
      BY <2>1, <3>1, <3>2 DEF Drive!StopRefused
  <2> QED
    BY <1>3, <2>2, <2>3, <2>4, <2>5 DEF StopPressed
<1>4. ASSUME NEW c \in Child, FireGiveUp(c) PROVE Drive!WouldNotStop
  <2>1. proc = c /\ stoppedByUs
    BY <1>0, <1>4 DEF FireGiveUp, NoStrayTimer, TimedByUs
  <2>2. /\ proc' = c /\ ~stopping' /\ stopFailed' = TRUE
        /\ stoppedByUs' = stoppedByUs /\ os' = os
    BY <1>4, <2>1 DEF FireGiveUp
  <2>3. Word # "off" /\ Word' = "running" /\ Driving' = Driving
    BY <2>1, <2>2 DEF Word, Running, Driving
  <2> QED
    BY <2>1, <2>2, <2>3 DEF Drive!WouldNotStop
<1>5. ASSUME NEW c \in Child, Die(c)
      PROVE  Drive!Dies \/ UNCHANGED Drive!driveVars
  <2>1. /\ Word' = Word /\ stopFailed' = stopFailed /\ stoppedByUs' = stoppedByUs
        /\ os' = [os EXCEPT ![c] = "exited"] /\ os[c] = "alive"
    BY <1>5, WordStays DEF Die
  <2>2. Driving' = Driving \ {c}
    BY <1>0, <2>1 DEF Driving, RunnerTypeOK
  <2>3. CASE c \in Denied
    <3>1. Driving' = Driving
      BY <2>2, <2>3 DEF Driving
    <3> QED
      BY <2>1, <3>1 DEF Drive!driveVars
  <2>4. CASE c \notin Denied
    <3>1. c \in Driving
      BY <2>1, <2>4 DEF Driving
    <3> QED
      BY <2>1, <2>2, <3>1 DEF Drive!Dies
  <2> QED
    BY <2>3, <2>4
<1>6. ASSUME NEW c \in Child, StaleExit(c) PROVE UNCHANGED Drive!driveVars
  <2>1. /\ Word' = Word /\ stopFailed' = stopFailed /\ stoppedByUs' = stoppedByUs
        /\ os' = [os EXCEPT ![c] = "gone"] /\ os[c] = "exited"
    BY <1>6, WordStays DEF StaleExit
  <2>2. Driving' = Driving
    BY <1>0, <2>1 DEF Driving, RunnerTypeOK
  <2> QED
    BY <2>1, <2>2 DEF Drive!driveVars
<1>7. ASSUME NEW c \in Child, FireEscalate(c) \/ Data(c) \/ Output(c)
      PROVE  UNCHANGED Drive!driveVars
  <2>1. /\ Word' = Word /\ stopFailed' = stopFailed /\ stoppedByUs' = stoppedByUs
        /\ os' = os
    BY <1>7, WordStays DEF FireEscalate, Data, Output
  <2> QED
    BY <2>1 DEF Driving, Drive!driveVars
<1>8. CASE UNCHANGED runnerVars
  <2>1. /\ Word' = Word /\ stopFailed' = stopFailed /\ stoppedByUs' = stoppedByUs
        /\ os' = os
    BY <1>8, WordStays DEF runnerVars
  <2> QED
    BY <2>1 DEF Driving, Drive!driveVars
<1> QED
  BY <1>1, <1>2, <1>3, <1>4, <1>5, <1>6, <1>7, <1>8
     DEF RunnerNext, StopPressed, Drive!DriveNext

\* For every set of programs, permitted or not, and on both platforms, the
\* runner with its timers and signals is the abstract drive program: what
\* race day and the cards conclude from status() they may conclude from the
\* abstract one.
THEOREM ImplementsTheDriveProgram == RunnerSpec => ImplementsDriveProgram
<1>1. RunnerInit => DriveInv /\ Drive!DriveInit
  BY RunnerAssumption
     DEF RunnerInit, DriveInv, RunnerTypeOK, OsState, HoldInv, ClockInv, StopHasItsClock,
         NoStrayTimer, IdleClock, TimedByUs, Drive!DriveInit, Driving, Word, Running
<1>2. RunnerTypeOK /\ HoldInv /\ ClockInv /\ TimedByUs /\ [RunnerNext]_runnerVars
      => HoldInv' /\ ClockInv' /\ TimedByUs'
  BY HoldStep, ClockStep, TimedStep DEF ClockInv
<1>3. DriveInv => RunnerTypeOK /\ HoldInv /\ ClockInv /\ TimedByUs
  BY DEF DriveInv
<1>4. RunnerTypeOK /\ HoldInv /\ ClockInv /\ TimedByUs => DriveInv
  BY DEF DriveInv
<1> QED
  BY <1>1, <1>2, <1>3, <1>4, DriveStep, TypeCorrect, PTL
     DEF RunnerSpec, ImplementsDriveProgram, Drive!DriveSpec

\* What the contract alone gives its reader: no two programs drive the car at
\* once, "off" is said of none that lives, and a program that is on its way
\* out was asked to go.
OneDriver ==
    /\ \A p, q \in Driving : p = q
    /\ Word = "off" => Driving = {}
    /\ Word = "stopping" => stoppedByUs

\* Whoever keeps the abstract drive program's steps has one driver at most;
\* nothing else of the runner is used.
THEOREM OneDriverByContract == ImplementsDriveProgram => []OneDriver
<1>1. Drive!DriveInit => OneDriver
  BY DEF Drive!DriveInit, OneDriver
<1>2. OneDriver /\ [Drive!DriveNext]_(Drive!driveVars) => OneDriver'
  <2> SUFFICES ASSUME OneDriver, [Drive!DriveNext]_(Drive!driveVars)
               PROVE  OneDriver'
    OBVIOUS
  <2> USE DEF OneDriver
  <2>1. CASE Drive!Launch
    BY <2>1 DEF Drive!Launch
  <2>2. CASE Drive!Dies
    BY <2>2 DEF Drive!Dies
  <2>3. CASE Drive!AskStop
    BY <2>3 DEF Drive!AskStop
  <2>4. CASE Drive!StopRefused \/ Drive!EndSeen
    BY <2>4 DEF Drive!StopRefused, Drive!EndSeen
  <2>5. CASE Drive!WouldNotStop
    BY <2>5 DEF Drive!WouldNotStop
  <2>6. CASE UNCHANGED Drive!driveVars
    BY <2>6 DEF Drive!driveVars
  <2> QED
    BY <2>1, <2>2, <2>3, <2>4, <2>5, <2>6 DEF Drive!DriveNext
<1> QED
  BY <1>1, <1>2, PTL DEF ImplementsDriveProgram, Drive!DriveSpec
-----------------------------------------------------------------------------
(***************************************************************************)
(* A stop comes to its end.  ENABLED is out of the prover's reach, so that *)
(* the theorem starts from the fair specification and from TimersCanFire,  *)
(* the invariant that says what is enabled, which is TLC's.  The argument  *)
(* from there is proved: a stop in flight has one of its timers pending;   *)
(* the first hands over to the second, and never the other way round; and  *)
(* the second takes the claim back.                                        *)
(***************************************************************************)
StopInFlight(c) == proc = c /\ stopping
StopIsSettled(c) == proc # c \/ stopFailed

\* What a stop in flight rests on.
StopInv == RunnerTypeOK /\ ClockInv

\* A stop in flight is being timed.
LEMMA StopIsTimed ==
    ASSUME NEW c \in Child, StopInv, StopInFlight(c)
    PROVE  Escalating(c) \/ GivingUp(c)
BY DEF StopInv, RunnerTypeOK, ClockInv, StopHasItsClock, StopInFlight, Escalating, GivingUp

\* No step ends a stop in flight but by settling it, and none turns its clock back.
LEMMA StopGoesForward ==
    ASSUME NEW c \in Child, StopInv, StopInFlight(c), [RunnerNext]_runnerVars
    PROVE  \/ StopIsSettled(c)'
           \/ StopInFlight(c)' /\ (GivingUp(c) => GivingUp(c)')
<1> USE RunnerAssumption
    DEF StopInv, RunnerTypeOK, StopInFlight, StopIsSettled, GivingUp
<1>1. ASSUME NEW d \in Child, Start(d) PROVE FALSE
  BY <1>1 DEF Start
<1>2. ASSUME NEW d \in Child, SpawnError(d) \/ Exit(d) PROVE StopIsSettled(c)'
  BY <1>2 DEF SpawnError, HandleError, Exit
<1>3. ASSUME NEW d \in Child, StopPressed(d) PROVE FALSE
  BY <1>3 DEF StopPressed, StopDelivered, StopThrows, StopUndelivered, StopDenied,
              StopIssued
<1>4. ASSUME NEW d \in Child, FireGiveUp(d)
      PROVE  StopIsSettled(c)'
  <2>1. proc = d
    BY <1>4 DEF FireGiveUp, ClockInv, NoStrayTimer
  <2> QED
    BY <1>4, <2>1 DEF FireGiveUp
<1>5. ASSUME NEW d \in Child, FireEscalate(d)
      PROVE  StopInFlight(c)' /\ GivingUp(c)'
  <2>1. proc = d
    BY <1>5 DEF FireEscalate, ClockInv, NoStrayTimer
  <2> QED
    BY <1>5, <2>1 DEF FireEscalate, Escalate
<1>6. ASSUME NEW d \in Child, StaleExit(d) \/ Data(d) \/ Output(d) \/ Die(d)
      PROVE  StopInFlight(c)' /\ (GivingUp(c) => GivingUp(c)')
  BY <1>6 DEF StaleExit, Data, Output, Die
<1>7. CASE UNCHANGED runnerVars
  BY <1>7 DEF runnerVars
<1> QED
  BY <1>1, <1>2, <1>3, <1>4, <1>5, <1>6, <1>7 DEF RunnerNext, StopPressed

\* A timer that fires is pending no longer.
LEMMA FiringClears ==
    ASSUME NEW c \in Child
    PROVE  /\ FireEscalate(c) => ~Escalating(c)'
           /\ FireGiveUp(c) => ~GivingUp(c)'
BY DEF FireEscalate, Escalate, FireGiveUp, Escalating, GivingUp, EscalateTimer, GiveUpTimer

\* If a pending timer can fire, every stop in flight is settled: its program is
\* seen dead, or "it would not stop" is said and STOP is offered again.
THEOREM StopsSettle == RunnerFairSpec /\ []TimersCanFire => StopSettles
<1>1. RunnerSpec => []StopInv
  <2>1. RunnerInit => ClockInv
    BY DEF RunnerInit, ClockInv, StopHasItsClock, NoStrayTimer, IdleClock
  <2> QED
    BY <2>1, ClockStep, TypeCorrect, PTL DEF RunnerSpec, StopInv
<1>2. ASSUME NEW CONSTANT c \in Child
      PROVE  RunnerSpec /\ EscalateFair(c) /\ GiveUpFair(c)
                /\ [](Escalating(c) => EscalateCanFire(c))
                /\ [](GivingUp(c) => GiveUpCanFire(c))
             => (StopInFlight(c) ~> StopIsSettled(c))
  <2>1. StopInv => (StopInFlight(c) => Escalating(c) \/ GivingUp(c))
    BY StopIsTimed
  <2>2. StopInv /\ [RunnerNext]_runnerVars /\ StopInFlight(c)
        => StopIsSettled(c)' \/ (StopInFlight(c)' /\ (GivingUp(c) => GivingUp(c)'))
    BY StopGoesForward
  <2>3. (FireEscalate(c) => ~Escalating(c)') /\ (FireGiveUp(c) => ~GivingUp(c)')
    BY FiringClears
  <2> QED
    BY <1>1, <2>1, <2>2, <2>3, PTL
    DEF RunnerSpec, EscalateFair, GiveUpFair, EscalateCanFire, GiveUpCanFire
<1>3. RunnerFairness => \A c \in Child : EscalateFair(c) /\ GiveUpFair(c)
  BY DEF RunnerFairness
<1>4. []TimersCanFire => \A c \in Child : /\ [](Escalating(c) => EscalateCanFire(c))
                                          /\ [](GivingUp(c) => GiveUpCanFire(c))
  <2>1. TimersCanFire => \A c \in Child : Escalating(c) => EscalateCanFire(c)
    BY DEF TimersCanFire
  <2>2. TimersCanFire => \A c \in Child : GivingUp(c) => GiveUpCanFire(c)
    BY DEF TimersCanFire
  <2>3. []TimersCanFire => /\ [](\A c \in Child : Escalating(c) => EscalateCanFire(c))
                           /\ [](\A c \in Child : GivingUp(c) => GiveUpCanFire(c))
    BY <2>1, <2>2, PTL
  <2>4. [](\A c \in Child : Escalating(c) => EscalateCanFire(c))
        => \A c \in Child : [](Escalating(c) => EscalateCanFire(c))
    OBVIOUS
  <2>5. [](\A c \in Child : GivingUp(c) => GiveUpCanFire(c))
        => \A c \in Child : [](GivingUp(c) => GiveUpCanFire(c))
    OBVIOUS
  <2> QED
    BY <2>3, <2>4, <2>5
<1>5. (\A c \in Child : StopInFlight(c) ~> StopIsSettled(c)) => StopSettles
  BY DEF StopSettles, StopInFlight, StopIsSettled
<1> QED
  BY <1>2, <1>3, <1>4, <1>5 DEF RunnerFairSpec
=============================================================================
