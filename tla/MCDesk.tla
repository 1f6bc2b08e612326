------------------------------- MODULE MCDesk -------------------------------
(***************************************************************************)
(* Three parts of the main process for one run of TLC: the drive program's *)
(* runner on Windows, the window with the quit policy, and the adapter     *)
(* monitor.  No action of one reads a variable of another (what the quit   *)
(* and the monitor see of the others is modelled in their own modules), so *)
(* a behaviour follows one part while the others rest: their states add up *)
(* instead of multiplying.                                                 *)
(***************************************************************************)
EXTENDS MapperRunner, WindowLifecycle, AdapterMonitor

CONSTANTS c1, c2, c3

VARIABLE part   \* the part that is followed

deskVars == <<runnerVars, windowVars, monitorVars, part>>

DeskTypeOK == RunnerTypeOK /\ WindowTypeOK /\ MonitorTypeOK

\* Nothing that is waited for in the main process is without its next event: a
\* stop's timer, a settled promise of a quit, a poll of the adapters.
\* (mapperRunner.js:277-309, quitPolicy.js:131-190, adapterMonitor.js:59-103)
NobodyWaitsInVain == TimersCanFire /\ DecisionCanMove /\ PollsGoOn

DeskInit ==
    /\ part \in {"runner", "window", "monitor"}
    /\ RunnerInit /\ WindowInit /\ MonitorInit

RunnerPart  == part = "runner"  /\ RunnerNext  /\ UNCHANGED <<part, windowVars, monitorVars>>
WindowPart  == part = "window"  /\ WindowNext  /\ UNCHANGED <<part, runnerVars, monitorVars>>
MonitorPart == part = "monitor" /\ MonitorNext /\ UNCHANGED <<part, runnerVars, windowVars>>

DeskNext == RunnerPart \/ WindowPart \/ MonitorPart

DeskSpec ==
    /\ DeskInit /\ [][DeskNext]_deskVars
    /\ RunnerFairness
    /\ part = "monitor" => MonitorFairness
=============================================================================
