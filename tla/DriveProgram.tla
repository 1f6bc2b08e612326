----------------------------- MODULE DriveProgram -----------------------------
(***************************************************************************)
(* What the runner of the drive program promises the rest of the app: the  *)
(* word of its status() against the processes that can drive the car.      *)
(*                                                                         *)
(*   - "off" is said of no living program, and is left only by a launch    *)
(*     that finds none alive: no two programs ever drive the car at once;  *)
(*   - "stopping" is entered by a stop of this app's own, and left with a  *)
(*     program that is seen dead, or with "it would not stop" and the      *)
(*     program shown as running again;                                     *)
(*   - "it would not stop" is withdrawn only when a program is gone or the *)
(*     next one is launched, and an end is ours only if we asked for it.   *)
(*                                                                         *)
(* It says nothing of signals, timers, exit events or output: MapperRunner *)
(* is shown to implement it.                                               *)
(***************************************************************************)

CONSTANT Program   \* the processes this app may spawn and may signal

VARIABLES
    living,   \* the programs that are alive
    word,     \* "off", "running" or "stopping"
    stuck,    \* whether the app says that a program would not stop
    ours      \* whether this app asked the latest run to stop

driveVars == <<living, word, stuck, ours>>

DriveInit ==
    /\ living = {}
    /\ word = "off"
    /\ stuck = FALSE
    /\ ours = FALSE

\* A launch that is answered "running": the program lives, or its failure to
\* start has not been reported yet (a program of another user lives unseen).
Launch ==
    /\ word = "off" /\ living = {}
    /\ word' = "running"
    /\ stuck' = FALSE
    /\ ours' = FALSE
    /\ \/ living' = {}
       \/ \E p \in Program : living' = {p}

\* A program ends, whoever caused it; nobody has been told yet.
Dies ==
    /\ \E p \in living : living' = living \ {p}
    /\ UNCHANGED <<word, stuck, ours>>

\* A stop is asked for: it is on its way, or did not get through; "it would
\* not stop" is said at once only over a program that is already dead.
AskStop ==
    /\ word = "running"
    /\ ours' = TRUE
    /\ \/ word' \in {"running", "stopping"} /\ stuck' = stuck
       \/ living = {} /\ word' = "running" /\ stuck' = TRUE
    /\ UNCHANGED living

\* The stop of a program this app may not signal: it is let go of, and the
\* failure is told.
StopRefused ==
    /\ word = "running" /\ living = {}
    /\ word' = "off"
    /\ stuck' = TRUE
    /\ ours' = TRUE
    /\ UNCHANGED living

\* The end is seen.
EndSeen ==
    /\ word # "off" /\ living = {}
    /\ word' = "off"
    /\ stuck' = FALSE
    /\ UNCHANGED <<living, ours>>

\* The stop was forced and has not taken.
WouldNotStop ==
    /\ word # "off" /\ ours
    /\ word' = "running"
    /\ stuck' = TRUE
    /\ UNCHANGED <<living, ours>>

DriveNext ==
    \/ Launch
    \/ Dies
    \/ AskStop
    \/ StopRefused
    \/ EndSeen
    \/ WouldNotStop

DriveSpec == DriveInit /\ [][DriveNext]_driveVars
=============================================================================
