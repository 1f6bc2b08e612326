------------------------------ MODULE Mirrors -------------------------------
(***************************************************************************)
(* What the page shows of an authority in the main process: the hotspot    *)
(* pane of PIT WALL over HotspotLifecycle and the RACE DAY card of GARAGE  *)
(* over RaceDayOrchestrator (src/renderer/setupFlow.js).  `mirror' is the  *)
(* one a behaviour follows.                                                *)
(*                                                                         *)
(* The authority pushes a snapshot at every change; the page pulls one     *)
(* when the step is entered.  Pushes and answers arrive in any order.  A   *)
(* snapshot is drawn as it is; of its data are kept its number, which      *)
(* tells it from every other, and the hotspot's support check.  The        *)
(* numbers are one more than the code's: 0 is null.                        *)
(***************************************************************************)
EXTENDS Naturals

CONSTANT MaxSeq     \* bound: changes of the authority

ASSUME MirrorsAssumption == MaxSeq \in Nat \ {0}

VARIABLES
    mirror,     \* "hotspot" or "raceday"
    now,        \* the authority: the snapshot it would give
    pushed,     \* snapshots under way to the page
    pulls,      \* pulls under way
    kicks,      \* hotspot: kickHotspotProbe calls, with what they were answered
    onScreen,   \* the step with the mirror is shown
    held,       \* hotspotSnap, raceDaySnap
    drawn,      \* what the page was last rendered from
    refused     \* history: the pull of this visit was rejected

viewVars == <<pushed, pulls, kicks, onScreen, held, drawn, refused>>
mirrorVars == <<mirror, now, viewVars>>

Snapshot == [seq : 0 .. MaxSeq, probe : {"idle", "probing", "done", "failed"}]
NoSnap == [seq |-> 0, probe |-> "idle"]
Visit == {"current", "stale"}
Pull == [visit : Visit, asked : BOOLEAN, snap : Snapshot]
Kick == {"waiting", "done", "failed"} \X Visit

MirrorTypeOK ==
    /\ mirror \in {"hotspot", "raceday"}
    /\ now \in Snapshot /\ held \in Snapshot /\ drawn \in Snapshot
    /\ pushed \subseteq Snapshot \ {NoSnap}
    /\ pulls \subseteq Pull
    /\ kicks \subseteq Kick
    /\ onScreen \in BOOLEAN /\ refused \in BOOLEAN

\* The page is loaded while the authority is at some state of its own.
MirrorInit ==
    /\ mirror \in {"hotspot", "raceday"}
    /\ now \in {s \in Snapshot : s.seq = 1 /\ (mirror = "raceday" => s.probe = "idle")}
    /\ pushed = {} /\ pulls = {} /\ kicks = {}
    /\ onScreen = FALSE
    /\ held = NoSnap /\ drawn = NoSnap
    /\ refused = FALSE
-----------------------------------------------------------------------------
(* The authority.                                                          *)

\* _emit(): the number is drawn before the snapshot is made.
Emit(probe) ==
    /\ now.seq < MaxSeq
    /\ now' = [seq |-> now.seq + 1, probe |-> probe]
    /\ pushed' = pushed \cup {now'}

\* A change of anything but the support check.
Change ==
    /\ Emit(now.probe)
    /\ UNCHANGED <<mirror, pulls, kicks, onScreen, held, drawn, refused>>

\* The support check has run: whoever waits for it is answered.
ProbeEnds ==
    /\ now.probe = "probing"
    /\ \E result \in {"done", "failed"} :
          /\ Emit(result)
          /\ kicks' = {<<IF k[1] = "waiting" THEN result ELSE k[1], k[2]>> : k \in kicks}
    /\ UNCHANGED <<mirror, pulls, onScreen, held, drawn, refused>>

\* probe(): one check at a time, its result kept unless a refresh is asked for.
AskProbe(refresh, calls) ==
    IF now.probe = "probing"
    THEN kicks' = calls \cup {<<"waiting", "current">>} /\ UNCHANGED <<now, pushed>>
    ELSE IF now.probe # "idle" /\ ~refresh
    THEN kicks' = calls \cup {<<now.probe, "current">>} /\ UNCHANGED <<now, pushed>>
    ELSE kicks' = calls \cup {<<"waiting", "current">>} /\ Emit("probing")
-----------------------------------------------------------------------------
(* The page.                                                               *)

\* Whatever arrives is held.
Adopts_Anything(snap) == snap # NoSnap

\* adoptHotspotSnap, adoptRaceDaySnap: nothing older than what is held.
Adopts(snap) == snap # NoSnap /\ snap.seq >= held.seq

Hold(snap) == held' = IF Adopts(snap) THEN snap ELSE held

PushArrives ==
    /\ \E snap \in pushed :
          /\ pushed' = pushed \ {snap}
          /\ Hold(snap)
          /\ drawn' = IF Adopts(snap) /\ onScreen THEN snap ELSE drawn
    /\ UNCHANGED <<mirror, now, pulls, kicks, onScreen, refused>>

OutdatedVisit(calls) == {[c EXCEPT !.visit = "stale"] : c \in calls}
OutdatedKicks == {<<k[1], "stale">> : k \in kicks}

\* enterPitwall, up to its pull; updateFastPath of GARAGE.
EnterStep ==
    /\ ~onScreen /\ onScreen' = TRUE
    /\ pulls' = OutdatedVisit(pulls)
                    \cup {[visit |-> "current", asked |-> TRUE, snap |-> NoSnap]}
    /\ kicks' = OutdatedKicks
    /\ refused' = FALSE
    /\ UNCHANGED <<mirror, now, pushed, held, drawn>>

LeaveStep ==
    /\ onScreen /\ onScreen' = FALSE
    /\ pulls' = OutdatedVisit(pulls)
    /\ kicks' = OutdatedKicks
    /\ UNCHANGED <<mirror, now, pushed, held, drawn, refused>>

\* The handler in the main process answers a pull, or the call is rejected.
PullIsServed ==
    /\ \E p \in pulls, snap \in {now, NoSnap} :
          /\ p.asked
          /\ pulls' = (pulls \ {p}) \cup {[p EXCEPT !.asked = FALSE, !.snap = snap]}
    /\ UNCHANGED <<mirror, now, pushed, kicks, onScreen, held, drawn, refused>>

Returned(p) ==
    /\ ~p.asked
    /\ pulls' = pulls \ {p}
    /\ Hold(p.snap)
    /\ refused' = (refused \/ (p.visit = "current" /\ p.snap = NoSnap))
    /\ UNCHANGED <<mirror, onScreen>>

\* enterPitwall past its pull: a visit that lasts draws what is held, and kicks
\* the support check.
HotspotPullReturns ==
    /\ mirror = "hotspot"
    /\ \E p \in pulls :
          /\ Returned(p)
          /\ IF p.visit = "current"
             THEN drawn' = held' /\ AskProbe(FALSE, kicks)
             ELSE UNCHANGED <<now, pushed, kicks, drawn>>

\* seedRaceDay past its pull: it draws what it adopts.
RaceDayPullReturns ==
    /\ mirror = "raceday"
    /\ \E p \in pulls :
          /\ Returned(p)
          /\ drawn' = IF Adopts(p.snap) /\ onScreen THEN p.snap ELSE drawn
    /\ UNCHANGED <<now, pushed, kicks>>

\* RECHECK, which the pane offers beside a check that failed.
Recheck ==
    /\ onScreen /\ mirror = "hotspot" /\ drawn.probe = "failed"
    /\ AskProbe(TRUE, kicks)
    /\ UNCHANGED <<mirror, pulls, onScreen, held, drawn, refused>>

\* kickHotspotProbe is answered, or rejected: a failure that the snapshot does
\* not tell is laid over it, under its number.
KickReturns ==
    /\ \E k \in kicks :
          /\ kicks' = kicks \ {k}
          /\ IF k[1] # "done" /\ k[2] = "current" /\ held # NoSnap /\ held.probe # "failed"
             THEN held' = [held EXCEPT !.probe = "failed"] /\ drawn' = held'
             ELSE UNCHANGED <<held, drawn>>
    /\ UNCHANGED <<mirror, now, pushed, pulls, onScreen, refused>>

MirrorNext ==
    \/ Change \/ ProbeEnds
    \/ PushArrives \/ EnterStep \/ LeaveStep \/ PullIsServed
    \/ HotspotPullReturns \/ RaceDayPullReturns \/ Recheck \/ KickReturns

MirrorSpec == MirrorInit /\ [][MirrorNext]_mirrorVars
-----------------------------------------------------------------------------
\* The authority's last word, or the page's own fallback laid over that word.
IsTheTruth(snap) == snap = now \/ (mirror = "hotspot" /\ snap = [now EXCEPT !.probe = "failed"])

\* When no snapshot is under way, the page holds the authority's last word, in
\* whatever order the pushes, the pulls and the probe's answers came, and while
\* the step is shown it shows it, unless its pull was rejected: no pane is left
\* at CHECKING for good.  (setupFlow.js:983-989, 201-203)
MirrorIsCurrent ==
    pushed = {} /\ pulls = {} =>
        /\ held = NoSnap \/ IsTheTruth(held)
        /\ onScreen /\ ~refused => IsTheTruth(drawn)
=============================================================================
