--------------------------- MODULE CockpitProofs ----------------------------
(***************************************************************************)
(* What TLAPS proves of the parts of the renderer: its mirrors of the main *)
(* process, the video style, the steps of the setup flow, PIT WALL,        *)
(* joining a network, SEAT FIT and the controller in the page.  Each       *)
(* theorem is of the part's own specification, for every value of its      *)
(* constants; the last section adds the types of every part and shows that *)
(* the parts keep them where they are composed.                            *)
(***************************************************************************)
EXTENDS MCCockpit, WellFoundedInduction, TLAPS

(* The page's mirrors: for any number of changes, and in whatever order pushes and
   pulls arrive, the page ends up with the authority's last word.            *)

\* A snapshot that was given before `last', or is `last'.
Past(snap, last) ==
    /\ snap \in Snapshot
    /\ 1 <= snap.seq /\ snap.seq <= last.seq
    /\ snap.seq = last.seq => snap = last

UnderWay ==
    /\ mirror \in {"hotspot", "raceday"}
    /\ now \in Snapshot /\ 1 <= now.seq
    /\ \A snap \in pushed : Past(snap, now)
    /\ \A p \in pulls : p \in Pull /\ (p.snap = NoSnap \/ Past(p.snap, now))
    /\ mirror = "raceday" => kicks = {}

\* What is held is as old as it says.
HeldIsPast ==
    \/ held = NoSnap
    \/ /\ held \in Snapshot
       /\ 1 <= held.seq /\ held.seq <= now.seq
       /\ held.seq = now.seq => IsTheTruth(held)

\* The last word is held, or on its way; the page may never have been told the first.
LastWordIsHeld == now \in pushed \/ held.seq = now.seq \/ now.seq = 1

\* A visit that lasts draws it, or has its pull under way.
LastWordIsDrawn ==
    onScreen /\ ~refused =>
        (\E p \in pulls : p.visit = "current") \/ now \in pushed \/ IsTheTruth(drawn)

\* A pull of this visit is older than what is held only if that was drawn.
NewerIsDrawn ==
    \A p \in pulls : p.visit = "current" =>
        /\ onScreen
        /\ mirror = "raceday" /\ p.snap # NoSnap /\ ~p.asked => held.seq <= p.snap.seq \/ drawn = held

MirrorInv == UnderWay /\ HeldIsPast /\ LastWordIsHeld /\ LastWordIsDrawn /\ NewerIsDrawn

USE MirrorsAssumption
-----------------------------------------------------------------------------
LEMMA NoSnapIsASnapshot == NoSnap \in Snapshot /\ NoSnap.seq = 0
  BY DEF NoSnap, Snapshot

\* The authority goes on by one number, and says so.
Moves == /\ now' \in Snapshot
         /\ now'.seq = now.seq + 1
         /\ pushed' = pushed \cup {now'}

LEMMA EmitMoves == \A probe \in {"idle", "probing", "done", "failed"} :
                       UnderWay /\ Emit(probe) => Moves
  BY DEF UnderWay, Emit, Moves, Snapshot

LEMMA AskProbeMoves ==
    ASSUME UnderWay, NEW refresh, NEW calls, AskProbe(refresh, calls)
    PROVE  Moves \/ UNCHANGED <<now, pushed>>
  BY EmitMoves DEF AskProbe

\* Whatever else a step does, a change of the authority makes the past older.
LEMMA MovesAges ==
    ASSUME UnderWay, Moves
    PROVE  /\ \A snap : Past(snap, now) => Past(snap, now') /\ snap.seq < now'.seq
           /\ now' \in pushed' /\ 1 <= now'.seq
           /\ \A snap \in pushed' : Past(snap, now')
<1>1. now.seq \in Nat /\ now' \in Snapshot /\ now'.seq = now.seq + 1
  BY DEF Snapshot, UnderWay, Moves
<1>2. ASSUME NEW snap, Past(snap, now)
      PROVE  Past(snap, now') /\ snap.seq < now'.seq
  <2>1. snap \in Snapshot /\ snap.seq \in Nat /\ 1 <= snap.seq /\ snap.seq <= now.seq
    BY <1>2 DEF Past, Snapshot
  <2>2. snap.seq < now'.seq /\ snap.seq <= now'.seq /\ snap.seq # now'.seq
    BY <1>1, <2>1
  <2> QED
    BY <2>1, <2>2 DEF Past
<1>3. now' \in pushed' /\ 1 <= now'.seq
  BY <1>1 DEF Moves
<1>4. Past(now', now')
  BY <1>1, <1>3 DEF Past, Snapshot
<1>5. \A snap \in pushed' : Past(snap, now')
  BY <1>2, <1>4 DEF UnderWay, Moves
<1> QED
  BY <1>2, <1>3, <1>5

\* What is held after a snapshot of the past arrived.
LEMMA HoldKeepsThePast ==
    ASSUME UnderWay, HeldIsPast, NEW snap, snap = NoSnap \/ Past(snap, now), Hold(snap)
    PROVE  /\ held' = held \/ (held' = snap /\ Past(snap, now) /\ snap.seq >= held.seq)
           /\ snap # NoSnap => held'.seq >= snap.seq
           /\ held'.seq >= held.seq
<1> USE NoSnapIsASnapshot DEF HeldIsPast, UnderWay, Past
<1>1. held.seq \in Nat /\ (snap # NoSnap => snap.seq \in Nat)
  BY DEF Snapshot
<1>2. CASE Adopts(snap)
  BY <1>1, <1>2 DEF Hold, Adopts
<1>3. CASE ~Adopts(snap)
  BY <1>1, <1>3 DEF Hold, Adopts
<1> QED
  BY <1>2, <1>3

\* What is held stays of the past, whether the authority stands or moves.
LEMMA HeldStaysPast ==
    ASSUME UnderWay, HeldIsPast, held' = held \/ Past(held', now), UNCHANGED mirror,
           Moves \/ UNCHANGED now
    PROVE  HeldIsPast'
<1>1. CASE UNCHANGED now
  BY <1>1 DEF HeldIsPast, Past, IsTheTruth
<1>2. CASE Moves
  <2>1. now.seq \in Nat /\ now'.seq = now.seq + 1
    BY <1>2 DEF Moves, UnderWay, Snapshot
  <2>2. held' = NoSnap \/ (held' \in Snapshot /\ 1 <= held'.seq /\ held'.seq <= now.seq)
    BY DEF HeldIsPast, Past
  <2> QED
    BY <2>1, <2>2 DEF HeldIsPast, Snapshot
<1> QED
  BY <1>1, <1>2

\* The last word, once held, stays held while the authority stands.
LEMMA LastWordStays ==
    ASSUME UnderWay, HeldIsPast, LastWordIsHeld, HeldIsPast',
           held'.seq >= held.seq,
           Moves \/ (UNCHANGED now /\ (now \in pushed => now \in pushed' \/ held'.seq = now.seq))
    PROVE  LastWordIsHeld'
<1>1. CASE Moves
  BY <1>1 DEF Moves, LastWordIsHeld
<1>2. CASE UNCHANGED now /\ (now \in pushed => now \in pushed' \/ held'.seq = now.seq)
  <2>1. now.seq \in Nat /\ held.seq \in Nat /\ held'.seq \in Nat
    BY NoSnapIsASnapshot DEF UnderWay, HeldIsPast, Snapshot
  <2>2. held'.seq <= now.seq
    BY <1>2, <2>1, NoSnapIsASnapshot DEF HeldIsPast, UnderWay
  <2> QED
    BY <1>2, <2>1, <2>2 DEF LastWordIsHeld
<1> QED
  BY <1>1, <1>2

-----------------------------------------------------------------------------
(* One lemma for each of the steps that move a snapshot.                   *)

LEMMA PushKeepsMirror == MirrorInv /\ PushArrives => MirrorInv'
<1> SUFFICES ASSUME MirrorInv, PushArrives PROVE MirrorInv'
  OBVIOUS
<1> USE DEF MirrorInv
<1>1. PICK snap \in pushed :
         /\ pushed' = pushed \ {snap}
         /\ Hold(snap)
         /\ drawn' = IF Adopts(snap) /\ onScreen THEN snap ELSE drawn
  BY DEF PushArrives
<1>2. UNCHANGED <<mirror, now, pulls, kicks, onScreen, refused>>
  BY DEF PushArrives
<1>3. Past(snap, now) /\ snap # NoSnap /\ snap.seq \in Nat /\ now.seq \in Nat
  BY NoSnapIsASnapshot DEF UnderWay, Past, Snapshot
<1>4. /\ held' = held \/ (held' = snap /\ snap.seq >= held.seq)
      /\ held'.seq >= snap.seq /\ held'.seq >= held.seq
  BY <1>1, <1>3, HoldKeepsThePast
<1>5. UnderWay'
  BY <1>1, <1>2 DEF UnderWay, Past
<1>6. HeldIsPast'
  BY <1>2, <1>3, <1>4, HeldStaysPast DEF Past
<1>7. snap = now => held'.seq = now.seq
  BY <1>2, <1>3, <1>4, <1>6, NoSnapIsASnapshot DEF HeldIsPast, Snapshot
<1>8. LastWordIsHeld'
  BY <1>1, <1>2, <1>4, <1>6, <1>7, LastWordStays
<1>9. LastWordIsDrawn'
  <2>1. CASE Adopts(snap) /\ onScreen /\ now \notin pushed'
    <3>1. drawn' = snap /\ held' = snap
      BY <1>1, <2>1 DEF Hold
    <3>2. held'.seq = now.seq \/ now.seq = 1
      BY <1>2, <1>8, <2>1 DEF LastWordIsHeld
    <3>3. snap.seq = now.seq
      BY <1>3, <3>1, <3>2 DEF Past
    <3> QED
      BY <1>2, <1>3, <3>1, <3>3 DEF Past, IsTheTruth, LastWordIsDrawn
  <2>2. CASE ~Adopts(snap)
    <3>1. snap # now
      BY <1>3, <2>2, NoSnapIsASnapshot DEF Adopts, HeldIsPast, UnderWay, Snapshot
    <3> QED
      BY <1>1, <1>2, <2>2, <3>1 DEF LastWordIsDrawn, IsTheTruth
  <2> QED
    BY <1>2, <2>1, <2>2 DEF LastWordIsDrawn
<1>10. NewerIsDrawn'
  <2>1. CASE Adopts(snap)
    BY <1>1, <1>2, <2>1 DEF Hold, NewerIsDrawn
  <2>2. CASE ~Adopts(snap)
    BY <1>1, <1>2, <2>2 DEF Hold, NewerIsDrawn
  <2> QED
    BY <2>1, <2>2
<1> QED
  BY <1>5, <1>6, <1>8, <1>9, <1>10

\* A pull that has returned: what both mirrors make of it.
LEMMA ReturnedKeepsHeld ==
    ASSUME MirrorInv, NEW p \in pulls, Returned(p), Moves \/ UNCHANGED <<now, pushed>>
    PROVE  /\ HeldIsPast' /\ LastWordIsHeld'
           /\ held' = held \/ (held' = p.snap /\ Past(p.snap, now))
           /\ p.snap # NoSnap => Past(p.snap, now) /\ held'.seq >= p.snap.seq
<1> USE DEF MirrorInv
<1>1. p.snap = NoSnap \/ Past(p.snap, now)
  BY DEF UnderWay
<1>2. /\ held' = held \/ (held' = p.snap /\ Past(p.snap, now))
      /\ p.snap # NoSnap => Past(p.snap, now) /\ held'.seq >= p.snap.seq
      /\ held'.seq >= held.seq
  BY <1>1, HoldKeepsThePast DEF Returned
<1>3. HeldIsPast'
  BY <1>2, HeldStaysPast DEF Returned
<1>4. LastWordIsHeld'
  BY <1>2, <1>3, LastWordStays
<1> QED
  BY <1>2, <1>3, <1>4
\* What is held is the last word, unless that is still on its way.
LEMMA HeldIsLast ==
    ASSUME UnderWay', HeldIsPast', LastWordIsHeld', held' # NoSnap
    PROVE  now' \in pushed' \/ IsTheTruth(held)'
<1>1. /\ held'.seq \in Nat /\ now'.seq \in Nat
      /\ 1 <= held'.seq /\ held'.seq <= now'.seq
      /\ held'.seq = now'.seq => IsTheTruth(held)'
  BY DEF UnderWay, HeldIsPast, Snapshot, NoSnap
<1>2. now' \in pushed' \/ held'.seq = now'.seq \/ now'.seq = 1
  BY DEF LastWordIsHeld
<1> QED
  BY <1>1, <1>2

\* The authority moves, or stands, and the page does nothing.
LEMMA PageRests ==
    ASSUME MirrorInv, Moves \/ UNCHANGED <<now, pushed>>,
           UNCHANGED <<mirror, pulls, onScreen, held, drawn, refused>>,
           mirror = "raceday" => kicks' = {}
    PROVE  MirrorInv'
<1> USE DEF MirrorInv
<1>1. UnderWay'
  <2>1. CASE Moves
    BY <2>1, MovesAges DEF UnderWay, Moves
  <2>2. CASE UNCHANGED <<now, pushed>>
    BY <2>2 DEF UnderWay
  <2> QED
    BY <2>1, <2>2
<1>2. HeldIsPast'
  BY HeldStaysPast
<1>3. LastWordIsHeld'
  BY DEF LastWordIsHeld, Moves
<1>4. LastWordIsDrawn'
  BY DEF LastWordIsDrawn, IsTheTruth, Moves
<1>5. NewerIsDrawn'
  BY DEF NewerIsDrawn
<1> QED
  BY <1>1, <1>2, <1>3, <1>4, <1>5

\* Entering and leaving the step leaves everything held as it was.
LEMMA EnterKeepsMirror == MirrorInv /\ EnterStep => MirrorInv'
<1> SUFFICES ASSUME MirrorInv, EnterStep PROVE MirrorInv'
  OBVIOUS
<1> DEFINE asked == [visit |-> "current", asked |-> TRUE, snap |-> NoSnap]
<1> USE DEF MirrorInv
<1>1. /\ onScreen' = TRUE /\ pulls' = OutdatedVisit(pulls) \cup {asked}
      /\ kicks' = OutdatedKicks /\ UNCHANGED <<mirror, now, pushed, held, drawn>>
  BY DEF EnterStep
<1>2. \A p \in OutdatedVisit(pulls) :
          p \in Pull /\ (p.snap = NoSnap \/ Past(p.snap, now)) /\ p.visit = "stale"
  BY DEF OutdatedVisit, UnderWay, Pull, Visit
<1>3. asked \in Pull /\ asked.snap = NoSnap /\ asked.visit = "current" /\ asked.asked
  BY NoSnapIsASnapshot DEF Pull, Visit
<1> HIDE DEF asked
<1>4. UnderWay'
  BY <1>1, <1>2, <1>3 DEF UnderWay, OutdatedKicks, Past
<1>5. HeldIsPast' /\ LastWordIsHeld'
  BY <1>1 DEF HeldIsPast, LastWordIsHeld, IsTheTruth
<1>6. LastWordIsDrawn'
  BY <1>1, <1>3 DEF LastWordIsDrawn
<1>7. NewerIsDrawn'
  BY <1>1, <1>2, <1>3 DEF NewerIsDrawn
<1> QED
  BY <1>4, <1>5, <1>6, <1>7

LEMMA LeaveKeepsMirror == MirrorInv /\ LeaveStep => MirrorInv'
<1> SUFFICES ASSUME MirrorInv, LeaveStep PROVE MirrorInv'
  OBVIOUS
<1> USE DEF MirrorInv
<1>1. /\ onScreen' = FALSE /\ pulls' = OutdatedVisit(pulls)
      /\ kicks' = OutdatedKicks /\ UNCHANGED <<mirror, now, pushed, held, drawn>>
  BY DEF LeaveStep
<1>2. \A p \in OutdatedVisit(pulls) :
          p \in Pull /\ (p.snap = NoSnap \/ Past(p.snap, now)) /\ p.visit = "stale"
  BY DEF OutdatedVisit, UnderWay, Pull, Visit
<1>3. UnderWay'
  BY <1>1, <1>2 DEF UnderWay, OutdatedKicks, Past
<1>4. HeldIsPast' /\ LastWordIsHeld'
  BY <1>1 DEF HeldIsPast, LastWordIsHeld, IsTheTruth
<1>5. LastWordIsDrawn' /\ NewerIsDrawn'
  BY <1>1, <1>2 DEF LastWordIsDrawn, NewerIsDrawn
<1> QED
  BY <1>3, <1>4, <1>5

\* A pull is answered with the last word there is, or rejected.
LEMMA ServeKeepsMirror == MirrorInv /\ PullIsServed => MirrorInv'
<1> SUFFICES ASSUME MirrorInv, PullIsServed PROVE MirrorInv'
  OBVIOUS
<1> USE DEF MirrorInv
<1>1. UNCHANGED <<mirror, now, pushed, kicks, onScreen, held, drawn, refused>>
  BY DEF PullIsServed
<1>2. PICK p \in pulls, snap \in {now, NoSnap} :
          pulls' = (pulls \ {p}) \cup {[p EXCEPT !.asked = FALSE, !.snap = snap]}
  BY DEF PullIsServed
<1> DEFINE answer == [p EXCEPT !.asked = FALSE, !.snap = snap]
<1>3. Past(now, now) /\ snap \in Snapshot
  BY NoSnapIsASnapshot DEF Past, UnderWay, Snapshot
<1>4. /\ answer \in Pull /\ answer.visit = p.visit /\ answer.snap = snap
      /\ p.visit = "current" => onScreen
  BY <1>3 DEF UnderWay, Pull, NewerIsDrawn
<1>5. pulls' = (pulls \ {p}) \cup {answer}
  BY <1>2
<1> HIDE DEF answer
<1>6. UnderWay'
  BY <1>1, <1>3, <1>4, <1>5 DEF UnderWay, Past
<1>7. HeldIsPast' /\ LastWordIsHeld'
  BY <1>1 DEF HeldIsPast, LastWordIsHeld, IsTheTruth
<1>8. LastWordIsDrawn'
  BY <1>1, <1>4, <1>5 DEF LastWordIsDrawn, IsTheTruth
<1>9. snap # NoSnap => held.seq <= snap.seq
  BY NoSnapIsASnapshot DEF HeldIsPast, UnderWay, Snapshot
<1>10. NewerIsDrawn'
  BY <1>1, <1>4, <1>5, <1>9 DEF NewerIsDrawn
<1> QED
  BY <1>6, <1>7, <1>8, <1>10

\* A pull that has returned leaves the others under way.
LEMMA ReturnedKeepsUnderWay ==
    ASSUME MirrorInv, NEW p \in pulls, Returned(p), Moves \/ UNCHANGED <<now, pushed>>,
           mirror = "raceday" => kicks' = {}
    PROVE  UnderWay'
<1> USE DEF MirrorInv
<1>1. pulls' \subseteq pulls /\ UNCHANGED mirror
  BY DEF Returned
<1>2. CASE Moves
  BY <1>1, <1>2, MovesAges DEF UnderWay, Moves
<1>3. CASE UNCHANGED <<now, pushed>>
  BY <1>1, <1>3 DEF UnderWay, Past
<1> QED
  BY <1>2, <1>3

LEMMA HotspotPullKeepsMirror == MirrorInv /\ HotspotPullReturns => MirrorInv'
<1> SUFFICES ASSUME MirrorInv, HotspotPullReturns PROVE MirrorInv'
  OBVIOUS
<1> USE DEF MirrorInv
<1>1. PICK p \in pulls :
         /\ Returned(p)
         /\ IF p.visit = "current"
            THEN drawn' = held' /\ AskProbe(FALSE, kicks)
            ELSE UNCHANGED <<now, pushed, kicks, drawn>>
  BY DEF HotspotPullReturns
<1>2. mirror = "hotspot"
  BY DEF HotspotPullReturns
<1>3. Moves \/ UNCHANGED <<now, pushed>>
  BY <1>1, AskProbeMoves
<1>4. UnderWay'
  BY <1>1, <1>2, <1>3, ReturnedKeepsUnderWay
<1>5. /\ HeldIsPast' /\ LastWordIsHeld'
      /\ p.snap # NoSnap => Past(p.snap, now) /\ held'.seq >= p.snap.seq
  BY <1>1, <1>3, ReturnedKeepsHeld
<1>6. LastWordIsDrawn'
  <2>1. CASE p.visit = "current" /\ p.snap = NoSnap
    BY <1>1, <2>1 DEF Returned, LastWordIsDrawn
  <2>2. CASE p.visit = "current" /\ p.snap # NoSnap
    <3>1. held' # NoSnap
      BY <1>5, <2>2, NoSnapIsASnapshot DEF Past, Snapshot
    <3>2. now' \in pushed' \/ IsTheTruth(held)'
      BY <1>4, <1>5, <3>1, HeldIsLast
    <3> QED
      BY <1>1, <2>2, <3>2 DEF LastWordIsDrawn, IsTheTruth
  <2>3. CASE p.visit # "current"
    <3>1. /\ UNCHANGED <<mirror, now, pushed, onScreen, drawn>>
          /\ pulls' = pulls \ {p}
          /\ ~refused' => ~refused
      BY <1>1, <2>3 DEF Returned
    <3> QED
      BY <2>3, <3>1 DEF LastWordIsDrawn, IsTheTruth
  <2> QED
    BY <2>1, <2>2, <2>3
<1>7. NewerIsDrawn'
  BY <1>1, <1>2 DEF Returned, NewerIsDrawn
<1> QED
  BY <1>4, <1>5, <1>6, <1>7

LEMMA RaceDayPullKeepsMirror == MirrorInv /\ RaceDayPullReturns => MirrorInv'
<1> SUFFICES ASSUME MirrorInv, RaceDayPullReturns PROVE MirrorInv'
  OBVIOUS
<1> USE DEF MirrorInv
<1>1. PICK p \in pulls :
         /\ Returned(p)
         /\ drawn' = IF Adopts(p.snap) /\ onScreen THEN p.snap ELSE drawn
  BY DEF RaceDayPullReturns
<1>2. mirror = "raceday" /\ UNCHANGED <<mirror, now, pushed, kicks, onScreen>>
  BY <1>1 DEF RaceDayPullReturns, Returned
<1>3. UnderWay'
  BY <1>1, <1>2, ReturnedKeepsUnderWay DEF UnderWay
<1>4. /\ HeldIsPast' /\ LastWordIsHeld'
      /\ p.snap # NoSnap => Past(p.snap, now) /\ held'.seq >= p.snap.seq
  BY <1>1, <1>2, ReturnedKeepsHeld
<1>5. held' = IF Adopts(p.snap) THEN p.snap ELSE held
  BY <1>1 DEF Returned, Hold
\* A snapshot of this visit that is too old to be held has been overtaken on the screen.
<1>6. p.visit = "current" /\ p.snap # NoSnap => drawn' = held'
  <2> SUFFICES ASSUME p.visit = "current", p.snap # NoSnap, ~Adopts(p.snap)
               PROVE  drawn = held
    BY <1>1, <1>5 DEF NewerIsDrawn
  <2>1. ~(p.snap.seq >= held.seq) /\ p.snap.seq \in Nat /\ held.seq \in Nat
    BY <1>4, NoSnapIsASnapshot DEF Adopts, Past, HeldIsPast, Snapshot
  <2> QED
    BY <1>1, <1>2, <2>1 DEF NewerIsDrawn, Returned
<1>7. held' # NoSnap /\ drawn' = held' => now' \in pushed' \/ IsTheTruth(drawn)'
  BY <1>3, <1>4, HeldIsLast DEF IsTheTruth
<1>8. LastWordIsDrawn'
  <2>1. CASE p.visit = "current" /\ p.snap = NoSnap
    BY <1>1, <2>1 DEF Returned, LastWordIsDrawn
  <2>2. CASE p.visit = "current" /\ p.snap # NoSnap
    <3>1. held' # NoSnap
      BY <1>4, <2>2, NoSnapIsASnapshot DEF Past, Snapshot
    <3> QED
      BY <1>6, <1>7, <2>2, <3>1 DEF LastWordIsDrawn
  <2>3. CASE p.visit # "current" /\ Adopts(p.snap) /\ onScreen
    BY <1>1, <1>5, <1>7, <2>3 DEF LastWordIsDrawn, Adopts
  <2>4. CASE p.visit # "current" /\ ~(Adopts(p.snap) /\ onScreen)
    <3>1. /\ pulls' = pulls \ {p}
          /\ ~refused' => ~refused
          /\ onScreen => UNCHANGED drawn
      BY <1>1, <2>4 DEF Returned
    <3> QED
      BY <1>2, <2>4, <3>1 DEF LastWordIsDrawn, IsTheTruth
  <2> QED
    BY <2>1, <2>2, <2>3, <2>4
<1>9. NewerIsDrawn'
  <2>1. CASE Adopts(p.snap)
    BY <1>1, <1>2, <1>5, <2>1 DEF Returned, NewerIsDrawn
  <2>2. CASE ~Adopts(p.snap)
    BY <1>1, <1>2, <1>5, <2>2 DEF Returned, NewerIsDrawn
  <2> QED
    BY <2>1, <2>2
<1> QED
  BY <1>3, <1>4, <1>8, <1>9

LEMMA KickKeepsMirror == MirrorInv /\ KickReturns => MirrorInv'
<1> SUFFICES ASSUME MirrorInv, KickReturns PROVE MirrorInv'
  OBVIOUS
<1> USE DEF MirrorInv
<1>1. UNCHANGED <<mirror, now, pushed, pulls, onScreen, refused>>
  BY DEF KickReturns
<1>2. PICK k \in kicks :
         /\ kicks' = kicks \ {k}
         /\ IF k[1] # "done" /\ k[2] = "current" /\ held # NoSnap /\ held.probe # "failed"
            THEN held' = [held EXCEPT !.probe = "failed"] /\ drawn' = held'
            ELSE UNCHANGED <<held, drawn>>
  BY DEF KickReturns
<1>3. mirror = "hotspot"
  BY <1>2 DEF UnderWay
<1>4. UnderWay' /\ NewerIsDrawn'
  BY <1>1, <1>3 DEF UnderWay, NewerIsDrawn, Past
<1>5. CASE held # NoSnap /\ held' = [held EXCEPT !.probe = "failed"] /\ drawn' = held'
  <2>1. /\ held \in Snapshot /\ held' \in Snapshot /\ held'.seq = held.seq
        /\ 1 <= held.seq /\ held.seq <= now.seq
    BY <1>5 DEF HeldIsPast, Snapshot
  <2>2. held.seq = now.seq => held' = [now EXCEPT !.probe = "failed"]
    BY <1>5 DEF HeldIsPast, IsTheTruth, UnderWay, Snapshot
  <2>3. HeldIsPast' /\ LastWordIsHeld'
    BY <1>1, <1>3, <2>1, <2>2 DEF HeldIsPast, LastWordIsHeld, IsTheTruth
  <2>4. held' # NoSnap
    BY <2>1, NoSnapIsASnapshot DEF Snapshot
  <2>5. LastWordIsDrawn'
    BY <1>4, <1>5, <2>3, <2>4, HeldIsLast DEF LastWordIsDrawn, IsTheTruth
  <2> QED
    BY <1>4, <2>3, <2>5
<1>6. CASE UNCHANGED <<held, drawn>>
  BY <1>1, <1>4, <1>6 DEF HeldIsPast, LastWordIsHeld, LastWordIsDrawn, IsTheTruth
<1> QED
  BY <1>2, <1>5, <1>6
-----------------------------------------------------------------------------
\* MirrorIsCurrent: for any number of changes of the authority, in whatever order
\* pushes, pulls and probe answers reach the page, it ends up with the last word.
\* (setupFlow.js:983-989, 201-203)
THEOREM TheMirrorIsCurrent == MirrorSpec => []MirrorIsCurrent
<1>1. MirrorInit => MirrorInv
  BY DEF MirrorInit, MirrorInv, UnderWay, HeldIsPast, LastWordIsHeld, LastWordIsDrawn,
         NewerIsDrawn, Snapshot
<1>2. MirrorInv /\ [MirrorNext]_mirrorVars => MirrorInv'
  <2> SUFFICES ASSUME MirrorInv, [MirrorNext]_mirrorVars PROVE MirrorInv'
    OBVIOUS
  <2>1. CASE Change
    <3>1. Moves
      BY <2>1, EmitMoves DEF Change, MirrorInv, UnderWay, Snapshot
    <3> QED
      BY <2>1, <3>1, PageRests DEF Change, MirrorInv, UnderWay
  <2>2. CASE ProbeEnds
    <3>1. Moves
      BY <2>2, EmitMoves DEF ProbeEnds, MirrorInv
    <3>2. mirror = "raceday" => kicks' = {}
      BY <2>2 DEF ProbeEnds, MirrorInv, UnderWay
    <3> QED
      BY <2>2, <3>1, <3>2, PageRests DEF ProbeEnds
  <2>3. CASE Recheck
    <3>1. Moves \/ UNCHANGED <<now, pushed>>
      BY <2>3, AskProbeMoves DEF Recheck, MirrorInv
    <3> QED
      BY <2>3, <3>1, PageRests DEF Recheck
  <2>4. CASE UNCHANGED mirrorVars
    BY <2>4, PageRests DEF mirrorVars, viewVars, MirrorInv, UnderWay
  <2> QED
    BY <2>1, <2>2, <2>3, <2>4, PushKeepsMirror, EnterKeepsMirror, LeaveKeepsMirror,
       ServeKeepsMirror, HotspotPullKeepsMirror, RaceDayPullKeepsMirror, KickKeepsMirror
       DEF MirrorNext
<1>3. MirrorInv => MirrorIsCurrent
  <2> SUFFICES ASSUME MirrorInv, pushed = {}, pulls = {} PROVE MirrorIsCurrent
    BY DEF MirrorIsCurrent
  <2>1. held # NoSnap => held.seq = now.seq
    BY NoSnapIsASnapshot DEF MirrorInv, LastWordIsHeld, HeldIsPast, UnderWay, Snapshot
  <2> QED
    BY <2>1 DEF MirrorInv, HeldIsPast, LastWordIsDrawn, MirrorIsCurrent
<1> QED
  BY <1>1, <1>2, <1>3, PTL DEF MirrorSpec

HIDE MirrorsAssumption
-----------------------------------------------------------------------------
(* The video style.                                                        *)

ServersTypeOK == installed \in BOOLEAN /\ running \in Nat /\ retrying \in Nat

ServerInv == ServersTypeOK /\ OneMediaServer

\* Changing the key leaves one supervisor, with its child started and no timer.
LEMMA RekeyKeepsOne == \A style : ServerInv /\ Rekey(style) => ServerInv'
  BY DEF Rekey, ServerInv, ServersTypeOK, OneMediaServer, Spawned

\* Where the binary was found there is always exactly one media server, or one timer
\* that will start it; where it was not there is neither.  (mediamtx.js:35-43, 73-102)
THEOREM OneServerOnly == VideoSpec => []OneMediaServer
<1>1. VideoInit => ServerInv
  BY DEF VideoInit, ServerInv, ServersTypeOK, OneMediaServer, Spawned
<1>2. ServerInv /\ [VideoNext]_videoVars => ServerInv'
  <2> SUFFICES ASSUME ServerInv, [VideoNext]_videoVars PROVE ServerInv'
    OBVIOUS
  <2>1. ASSUME UNCHANGED serverVars PROVE ServerInv'
    BY <2>1 DEF serverVars, ServerInv, ServersTypeOK, OneMediaServer, Spawned
  <2>2. ASSUME ServerExits \/ ServerRestarts PROVE ServerInv'
    BY <2>2 DEF ServerExits, ServerRestarts, ServerInv, ServersTypeOK, OneMediaServer, Spawned
  <2>3. ASSUME ApplyElsewhere PROVE ServerInv'
    BY <2>3, RekeyKeepsOne DEF ApplyElsewhere
  <2>4. ASSUME MainHandles PROVE ServerInv'
    <3>1. PICK ok \in BOOLEAN :
             IF ok /\ Head(requests).kind = "apply" THEN Rekey(stored) ELSE UNCHANGED serverVars
      BY <2>4 DEF MainHandles
    <3> QED
      BY <3>1, <2>1, RekeyKeepsOne
  <2>5. ASSUME \/ \E c \in Switch, style \in Style : SwitchStyle(c, style)
               \/ SaveAnswers \/ ApplyAnswers
               \/ PeerConnects \/ PeerFails \/ PeerRetries \/ MediaEvent
               \/ UNCHANGED videoVars
        PROVE  UNCHANGED serverVars
    BY <2>5 DEF SwitchStyle, SaveAnswers, ApplyAnswers, PeerConnects, PeerFails,
                PeerRetries, MediaEvent, videoVars
  <2> QED
    BY <2>1, <2>2, <2>3, <2>4, <2>5 DEF VideoNext
<1>3. ServerInv => OneMediaServer
  BY DEF ServerInv
<1> QED
  BY <1>1, <1>2, <1>3, PTL DEF VideoSpec

-----------------------------------------------------------------------------
\* While a retry is scheduled there is no connection.
RetryAlone == again => peer = "none"

PictureInv == RetryAlone /\ LiveIsConnected /\ again \in BOOLEAN

\* Only `playing', or `connecting' over a live picture, gives a live one.
LEMMA OnlyPlayingIsLive ==
    ASSUME NEW p, NEW event \in {"playing", "connecting", "waiting", "stalled", "dropped",
                                 "error", "emptied", "ended", "stopped"},
           Reduce(p, event) = "live"
    PROVE  event = "playing" \/ (event = "connecting" /\ p = "live")
  BY DEF Reduce

\* The confident green is shown only over a connection that is up: not after a
\* drop, nor through a retry or a switch of the style.  (videoState.mjs:46-50)
THEOREM GreenIsConnected == VideoSpec => []LiveIsConnected
<1> USE DEF PictureInv, RetryAlone, LiveIsConnected
<1>1. VideoInit => PictureInv
  BY DEF VideoInit
<1>2. PictureInv /\ [VideoNext]_videoVars => PictureInv'
  <2> SUFFICES ASSUME PictureInv, [VideoNext]_videoVars PROVE PictureInv'
    OBVIOUS
  <2>1. ASSUME UNCHANGED whepVars PROVE PictureInv'
    BY <2>1 DEF whepVars
  <2>2. ASSUME PeerConnects PROVE PictureInv'
    BY <2>2 DEF PeerConnects
  <2>3. ASSUME PeerFails PROVE PictureInv'
    <3>1. CASE peer = "up"
      BY <2>3, <3>1, OnlyPlayingIsLive DEF PeerFails
    <3>2. CASE peer # "up"
      BY <2>3, <3>2 DEF PeerFails
    <3> QED
      BY <3>1, <3>2
  <2>4. ASSUME PeerRetries PROVE PictureInv'
    <3>1. phase # "live"
      BY <2>4 DEF PeerRetries
    <3>2. phase' # "live"
      BY <2>4, <3>1, OnlyPlayingIsLive DEF PeerRetries
    <3> QED
      BY <2>4, <3>2 DEF PeerRetries
  <2>5. ASSUME MediaEvent PROVE PictureInv'
    <3>1. PICK event \in {"playing", "waiting", "stalled", "emptied", "ended", "error"} :
             /\ event = "playing" => peer = "up"
             /\ phase' = Reduce(phase, event)
      BY <2>5 DEF MediaEvent
    <3> QED
      BY <2>5, <3>1, OnlyPlayingIsLive DEF MediaEvent
  <2>6. ASSUME ApplyAnswers PROVE PictureInv'
    <3> DEFINE style == Head(replies).request.style
    <3>1. CASE style = player
      BY <2>1, <2>6, <3>1 DEF ApplyAnswers, ApplyVideoProfile
    <3>2. CASE style # player
      <4>1. /\ peer' = "trying" /\ again' = FALSE
            /\ phase' = Reduce(Reduce(phase, "stopped"), "connecting")
        BY <2>6, <3>2 DEF ApplyAnswers, ApplyVideoProfile
      <4>2. phase' # "live"
        BY <4>1, OnlyPlayingIsLive
      <4> QED
        BY <4>1, <4>2
    <3> QED
      BY <3>1, <3>2
  <2>7. ASSUME \/ \E c \in Switch, style \in Style : SwitchStyle(c, style)
               \/ MainHandles \/ SaveAnswers \/ ServerExits \/ ServerRestarts
               \/ ApplyElsewhere \/ UNCHANGED videoVars
        PROVE  UNCHANGED whepVars
    BY <2>7 DEF SwitchStyle, MainHandles, SaveAnswers, ServerExits, ServerRestarts,
                ApplyElsewhere, videoVars
  <2> QED
    BY <2>1, <2>2, <2>3, <2>4, <2>5, <2>6, <2>7 DEF VideoNext
<1>3. PictureInv => LiveIsConnected
  OBVIOUS
<1> QED
  BY <1>1, <1>2, <1>3, PTL DEF VideoSpec
-----------------------------------------------------------------------------
(* The steps of the setup flow.                                            *)

\* Of the entries at an await, those that are current are of the current step.
CurrentIsOfTheStep ==
    /\ arriving \subseteq Awaited \X {"current", "stale"}
    /\ \A s \in Awaited : <<s, "current">> \in arriving => s = step

PollInv == CurrentIsOfTheStep /\ PollsBelongToTheStep

LEMMA OutdatedIsStale ==
    ASSUME arriving \subseteq Awaited \X {"current", "stale"}, NEW s
    PROVE  /\ Outdated(s) \subseteq Awaited \X {"current", "stale"}
           /\ \A t \in Awaited : <<t, "current">> \in Outdated(s) =>
                  t # s /\ <<t, "current">> \in arriving
<1>1. \A a \in arriving : /\ a \in Awaited \X {"current", "stale"}
                          /\ a = <<a[1], a[2]>>
  OBVIOUS
<1> QED
  BY <1>1 DEF Outdated

\* Another step is shown: what the old one waits for is stale, its poll is gone.
LEMMA ShowStepKeepsPolls ==
    ASSUME PollInv, NEW next, NEW a, ShowStep(next, a)
    PROVE  PollInv'
<1> USE DEF PollInv, CurrentIsOfTheStep, PollsBelongToTheStep
<1>1. /\ step' = next
      /\ timers' = (timers \ {step}) \cup ({next} \cap {"seatfit"})
      /\ arriving' = Outdated(step) \cup ({next} \cap Awaited) \X {"current"}
  BY DEF ShowStep
<1>2. PollsBelongToTheStep'
  BY <1>1
<1>3. \A t \in Awaited : <<t, "current">> \notin Outdated(step)
  BY OutdatedIsStale
<1>4. CurrentIsOfTheStep'
  BY <1>1, <1>3, OutdatedIsStale
<1> QED
  BY <1>2, <1>4

\* START leaves the GRID's poll and its entry behind.
LEMMA BeginStartKeepsPolls == PollInv /\ BeginStart /\ UNCHANGED step => PollInv'
<1> SUFFICES ASSUME PollInv, BeginStart, UNCHANGED step PROVE PollInv'
  OBVIOUS
<1> USE DEF PollInv, CurrentIsOfTheStep, PollsBelongToTheStep
<1>1. CASE UNCHANGED <<timers, arriving>>
  BY <1>1
<1>2. CASE Leave("grid")
  <2>1. PollsBelongToTheStep'
    BY <1>2 DEF Leave
  <2>2. CurrentIsOfTheStep'
    BY <1>2, OutdatedIsStale DEF Leave
  <2> QED
    BY <2>1, <2>2
<1> QED
  BY <1>1, <1>2 DEF BeginStart

\* PollsBelongToTheStep: the poll of a step runs on that step only, whatever is
\* pressed and however late the answers come.  (setupFlow.js:587-590, 1796-1800)
THEOREM PollsAreOfTheStep == FlowSpec => []PollsBelongToTheStep
<1>1. FlowInit => PollInv
  BY DEF FlowInit, PollInv, CurrentIsOfTheStep, PollsBelongToTheStep
<1>2. PollInv /\ [FlowNext]_flowVars => PollInv'
  <2> SUFFICES ASSUME PollInv, [FlowNext]_flowVars PROVE PollInv'
    OBVIOUS
  <2>1. ASSUME NEW next, NEW a, ShowStep(next, a) PROVE PollInv'
    BY <2>1, ShowStepKeepsPolls
  <2>2. ASSUME UNCHANGED <<step, timers, arriving>> PROVE PollInv'
    BY <2>2 DEF PollInv, CurrentIsOfTheStep, PollsBelongToTheStep
  <2>3. CASE BootLoads \/ ModeIsSaved \/ FastPath \/ Navigate \/ ChangeSetup \/ RerunSetup
    BY <2>1, <2>3 DEF BootLoads, ModeIsSaved, FastPath, Navigate, ChangeSetup, RerunSetup
  <2>4. CASE RaceDayAnswers
    BY <2>1, <2>2, <2>4 DEF RaceDayAnswers, stepVars
  <2>5. CASE PitwallArrives
    <3>1. /\ step' = step /\ arriving' \subseteq arriving
          /\ \/ timers' = timers
             \/ timers' = timers \cup {"pitwall"} /\ <<"pitwall", "current">> \in arriving
      BY <2>5 DEF PitwallArrives
    <3> QED
      BY <3>1 DEF PollInv, CurrentIsOfTheStep, PollsBelongToTheStep, Awaited
  <2>6. CASE GridArrives \/ GridArrivesLate
    <3>1. /\ step' = step /\ arriving' \subseteq arriving
          /\ \/ timers' = timers
             \/ timers' = timers \cup {"grid"} /\ <<"grid", "current">> \in arriving
      BY <2>6 DEF GridArrives, GridArrivesLate
    <3> QED
      BY <3>1 DEF PollInv, CurrentIsOfTheStep, PollsBelongToTheStep, Awaited
  <2>7. CASE TickEnds
    <3>1. step' = step /\ (BeginStart \/ UNCHANGED <<timers, arriving>>)
      BY <2>7 DEF TickEnds
    <3> QED
      BY <2>2, <3>1, BeginStartKeepsPolls
  <2>8. CASE PressStart
    BY <2>8, BeginStartKeepsPolls DEF PressStart
  <2>9. CASE \/ BootFails \/ BootRetry \/ ChooseMode \/ PressRaceDay \/ Plug \/ GridTick
             \/ RunLights \/ LightsOut \/ FadeEnds \/ UNCHANGED flowVars
    BY <2>2, <2>9 DEF BootFails, BootRetry, ChooseMode, PressRaceDay, Plug, GridTick,
                      RunLights, LightsOut, FadeEnds, flowVars, stepVars
  <2> QED
    BY <2>3, <2>4, <2>5, <2>6, <2>7, <2>8, <2>9 DEF FlowNext
<1>3. PollInv => PollsBelongToTheStep
  BY DEF PollInv
<1> QED
  BY <1>1, <1>2, <1>3, PTL DEF FlowSpec
-----------------------------------------------------------------------------
(* PIT WALL and joining a network.                                         *)

\* TabStaysWhereItWasPut: once the visit has shown the tab, no answer moves it.
\* No invariant is needed: each answer looks at the visit it was asked in.
\* (setupFlow.js:587-590)
THEOREM TheTabStays == WallSpec => TabStaysWhereItWasPut
<1> DEFINE Stays == here /\ entry \cap ({"caps", "listing"} \X {"current"}) = {}
                       /\ netKind' # netKind => entry' = entry
<1>1. ASSUME [WallNext]_wallVars PROVE [Stays]_wallVars
  <2>1. CASE CapsAnswer
    BY <2>1 DEF CapsAnswer
  <2>2. CASE ListingAnswers
    BY <2>2 DEF ListingAnswers
  <2>3. CASE ShowNetTab
    BY <2>3 DEF ShowNetTab
  <2>4. CASE \/ EnterPitwall \/ LeavePitwall \/ EntryEnds \/ AdapterState \/ PickAdapter
             \/ PickIsSaved \/ Joined \/ HotspotStart \/ HotspotStarted
    BY <2>4 DEF EnterPitwall, LeavePitwall, EntryEnds, AdapterState, PickAdapter,
                PickIsSaved, Joined, HotspotStart, HotspotStarted, tabVars, wallVars
  <2>5. CASE UNCHANGED wallVars
    BY <2>5
  <2> QED
    BY <1>1, <2>1, <2>2, <2>3, <2>4, <2>5 DEF WallNext
<1> QED
  BY <1>1, PTL DEF WallSpec, TabStaysWhereItWasPut

\* The field is for the network whose row shows, if that asks for a password.
FieldIsForTheTarget ==
    /\ target # NoNet => target.net \in Net
    /\ target # NoNet /\ target.action = "password" => field \in {target.net, NoNet}

Join == [at : {"idle", "adding", "connecting", "polling"},
         net : Net \cup {NoNet}, pinned : BOOLEAN,
         password : Net \cup {NoNet}, missing : 0 .. JoinMissingPolls - 1]

Joins == [Call -> Join]

JoinInv ==
    /\ joins \in Joins
    /\ FieldIsForTheTarget
    /\ PasswordStaysWithItsNetwork

\* A join that begins takes a password only from a row that asks for one.
LEMMA DoJoinKeepsPasswords ==
    ASSUME JoinInv, NEW n \in Net, NEW action, NEW profile, NEW password,
           DoJoin(n, action, profile, password),
           action = "password" => password \in {n, NoNet}
    PROVE  /\ joins' \in Joins
           /\ PasswordStaysWithItsNetwork'
<1> USE DEF JoinInv, Joins, PasswordStaysWithItsNetwork
<1>1. CASE UNCHANGED joins
  BY <1>1
<1>2. ASSUME NEW j \in Call, NEW pinned \in BOOLEAN,
             joins' = [joins EXCEPT ![j] =
                 [at |-> IF profile = "add" THEN "adding" ELSE "connecting",
                  net |-> n, missing |-> 0,
                  pinned |-> pinned,
                  password |-> IF action = "password" THEN password ELSE NoNet]]
      PROVE  joins' \in Joins /\ PasswordStaysWithItsNetwork'
  <2> DEFINE join == [at |-> IF profile = "add" THEN "adding" ELSE "connecting",
                      net |-> n, missing |-> 0, pinned |-> pinned,
                      password |-> IF action = "password" THEN password ELSE NoNet]
  <2>1. /\ join \in Join
        /\ join.password \in {join.net, NoNet}
    BY DEF Join, JoinMissingPolls
  <2>2. joins' = [joins EXCEPT ![j] = join]
    BY <1>2
  <2> HIDE DEF join
  <2> QED
    BY <2>1, <2>2
<1> QED
  BY <1>1, <1>2 DEF DoJoin

LEMMA JoinKeeps == JoinSpec => []JoinInv
<1>1. JoinInit => JoinInv
  BY DEF JoinInit, JoinInv, Joins, Join, JoinMissingPolls, FieldIsForTheTarget,
         PasswordStaysWithItsNetwork, NoJoin
<1>2. JoinInv /\ [JoinNext]_joinVars => JoinInv'
  <2> SUFFICES ASSUME JoinInv, [JoinNext]_joinVars PROVE JoinInv'
    OBVIOUS
  <2>1. ASSUME NEW n \in Net, NEW security \in Security, NEW known \in BOOLEAN,
               SelectNetwork(n, security, known)
        PROVE  JoinInv'
    <3> DEFINE action == JoinPlan(security, known)
    <3> HIDE DEF action
    <3>1. /\ target' = IF action = "reject" THEN NoNet ELSE [net |-> n, action |-> action]
          /\ field' = IF action = "password" THEN NoNet ELSE field
          /\ IF action = "join"
             THEN DoJoin(n, action, ManagerPlan(security, known, FALSE), NoNet)
             ELSE UNCHANGED joins
      BY <2>1 DEF SelectNetwork, action
    <3>2. FieldIsForTheTarget'
      BY <3>1 DEF FieldIsForTheTarget
    <3>3. CASE action = "join"
      BY <3>1, <3>2, <3>3, DoJoinKeepsPasswords DEF JoinInv
    <3>4. CASE action # "join"
      BY <3>1, <3>2, <3>4 DEF JoinInv, PasswordStaysWithItsNetwork
    <3> QED
      BY <3>3, <3>4
  <2>2. CASE TypePassword
    BY <2>2 DEF TypePassword, JoinInv, FieldIsForTheTarget, PasswordStaysWithItsNetwork
  <2>3. CASE PressJoin
    <3>1. PICK known \in BOOLEAN :
            DoJoin(target.net, target.action,
                   ManagerPlan(IF target.action = "open" THEN "open" ELSE "wpa2-personal",
                               known, target.action = "password" /\ field # NoNet),
                   field)
      BY <2>3 DEF PressJoin
    <3>2. target # NoNet /\ UNCHANGED <<target, field>>
      BY <2>3 DEF PressJoin
    <3>3. target.net \in Net /\ (target.action = "password" => field \in {target.net, NoNet})
      BY <3>2 DEF JoinInv, FieldIsForTheTarget
    <3>4. /\ joins' \in Joins
          /\ PasswordStaysWithItsNetwork'
      BY <3>1, <3>3, DoJoinKeepsPasswords
    <3> QED
      BY <3>2, <3>4 DEF JoinInv, FieldIsForTheTarget
  <2>4. ASSUME NEW j \in Call,
               \/ ProfileIsAdded(j) \/ ConnectAnswers(j)
               \/ PollFindsIt(j) \/ PollMisses(j) \/ JoinTimesOut(j)
        PROVE  JoinInv'
    <3>1. UNCHANGED <<target, field>>
      BY <2>4 DEF ProfileIsAdded, ConnectAnswers, PollFindsIt, PollMisses, JoinTimesOut
    <3> DEFINE old == joins[j]
    <3>2. \/ \E join \in {old, [old EXCEPT !.at = "polling"], NoJoin,
                           [old EXCEPT !.at = "connecting", !.password = NoNet],
                           [old EXCEPT !.missing = 0]} :
                joins' = [joins EXCEPT ![j] = join]
          \/ /\ old.missing + 1 # JoinMissingPolls
             /\ joins' = [joins EXCEPT ![j] = [old EXCEPT !.missing = @ + 1]]
      <4>1. CASE ProfileIsAdded(j)
        BY <4>1 DEF ProfileIsAdded
      <4>2. CASE ConnectAnswers(j)
        BY <4>2 DEF ConnectAnswers
      <4>3. CASE PollFindsIt(j) \/ JoinTimesOut(j)
        BY <4>3 DEF PollFindsIt, JoinTimesOut
      <4>4. CASE PollMisses(j)
        BY <4>4 DEF PollMisses
      <4> QED
        BY <2>4, <4>1, <4>2, <4>3, <4>4
    <3>3. PICK join : /\ joins' = [joins EXCEPT ![j] = join]
                      /\ join \in Join
                      /\ join.password \in {join.net, NoNet}
      <4>1. old \in Join /\ old.password \in {old.net, NoNet}
        BY DEF JoinInv, Joins, PasswordStaysWithItsNetwork
      <4> HIDE DEF old
      <4>2. CASE /\ old.missing + 1 # JoinMissingPolls
                 /\ joins' = [joins EXCEPT ![j] = [old EXCEPT !.missing = @ + 1]]
        <5>1. old.missing \in 0 .. 2 /\ old.missing + 1 # 3
          BY <4>1, <4>2 DEF Join, JoinMissingPolls
        <5>2. old.missing + 1 \in 0 .. JoinMissingPolls - 1
          BY <5>1 DEF JoinMissingPolls
        <5>3. [old EXCEPT !.missing = @ + 1] \in Join
          BY <4>1, <5>2 DEF Join
        <5>4. [old EXCEPT !.missing = @ + 1].password = old.password
              /\ [old EXCEPT !.missing = @ + 1].net = old.net
          BY <4>1 DEF Join
        <5> QED
          BY <4>1, <4>2, <5>3, <5>4
      <4>3. CASE \E join \in {old, [old EXCEPT !.at = "polling"], NoJoin,
                              [old EXCEPT !.at = "connecting", !.password = NoNet],
                              [old EXCEPT !.missing = 0]} :
                   joins' = [joins EXCEPT ![j] = join]
        <5>1. PICK join \in {old, [old EXCEPT !.at = "polling"], NoJoin,
                             [old EXCEPT !.at = "connecting", !.password = NoNet],
                             [old EXCEPT !.missing = 0]} :
                   joins' = [joins EXCEPT ![j] = join]
          BY <4>3
        <5>2. CASE join = NoJoin
          <6>1. 0 \in 0 .. JoinMissingPolls - 1
            BY DEF JoinMissingPolls
          <6>2. NoJoin \in Join /\ NoJoin.password = NoJoin.net
            BY <6>1 DEF NoJoin, Join
          <6> QED
            BY <5>1, <5>2, <6>2
        <5>3. CASE join \in {old, [old EXCEPT !.at = "polling"],
                             [old EXCEPT !.at = "connecting", !.password = NoNet]}
          <6>1. join \in Join /\ join.password \in {join.net, NoNet}
            BY <4>1, <5>3 DEF Join
          <6> QED
            BY <5>1, <6>1
        <5>4. CASE join = [old EXCEPT !.missing = 0]
          <6>1. 0 \in 0 .. JoinMissingPolls - 1
            BY DEF JoinMissingPolls
          <6>2. join \in Join /\ join.password \in {join.net, NoNet}
            BY <4>1, <5>4, <6>1 DEF Join
          <6> QED
            BY <5>1, <6>2
        <5> QED
          BY <5>1, <5>2, <5>3, <5>4
      <4> QED
        BY <3>2, <4>2, <4>3 DEF old
    <3> QED
      BY <3>1, <3>3 DEF JoinInv, Joins, FieldIsForTheTarget, PasswordStaysWithItsNetwork
  <2>5. CASE UNCHANGED joinVars
    BY <2>5 DEF joinVars, JoinInv, FieldIsForTheTarget, PasswordStaysWithItsNetwork
  <2> QED
    BY <2>1, <2>2, <2>3, <2>4, <2>5 DEF JoinNext
<1> QED
  BY <1>1, <1>2, PTL DEF JoinSpec

\* PasswordStaysWithItsNetwork: a password typed for one network is never sent for
\* another, for any number of networks and of joins.  (setupFlow.js:869-912)
THEOREM PasswordsStay == JoinSpec => []PasswordStaysWithItsNetwork
<1>1. JoinInv => PasswordStaysWithItsNetwork
  BY DEF JoinInv
<1> QED
  BY <1>1, JoinKeeps, PTL

\* The selection and the password row, which need nothing of the joins.
SelectionOK ==
    /\ row \in BOOLEAN
    /\ target = NoNet \/ target \in [net : Net, action : {"join", "open", "password"}]
    /\ field \in Net \cup {NoNet}

\* JoinTypeOK: the selection and the joins keep their types; the count of polls
\* that missed the adapter ends before it passes its limit, whatever comes between.
THEOREM JoinTypeCorrect == JoinSpec => []JoinTypeOK
<1> USE JoinAssumption
<1>1. JoinInit => SelectionOK
  BY DEF JoinInit, SelectionOK
<1>2. SelectionOK /\ [JoinNext]_joinVars => SelectionOK'
  <2> SUFFICES ASSUME SelectionOK, [JoinNext]_joinVars PROVE SelectionOK'
    OBVIOUS
  <2> USE DEF SelectionOK
  <2>1. ASSUME NEW n \in Net, NEW security \in Security, NEW known \in BOOLEAN,
               SelectNetwork(n, security, known)
        PROVE  SelectionOK'
    <3> DEFINE action == JoinPlan(security, known)
    <3>1. action \in {"reject", "open", "join", "password"}
      BY DEF JoinPlan, Security
    <3> HIDE DEF action
    <3>2. /\ target' = IF action = "reject" THEN NoNet ELSE [net |-> n, action |-> action]
          /\ row' = (action \in {"open", "password"})
          /\ field' = IF action = "password" THEN NoNet ELSE field
      BY <2>1 DEF SelectNetwork, action
    <3> QED
      BY <3>1, <3>2
  <2>2. CASE TypePassword
    BY <2>2 DEF TypePassword
  <2>3. CASE PressJoin
    BY <2>3 DEF PressJoin
  <2>4. ASSUME NEW j \in Call,
               \/ ProfileIsAdded(j) \/ ConnectAnswers(j)
               \/ PollFindsIt(j) \/ PollMisses(j) \/ JoinTimesOut(j)
        PROVE  SelectionOK'
    BY <2>4 DEF ProfileIsAdded, ConnectAnswers, PollFindsIt, PollMisses, JoinTimesOut
  <2>5. CASE UNCHANGED joinVars
    BY <2>5 DEF joinVars
  <2> QED
    BY <2>1, <2>2, <2>3, <2>4, <2>5 DEF JoinNext
<1>3. SelectionOK /\ JoinInv => JoinTypeOK
  BY DEF SelectionOK, JoinInv, Joins, Join, JoinTypeOK
<1> QED
  BY <1>1, <1>2, <1>3, JoinKeeps, PTL DEF JoinSpec
-----------------------------------------------------------------------------
(* SEAT FIT and the controller in the page.                                *)

\* A poll, or a pick with the poll in it, ends the listen or leaves it be.
LEMMA TickKeepsListen ==
    ASSUME ListenNeverOutlivesItsRow, NEW pad1, NEW key, Tick(pad1, key),
           UNCHANGED <<atSeatfit, type, pedals>>
    PROVE  ListenNeverOutlivesItsRow'
  BY DEF Tick, CancelListen, listenVars, ListenNeverOutlivesItsRow, Panel

\* ListenNeverOutlivesItsRow: a listen is for a row that can be seen and has its
\* clock, for any number of devices.  (setupFlow.js:1236-1238, 1382-1397)
THEOREM ListensEnd == SeatSpec => []ListenNeverOutlivesItsRow
<1>1. SeatInit => ListenNeverOutlivesItsRow
  BY DEF SeatInit, ListenNeverOutlivesItsRow
<1>2. ListenNeverOutlivesItsRow /\ [SeatNext]_seatVars => ListenNeverOutlivesItsRow'
  <2> SUFFICES ASSUME ListenNeverOutlivesItsRow, [SeatNext]_seatVars
               PROVE  ListenNeverOutlivesItsRow'
    OBVIOUS
  <2>1. ASSUME CancelListen PROVE ListenNeverOutlivesItsRow'
    BY <2>1 DEF CancelListen, ListenNeverOutlivesItsRow
  <2>2. ASSUME UNCHANGED <<atSeatfit, type, pedals, listening, clock>>
        PROVE  ListenNeverOutlivesItsRow'
    BY <2>2 DEF ListenNeverOutlivesItsRow, Panel
  <2>3. ASSUME NEW d \in Slot, Move(d) \/ PickPad(d) \/ PickWheel(d)
        PROVE  ListenNeverOutlivesItsRow'
    BY <2>2, <2>3, TickKeepsListen DEF Move, PickPad, PickWheel, listenVars
  <2>4. ASSUME NEW t \in Type, ApplyInputType(t) PROVE ListenNeverOutlivesItsRow'
    BY <2>1, <2>4 DEF ApplyInputType
  <2>5. ASSUME NEW role \in Role, StartListen(role) PROVE ListenNeverOutlivesItsRow'
    BY <2>5 DEF StartListen, ListenNeverOutlivesItsRow
  <2>6. ASSUME NEW choice \in {"separate", "combined"}, SetPedalMode(choice)
        PROVE  ListenNeverOutlivesItsRow'
    BY <2>1, <2>6 DEF SetPedalMode
  <2>7. CASE EnterSeatfit \/ LeaveSeatfit \/ ListenTimesOut
    BY <2>1, <2>7 DEF EnterSeatfit, LeaveSeatfit, ListenTimesOut
  <2>8. CASE SeatfitTick
    BY <2>8, TickKeepsListen DEF SeatfitTick
  <2>9. CASE ApplyInputSource \/ UNCHANGED seatVars
    BY <2>2, <2>9 DEF ApplyInputSource, listenVars, seatVars
  <2> QED
    BY <2>3, <2>4, <2>5, <2>6, <2>7, <2>8, <2>9 DEF SeatNext
<1> QED
  BY <1>1, <1>2, PTL DEF SeatSpec

\* What is worn was down when the last snapshot was taken.
WornIsSeen ==
    /\ pad = Gone \/ pad \subseteq Key
    /\ worn \subseteq Key
    /\ prev # Gone => worn \subseteq prev

\* A poll follows a key that was not down in the last snapshot, or none.
LEMMA FollowActsOnEdges == Follow => did'.key \in Edges \cup {"none"}
  BY DEF Follow, Act, Nothing, Edges

\* APressActsOnce: over any number of polls, presses, listens, screens and rides,
\* a key that is held acts once.  (uiNav.js:225-245)
THEOREM PressesActOnce == NavSpec => APressActsOnce
<1> DEFINE Once == did'.key \notin worn
<1>1. NavInit => WornIsSeen
  BY DEF NavInit, WornIsSeen, Gone, Key
<1>2. WornIsSeen /\ [NavNext]_navVars => WornIsSeen' /\ [Once]_navVars
  <2> SUFFICES ASSUME WornIsSeen, [NavNext]_navVars PROVE WornIsSeen' /\ [Once]_navVars
    OBVIOUS
  <2>1. "none" \notin worn /\ Nothing.key = "none"
    BY DEF WornIsSeen, Key, Nothing
  <2>2. CASE PollOnce
    <3>1. WornIsSeen'
      BY <2>2 DEF PollOnce, WornIsSeen
    <3>2. CASE pad = Gone
      BY <2>1, <2>2, <3>1, <3>2 DEF PollOnce
    <3>3. CASE pad # Gone
      <4>1. did'.key \in Edges \cup {"none"}
        BY <2>2, <3>3, FollowActsOnEdges DEF PollOnce
      <4>2. worn \cap Edges = {}
        BY DEF WornIsSeen, Edges
      <4> QED
        BY <2>1, <3>1, <4>1, <4>2
    <3> QED
      BY <3>2, <3>3
  <2>3. CASE Press
    BY <2>1, <2>3 DEF Press, WornIsSeen
  <2>4. CASE Swap
    BY <2>1, <2>4 DEF Swap, WornIsSeen
  <2>5. CASE PageMoves
    BY <2>1, <2>5 DEF PageMoves, WornIsSeen
  <2>6. CASE UNCHANGED navVars
    BY <2>6 DEF navVars, WornIsSeen
  <2> QED
    BY <2>2, <2>3, <2>4, <2>5, <2>6 DEF NavNext
<1> QED
  BY <1>1, <1>2, PTL DEF NavSpec, APressActsOnce
-----------------------------------------------------------------------------
(* The types of the parts.                                                 *)

\* The step that follows or precedes one of a path is a step; the GRID has none
\* after it, and no button that asks for one.
LEMMA StepsAreScreens ==
    ASSUME NEW s \in Screen, NEW m \in {"solo", "iphone-hud"}
    PROVE  /\ s # "grid" => NextOf(s, m) \in Screen
           /\ PrevOf(s, m) \in Screen
<1> DEFINE p == Path(m)
<1>1. /\ p \in Seq(Screen)
      /\ DOMAIN p = 1 .. Len(p)
      /\ p[1] = "garage" /\ p[Len(p)] = "grid"
  <2>1. CASE m = "iphone-hud"
    <3>1. p = <<"garage", "pitwall", "seatfit", "setup", "grid">>
      BY <2>1 DEF Path
    <3> HIDE DEF p
    <3> QED
      BY <3>1 DEF Screen
  <2>2. CASE m = "solo"
    <3>1. p = <<"garage", "seatfit", "setup", "grid">>
      BY <2>2 DEF Path
    <3> HIDE DEF p
    <3> QED
      BY <3>1 DEF Screen
  <2> QED
    BY <2>1, <2>2
<1>2. CASE OnPath(s, m)
  <2>1. Place(s, m) \in 1 .. Len(p) /\ p[Place(s, m)] = s
    BY <1>1, <1>2 DEF OnPath, Place
  <2>2. s # "grid" => Place(s, m) + 1 \in 1 .. Len(p)
    BY <1>1, <2>1
  <2>3. s # "garage" => Place(s, m) - 1 \in 1 .. Len(p)
    BY <1>1, <2>1
  <2> HIDE DEF p
  <2>4. \A i \in 1 .. Len(p) : p[i] \in Screen
    BY <1>1
  <2> QED
    BY <1>2, <2>2, <2>3, <2>4 DEF NextOf, PrevOf, p, Screen
<1>3. CASE ~OnPath(s, m)
  BY <1>3 DEF NextOf, PrevOf, Screen
<1> QED
  BY <1>2, <1>3

\* FlowTypeOK in three parts: the words and the flags,
FlowWords ==
    /\ boot \in {"loading", "failed", "up"}
    /\ mode \in {"solo", "iphone-hud"}
    /\ step \in Screen
    /\ tick \in {"none", "ok", "fail"}
    /\ completed \in BOOLEAN /\ gate \in BOOLEAN /\ enabled \in BOOLEAN
    /\ plugged \in BOOLEAN /\ armed \in BOOLEAN /\ bringing \in BOOLEAN
    /\ lights \in BOOLEAN /\ started \in BOOLEAN

\* the polls, the entries and the rows,
FlowSets ==
    /\ timers \subseteq Polled
    /\ arriving \subseteq Awaited \X {"current", "stale"}
    /\ checks \in [Row -> Mark]

\* and the presses, with what they rest on: the screen that is active is that of
\* the step, the arm of an automatic start is the GRID's and is never set while a
\* bring-up is awaited, and of the presses of START at most one was made by the
\* arm beside those that the bound admits.
PressInv ==
    /\ screen \in {step, "none"}
    /\ armed => step = "grid" /\ ~bringing
    /\ choosing \in 0 .. MaxPress
    /\ saving \in Nat /\ counting \in Nat /\ fading \in Nat
    /\ Pressed <= MaxPress + 1
    /\ armed \/ bringing => Pressed <= MaxPress

FlowInv == FlowWords /\ FlowSets /\ PressInv

\* Another step is shown.
LEMMA ShowStepKeepsTypes ==
    ASSUME FlowInv, NEW next \in Screen, NEW a \in BOOLEAN, ShowStep(next, a)
    PROVE  /\ step' = next /\ screen' = next
           /\ timers' \subseteq Polled
           /\ arriving' \subseteq Awaited \X {"current", "stale"}
           /\ armed' = (a /\ step # "grid")
<1>1. Outdated(step) \subseteq Awaited \X {"current", "stale"}
  BY OutdatedIsStale DEF FlowInv, FlowSets
<1> QED
  BY <1>1 DEF ShowStep, FlowInv, FlowSets, Polled

\* START adds a press and disarms, or does nothing while the lights run.
LEMMA BeginStartKeepsTypes ==
    ASSUME FlowInv, BeginStart
    PROVE  /\ timers' \subseteq Polled
           /\ arriving' \subseteq Awaited \X {"current", "stale"}
           /\ \/ saving' = saving /\ armed' = armed
              \/ saving' = saving + 1 /\ armed' = FALSE
<1>1. Outdated("grid") \subseteq Awaited \X {"current", "stale"}
  BY OutdatedIsStale DEF FlowInv, FlowSets
<1> QED
  BY <1>1 DEF BeginStart, Leave, FlowInv, FlowSets

\* FlowTypeOK: the steps, the rows, the polls and the presses keep their types, and
\* no more presses of START are unfinished than the bound on the operator's and
\* one of the arm's.
THEOREM FlowTypeCorrect == FlowSpec => []FlowTypeOK
<1> USE MaxPressAssumption
<1>1. ASSUME FlowInit PROVE FlowInv
  <2>1. FlowWords
    BY <1>1 DEF FlowInit, FlowWords, Screen
  <2>2. checks \in [Row -> Mark]
    BY <1>1 DEF FlowInit, Mark
  <2>3. FlowSets
    BY <1>1, <2>2 DEF FlowInit, FlowSets
  <2>4. PressInv
    BY <1>1 DEF FlowInit, PressInv, Pressed
  <2> QED
    BY <2>1, <2>3, <2>4 DEF FlowInv
<1>2. FlowInv /\ [FlowNext]_flowVars => FlowInv'
  <2> SUFFICES ASSUME FlowInv, [FlowNext]_flowVars PROVE FlowInv'
    OBVIOUS
  <2>a. FlowWords /\ FlowSets /\ PressInv
    BY DEF FlowInv
  <2>b. ASSUME FlowWords', FlowSets', PressInv' PROVE FlowInv'
    BY <2>b DEF FlowInv
  <2>1. ASSUME NEW next \in Screen, ShowStep(next, armed),
               boot' \in {"loading", "failed", "up"}, mode' \in {"solo", "iphone-hud"},
               completed' \in BOOLEAN, gate' \in BOOLEAN, choosing' \in 0 .. MaxPress,
               UNCHANGED <<gridVars, bringing, saving, counting, fading, lights, started>>
        PROVE  FlowInv'
    <3>1. /\ step' = next /\ screen' = next /\ timers' \subseteq Polled
          /\ arriving' \subseteq Awaited \X {"current", "stale"} /\ armed' = FALSE
      <4>1. armed \in BOOLEAN /\ (armed => step = "grid")
        BY <2>a DEF FlowWords, PressInv
      <4> QED
        BY <2>1, <4>1, ShowStepKeepsTypes
    <3>2. FlowWords'
      BY <2>1, <2>a, <3>1 DEF FlowWords, gridVars
    <3>3. FlowSets'
      BY <2>1, <2>a, <3>1 DEF FlowSets, gridVars
    <3>4. PressInv'
      BY <2>1, <2>a, <3>1 DEF PressInv, Pressed
    <3> QED
      BY <2>b, <3>2, <3>3, <3>4
  <2>2. CASE BootLoads
    <3>1. /\ boot' = "up" /\ mode' \in {"solo", "iphone-hud"} /\ completed' \in BOOLEAN
          /\ ShowStep("garage", armed)
          /\ UNCHANGED <<gate, gridVars, pressVars, saving, counting, fading, lights, started>>
      BY <2>2 DEF BootLoads
    <3>2. gate' \in BOOLEAN
      BY <2>a, <3>1 DEF FlowWords
    <3>3. choosing' \in 0 .. MaxPress
      BY <2>a, <3>1 DEF PressInv, pressVars
    <3> QED
      BY <2>1, <3>1, <3>2, <3>3 DEF pressVars, Screen
  <2>3. CASE FastPath \/ ChangeSetup \/ RerunSetup
    BY <2>1, <2>3, <2>a
       DEF FastPath, ChangeSetup, RerunSetup, pressVars, startVars, Screen, FlowWords, PressInv
  <2>4. CASE ModeIsSaved
    <3>1. NextOf("garage", mode) \in Screen /\ choosing' \in 0 .. MaxPress
      BY <2>4, <2>a, StepsAreScreens DEF ModeIsSaved, Screen, FlowWords, PressInv
    <3>2. ShowStep(NextOf("garage", mode), armed)
      BY <2>4 DEF ModeIsSaved
    <3>3. UNCHANGED <<boot, mode, gate, gridVars, bringing, startVars>>
      BY <2>4 DEF ModeIsSaved
    <3> QED
      BY <2>1, <2>a, <3>1, <3>2, <3>3 DEF startVars, FlowWords
  <2>5. CASE Navigate
    <3>1. \E next \in Screen : ShowStep(next, armed)
      BY <2>5, <2>a, StepsAreScreens DEF Navigate, FlowWords
    <3>2. UNCHANGED <<boot, mode, gate, gridVars, pressVars, startVars>>
      BY <2>5 DEF Navigate
    <3> QED
      BY <2>1, <2>a, <3>1, <3>2 DEF startVars, pressVars, FlowWords, PressInv
  <2>6. CASE PressRaceDay
    <3>1. step = "garage" /\ Pressed < MaxPress /\ bringing' = TRUE
          /\ UNCHANGED <<boot, mode, gate, gridVars, choosing, startVars, stepVars>>
      BY <2>6, <2>a DEF PressRaceDay, Operable, PressInv
    <3>2. FlowWords'
      BY <2>a, <3>1 DEF FlowWords, gridVars, startVars, stepVars
    <3>3. FlowSets'
      BY <2>a, <3>1 DEF FlowSets, gridVars, stepVars
    <3>4. PressInv'
      BY <2>a, <3>1 DEF PressInv, Pressed, startVars, stepVars
    <3> QED
      BY <2>b, <3>2, <3>3, <3>4
  <2>7. CASE RaceDayAnswers
    <3>1. bringing /\ bringing' = FALSE
          /\ UNCHANGED <<boot, mode, gate, gridVars, choosing, startVars>>
      BY <2>7 DEF RaceDayAnswers
    <3>2. \/ UNCHANGED stepVars
          \/ step' = "grid" /\ screen' = "grid" /\ timers' \subseteq Polled
             /\ arriving' \subseteq Awaited \X {"current", "stale"} /\ armed' \in BOOLEAN
      BY <2>7, ShowStepKeepsTypes DEF RaceDayAnswers, Screen
    <3>3. FlowWords'
      <4>1. step' \in Screen /\ armed' \in BOOLEAN /\ bringing' \in BOOLEAN
        BY <2>a, <3>1, <3>2 DEF FlowWords, stepVars, Screen
      <4> QED
        BY <2>a, <3>1, <4>1 DEF FlowWords, gridVars, startVars
    <3>4. FlowSets'
      BY <2>a, <3>1, <3>2 DEF FlowSets, gridVars, stepVars
    <3>5. PressInv'
      BY <2>a, <3>1, <3>2 DEF PressInv, Pressed, startVars, stepVars
    <3> QED
      BY <2>b, <3>3, <3>4, <3>5
  <2>8. CASE TickEnds
    <3>1. /\ tick' = "none" /\ enabled' \in BOOLEAN
      BY <2>8 DEF TickEnds, CanStart
    <3>2. checks' \in [Row -> Mark]
      BY <2>8, <2>a DEF TickEnds, Row, Mark, FlowWords
    <3>3. UNCHANGED <<boot, mode, gate, plugged, pressVars, completed, counting, fading,
                      lights, started, step, screen>>
      BY <2>8 DEF TickEnds
    <3>4. \/ armed /\ BeginStart
          \/ UNCHANGED <<saving, timers, arriving, armed>>
      BY <2>8 DEF TickEnds
    <3>5. \/ UNCHANGED <<saving, armed>>
          \/ armed /\ saving' = saving + 1 /\ armed' = FALSE
      BY <3>4, BeginStartKeepsTypes
    <3>6. FlowWords'
      BY <2>a, <3>1, <3>3, <3>5 DEF FlowWords, pressVars
    <3>7. FlowSets'
      BY <2>a, <3>2, <3>4, BeginStartKeepsTypes DEF FlowSets
    <3>8. PressInv'
      BY <2>a, <3>3, <3>5 DEF PressInv, Pressed, pressVars
    <3> QED
      BY <2>b, <3>6, <3>7, <3>8
  <2>9. CASE PressStart
    <3>1. BeginStart /\ Pressed < MaxPress
          /\ UNCHANGED <<boot, mode, gate, gridVars, pressVars, completed, counting, fading,
                         lights, started, step, screen>>
      BY <2>9 DEF PressStart
    <3>2. FlowWords'
      <4>1. armed' = armed \/ armed' = FALSE
        BY <3>1, BeginStartKeepsTypes
      <4>2. armed' \in BOOLEAN
        BY <2>a, <4>1 DEF FlowWords
      <4>3. /\ UNCHANGED <<boot, mode, step, tick, completed, gate, enabled, plugged>>
            /\ UNCHANGED <<bringing, lights, started>>
        BY <3>1 DEF gridVars, pressVars
      <4> QED
        BY <2>a, <4>2, <4>3 DEF FlowWords
    <3>3. FlowSets'
      <4>1. timers' \subseteq Polled /\ arriving' \subseteq Awaited \X {"current", "stale"}
        BY <2>a, <3>1, BeginStartKeepsTypes
      <4>2. checks' \in [Row -> Mark]
        BY <2>a, <3>1 DEF FlowSets, gridVars
      <4> QED
        BY <4>1, <4>2 DEF FlowSets
    <3>4. PressInv'
      <4>1. /\ saving' = saving \/ saving' = saving + 1
            /\ armed' = armed \/ armed' = FALSE
        BY <3>1, BeginStartKeepsTypes
      <4>2. counting' = counting /\ fading' = fading
            /\ UNCHANGED <<step, screen, bringing, choosing>>
        BY <3>1 DEF pressVars
      <4>3. /\ saving' \in Nat /\ counting' \in Nat /\ fading' \in Nat
            /\ Pressed' \in Nat /\ Pressed' <= MaxPress
        BY <2>a, <3>1, <4>1, <4>2 DEF PressInv, Pressed
      <4>4. armed' => step' = "grid" /\ ~bringing'
        BY <2>a, <4>1, <4>2 DEF PressInv
      <4>5. Pressed' <= MaxPress + 1
        BY <4>3
      <4>6. screen' \in {step', "none"} /\ choosing' \in 0 .. MaxPress
        BY <2>a, <4>2 DEF PressInv
      <4> QED
        BY <4>3, <4>4, <4>5, <4>6, Zenon DEF PressInv
    <3> QED
      BY <2>b, <3>2, <3>3, <3>4
  <2>10. CASE RunLights \/ LightsOut \/ FadeEnds
    <3>1. UNCHANGED <<boot, mode, gridVars, pressVars, step, timers, arriving, armed>>
      BY <2>10 DEF RunLights, LightsOut, FadeEnds, stepVars
    <3>2. /\ completed' \in BOOLEAN /\ lights' \in BOOLEAN
          /\ started' \in BOOLEAN /\ gate' \in BOOLEAN
      BY <2>10, <2>a DEF RunLights, LightsOut, FadeEnds, StartRide, FlowWords
    <3>3. screen' \in {screen, "none"}
      BY <2>10 DEF RunLights, LightsOut, FadeEnds, stepVars
    <3>4. /\ saving' \in Nat /\ counting' \in Nat /\ fading' \in Nat
          /\ saving' + counting' + fading' <= saving + counting + fading
      <4>1. saving \in Nat /\ counting \in Nat /\ fading \in Nat
        BY <2>a DEF PressInv
      <4>2. \/ saving > 0 /\ saving' = saving - 1 /\ counting' = counting + 1 /\ fading' = fading
            \/ saving > 0 /\ saving' = saving - 1 /\ counting' = counting /\ fading' = fading + 1
            \/ counting > 0 /\ saving' = saving /\ counting' = counting - 1 /\ fading' = fading + 1
            \/ fading > 0 /\ saving' = saving /\ counting' = counting /\ fading' = fading - 1
        BY <2>10 DEF RunLights, LightsOut, FadeEnds
      <4> QED
        BY <4>1, <4>2
    <3>5. FlowWords'
      BY <2>a, <3>1, <3>2 DEF FlowWords, gridVars, pressVars
    <3>6. FlowSets'
      BY <2>a, <3>1 DEF FlowSets, gridVars
    <3>7. PressInv'
      <4>1. /\ saving \in Nat /\ counting \in Nat /\ fading \in Nat
            /\ Pressed <= MaxPress + 1 /\ MaxPress \in Nat
        BY <2>a DEF PressInv
      <4>2. /\ Pressed' <= MaxPress + 1
            /\ Pressed <= MaxPress => Pressed' <= MaxPress
        <5>1. Pressed' <= Pressed
          BY <3>4, <4>1 DEF Pressed
        <5>2. Pressed \in Int /\ Pressed' \in Int
          BY <3>4, <4>1 DEF Pressed
        <5> QED
          BY <4>1, <5>1, <5>2
      <4>3. /\ screen' \in {step', "none"} /\ choosing' \in 0 .. MaxPress
            /\ armed' = armed /\ bringing' = bringing /\ step' = step
        BY <2>a, <3>1, <3>3 DEF PressInv, pressVars
      <4>4. armed' => step' = "grid" /\ ~bringing'
        BY <2>a, <4>3, Zenon DEF PressInv
      <4>5. armed' \/ bringing' => Pressed <= MaxPress
        BY <2>a, <4>3, Zenon DEF PressInv
      <4> QED
        BY <3>4, <4>2, <4>3, <4>4, <4>5, Zenon DEF PressInv
    <3> QED
      BY <2>b, <3>5, <3>6, <3>7
  <2>11. CASE PitwallArrives \/ GridArrives \/ GridArrivesLate
    <3>1. UNCHANGED <<boot, mode, gate, plugged, pressVars, startVars, step, screen, armed>>
      BY <2>11 DEF PitwallArrives, GridArrives, GridArrivesLate, gridVars
    <3>2. arriving' \subseteq arriving
      BY <2>11 DEF PitwallArrives, GridArrives, GridArrivesLate
    <3>3. timers' \subseteq Polled
      BY <2>11, <2>a DEF PitwallArrives, GridArrives, GridArrivesLate, Polled, FlowSets
    <3>4. checks' = checks \/ checks' = [r \in Row |-> "pending"]
      BY <2>11 DEF PitwallArrives, GridArrives, GridArrivesLate, gridVars
    <3>5. enabled' \in BOOLEAN /\ tick' \in {"none", "ok", "fail"}
      BY <2>11, <2>a DEF PitwallArrives, GridArrives, GridArrivesLate, gridVars, TickBegins,
                         FlowWords
    <3>6. FlowWords'
      BY <2>a, <3>1, <3>5 DEF FlowWords, pressVars, startVars
    <3>7. FlowSets'
      BY <2>a, <3>2, <3>3, <3>4 DEF FlowSets, Mark
    <3>8. PressInv'
      BY <2>a, <3>1 DEF PressInv, Pressed, pressVars, startVars
    <3> QED
      BY <2>b, <3>6, <3>7, <3>8
  <2>12. CASE Plug \/ GridTick
    <3>1. UNCHANGED <<boot, mode, gate, checks, enabled, pressVars, startVars, stepVars>>
      BY <2>12 DEF Plug, GridTick
    <3>2. plugged' \in BOOLEAN /\ tick' \in {"none", "ok", "fail"}
      BY <2>12, <2>a DEF Plug, GridTick, TickBegins, FlowWords
    <3>3. FlowWords'
      BY <2>a, <3>1, <3>2 DEF FlowWords, pressVars, startVars, stepVars
    <3>4. FlowSets'
      BY <2>a, <3>1 DEF FlowSets, stepVars
    <3>5. PressInv'
      BY <2>a, <3>1 DEF PressInv, Pressed, pressVars, startVars, stepVars
    <3> QED
      BY <2>b, <3>3, <3>4, <3>5
  <2>13. CASE BootFails \/ BootRetry \/ ChooseMode
    <3>1. /\ boot' \in {"failed", "loading", boot} /\ mode' \in {"solo", "iphone-hud", mode}
          /\ UNCHANGED <<gate, gridVars, bringing, startVars, stepVars>>
      BY <2>13 DEF BootFails, BootRetry, ChooseMode, pressVars
    <3>2. choosing' \in 0 .. MaxPress
      BY <2>13, <2>a DEF BootFails, BootRetry, ChooseMode, pressVars, PressInv
    <3>3. FlowWords'
      BY <2>a, <3>1 DEF FlowWords, gridVars, startVars, stepVars
    <3>4. FlowSets'
      BY <2>a, <3>1 DEF FlowSets, gridVars, stepVars
    <3>5. PressInv'
      BY <2>a, <3>1, <3>2 DEF PressInv, Pressed, startVars, stepVars
    <3> QED
      BY <2>b, <3>3, <3>4, <3>5
  <2>14. CASE UNCHANGED flowVars
    <3>1. FlowWords'
      BY <2>a, <2>14 DEF FlowWords, flowVars, gridVars, pressVars, startVars, stepVars
    <3>2. FlowSets'
      BY <2>a, <2>14 DEF FlowSets, flowVars, gridVars, stepVars
    <3>3. PressInv'
      BY <2>a, <2>14 DEF PressInv, Pressed, flowVars, pressVars, startVars, stepVars
    <3> QED
      BY <2>b, <3>1, <3>2, <3>3
  <2> QED
    BY <2>2, <2>3, <2>4, <2>5, <2>6, <2>7, <2>8, <2>9, <2>10, <2>11, <2>12, <2>13, <2>14
       DEF FlowNext
<1>3. FlowInv => FlowTypeOK
  <2> SUFFICES ASSUME FlowInv PROVE FlowTypeOK
    OBVIOUS
  <2>1. screen \in Screen \cup {"none"}
    BY DEF FlowInv, FlowWords, PressInv
  <2>2. choosing \in 0 .. MaxPress /\ Pressed \in 0 .. MaxPress + 1
    BY DEF FlowInv, PressInv, Pressed
  <2> QED
    BY <2>1, <2>2 DEF FlowInv, FlowWords, FlowSets, FlowTypeOK
<1> QED
  BY <1>1, <1>2, <1>3, PTL DEF FlowSpec

LEMMA ListingsAreOfAdapters ==
    ASSUME NEW res \in Listing
    PROVE  res.ifaces \subseteq Adapter
<1>1. CASE res \in [ok : {TRUE}, ifaces : SUBSET Adapter]
  BY <1>1
<1>2. CASE res = [ok |-> FALSE, ifaces |-> {}]
  BY <1>2
<1> QED
  BY <1>1, <1>2 DEF Listing

\* Whatever the listing and the choice, the card has its type.
LEMMA CardsAreTyped ==
    ASSUME NEW res \in Listing, NEW choice \in Adapter \cup {NoAdapter}
    PROVE  CardsOf(res, choice) \subseteq
               [mode : {"guide", "failed", "missing", "single", "select"},
                selected : Adapter \cup {NoAdapter}]
<1>1. res.ifaces \subseteq Adapter
  BY ListingsAreOfAdapters
<1>2. ASSUME NEW c \in CardsOf(res, choice)
      PROVE  \/ \E m \in {"failed", "missing", "single", "select"} :
                   c = [mode |-> m, selected |-> NoAdapter]
             \/ \E a \in Adapter : c = [mode |-> "select", selected |-> a]
  <2>1. \/ c \in {[mode |-> "failed", selected |-> NoAdapter],
                  [mode |-> "missing", selected |-> NoAdapter],
                  [mode |-> "single", selected |-> NoAdapter]}
        \/ c = [mode |-> "select", selected |-> NoAdapter]
        \/ c = [mode |-> "select", selected |-> choice] /\ choice \in res.ifaces
        \/ c \in {[mode |-> "select", selected |-> a] : a \in res.ifaces}
    BY <1>2, Zenon DEF CardsOf
  <2> QED
    BY <1>1, <2>1
<1> QED
  BY <1>2

\* WallTypeOK: PIT WALL, its card and the plan keep their types.
THEOREM WallTypeCorrect == WallSpec => []WallTypeOK
<1> USE DEF WallTypeOK, Tab
<1>1. ASSUME WallInit PROVE WallTypeOK
  <2>1. listing \in Listing
    BY <1>1 DEF WallInit, Listing
  <2>2. card \in [mode : {"guide", "failed", "missing", "single", "select"},
                  selected : Adapter \cup {NoAdapter}]
    BY <1>1 DEF WallInit
  <2> QED
    BY <1>1, <2>1, <2>2 DEF WallInit
<1>2. WallTypeOK /\ [WallNext]_wallVars => WallTypeOK'
  <2> SUFFICES ASSUME WallTypeOK, [WallNext]_wallVars PROVE WallTypeOK'
    OBVIOUS
  <2>1. CASE EnterPitwall \/ LeavePitwall
    <3>1. entry' \subseteq {"caps", "listing", "hotspot"} \X {"current", "stale"}
      BY <2>1 DEF EnterPitwall, LeavePitwall, OutdatedEntry
    <3> QED
      BY <2>1, <3>1 DEF EnterPitwall, LeavePitwall, cardVars
  <2>2. CASE ShowNetTab
    BY <2>2 DEF ShowNetTab, cardVars
  <2>3. CASE CapsAnswer
    <3>1. GuideCard \in [mode : {"guide", "failed", "missing", "single", "select"},
                         selected : Adapter \cup {NoAdapter}]
      BY DEF GuideCard
    <3>2. entry' \subseteq {"caps", "listing", "hotspot"} \X {"current", "stale"}
      BY <2>3 DEF CapsAnswer
    <3> QED
      BY <2>3, <3>1, <3>2 DEF CapsAnswer
  <2>4. CASE ListingAnswers
    <3>1. listing' \in Listing
      BY <2>4 DEF ListingAnswers
    <3>2. card' \in CardsOf(listing', saved)
      BY <2>4 DEF ListingAnswers
    <3>3. entry' \subseteq {"caps", "listing", "hotspot"} \X {"current", "stale"}
      BY <2>4 DEF ListingAnswers
    <3>4. netKind' \in Tab /\ UNCHANGED <<here, caps, plan, saved, picking, hsStart>>
      BY <2>4 DEF ListingAnswers
    <3> QED
      BY <3>1, <3>2, <3>3, <3>4, CardsAreTyped
  <2>5. CASE EntryEnds
    BY <2>5 DEF EntryEnds, cardVars
  <2>6. CASE AdapterState
    <3>1. listing' \in Listing
      BY <2>6 DEF AdapterState
    <3>2. card' \in CardsOf(listing', saved) \/ card' = card
      BY <2>6 DEF AdapterState
    <3>3. UNCHANGED <<tabVars, plan, saved, picking, hsStart>>
      BY <2>6 DEF AdapterState
    <3> QED
      BY <3>1, <3>2, <3>3, CardsAreTyped DEF tabVars
  <2>7. CASE PickAdapter
    <3>1. PICK a \in listing.ifaces : picking' = a /\ card' \in CardsOf(listing, a)
      BY <2>7 DEF PickAdapter
    <3>2. a \in Adapter
      <4>1. listing \in Listing
        OBVIOUS
      <4> QED
        BY <3>1, <4>1, ListingsAreOfAdapters
    <3>3. UNCHANGED <<tabVars, plan, listing, saved, hsStart>>
      BY <2>7 DEF PickAdapter
    <3> QED
      BY <3>1, <3>2, <3>3, CardsAreTyped DEF tabVars
  <2>8. CASE PickIsSaved
    BY <2>8 DEF PickIsSaved, tabVars
  <2>9. CASE Joined \/ HotspotStart \/ HotspotStarted
    BY <2>9 DEF Joined, HotspotStart, HotspotStarted, tabVars, cardVars
  <2>10. CASE UNCHANGED wallVars
    BY <2>10 DEF wallVars, tabVars, cardVars
  <2> QED
    BY <2>1, <2>2, <2>3, <2>4, <2>5, <2>6, <2>7, <2>8, <2>9, <2>10 DEF WallNext
<1> QED
  BY <1>1, <1>2, PTL DEF WallSpec

\* NavTypeOK: the controller, what was seen of it and the page keep their types.
THEOREM NavTypeCorrect == NavSpec => []NavTypeOK
<1> USE DEF NavTypeOK
<1> DEFINE Did == [act : {"nothing", "toggle", "close", "click", "move"}, key : Key \cup {"none"}]
<1>1. Nothing \in Did
  BY DEF Nothing
<1>2. ASSUME NavInit PROVE NavTypeOK
  BY <1>1, <1>2 DEF NavInit
<1>3. NavTypeOK /\ [NavNext]_navVars => NavTypeOK'
  <2> SUFFICES ASSUME NavTypeOK, [NavNext]_navVars PROVE NavTypeOK'
    OBVIOUS
  <2>1. CASE PollOnce
    <3>1. did' \in Did
      <4>1. Follow => did' \in Did
        BY <1>1 DEF Follow, Act, Key
      <4> QED
        BY <1>1, <2>1, <4>1 DEF PollOnce
    <3>2. worn' \subseteq Key /\ prev' = pad /\ pad' = pad
      BY <2>1 DEF PollOnce
    <3>3. /\ suspended' \in BOOLEAN /\ menu' \in BOOLEAN /\ gateUp' \in BOOLEAN
          /\ countdown' \in BOOLEAN /\ typing' \in BOOLEAN /\ ring' \in BOOLEAN
      <4>1. ASSUME Follow
            PROVE  /\ suspended' \in BOOLEAN /\ menu' \in BOOLEAN /\ gateUp' \in BOOLEAN
                   /\ countdown' \in BOOLEAN /\ typing' \in BOOLEAN /\ ring' \in BOOLEAN
        BY <4>1 DEF Follow, Clicked, pageVars
      <4> QED
        BY <2>1, <4>1 DEF PollOnce, pageVars
    <3> QED
      BY <3>1, <3>2, <3>3
  <2>2. CASE Press
    <3>1. pad' \in (SUBSET Key) \cup {Gone} /\ worn' \subseteq Key
      BY <2>2 DEF Press
    <3> QED
      BY <1>1, <2>2, <3>1 DEF Press
  <2>3. CASE Swap
    BY <1>1, <2>3 DEF Swap
  <2>4. CASE PageMoves
    <3>1. /\ suspended' \in BOOLEAN /\ menu' \in BOOLEAN /\ gateUp' \in BOOLEAN
          /\ countdown' \in BOOLEAN /\ typing' \in BOOLEAN /\ ring' \in BOOLEAN
      BY <2>4 DEF PageMoves
    <3> QED
      BY <1>1, <2>4, <3>1 DEF PageMoves
  <2>5. CASE UNCHANGED navVars
    BY <2>5 DEF navVars
  <2> QED
    BY <2>1, <2>2, <2>3, <2>4, <2>5 DEF NavNext
<1> QED
  BY <1>2, <1>3, PTL DEF NavSpec

\* Every event of the picture gives a phase.
LEMMA ReduceIsAPhase ==
    ASSUME NEW p \in Phase,
           NEW event \in {"playing", "connecting", "waiting", "stalled", "dropped", "error",
                          "emptied", "ended", "stopped"}
    PROVE  Reduce(p, event) \in Phase
  BY DEF Reduce, Phase

\* VideoTypeOK: the style, the messages about it, the server and the player keep
\* their types.
THEOREM VideoTypeCorrect == VideoSpec => []VideoTypeOK
<1> DEFINE ServerOK == /\ served \in Style /\ installed \in BOOLEAN
                       /\ running \in Nat /\ retrying \in Nat
<1> USE StyleAssumption DEF VideoTypeOK
<1>1. ASSUME VideoInit PROVE VideoTypeOK
  <2>1. before \in [Switch -> Style \cup {NoStyle}]
    BY <1>1 DEF VideoInit
  <2>2. requests \in Seq(Request) /\ replies \in Seq(Reply)
    BY <1>1 DEF VideoInit
  <2>3. /\ stored \in Style /\ settings \in Style /\ served \in Style /\ player \in Style
        /\ installed \in BOOLEAN /\ running \in Nat /\ retrying \in Nat /\ peer = "trying" /\ again = FALSE
        /\ phase \in Phase
    BY <1>1 DEF VideoInit, Phase, Spawned
  <2> QED
    BY <2>1, <2>2, <2>3
<1>2. VideoTypeOK /\ [VideoNext]_videoVars => VideoTypeOK'
  <2> SUFFICES ASSUME VideoTypeOK, [VideoNext]_videoVars PROVE VideoTypeOK'
    OBVIOUS
  <2>1. ASSUME NEW style \in Style, Rekey(style)
        PROVE  ServerOK'
    BY <2>1 DEF Rekey, Spawned
  <2>2. ASSUME NEW c \in Switch, NEW style \in Style, SwitchStyle(c, style)
        PROVE  VideoTypeOK'
    <3> DEFINE r == [kind |-> "save", call |-> c, style |-> style]
    <3>1. r \in Request
      BY DEF Request
    <3>2. requests' = Append(requests, r) /\ before' = [before EXCEPT ![c] = settings]
          /\ UNCHANGED <<stored, settings, replies, serverVars, player, whepVars>>
      BY <2>2 DEF SwitchStyle
    <3> HIDE DEF r
    <3>3. requests' \in Seq(Request)
      BY <3>1, <3>2
    <3>4. before' \in [Switch -> Style \cup {NoStyle}]
      BY <3>2
    <3> QED
      BY <3>2, <3>3, <3>4 DEF serverVars, whepVars
  <2>3. CASE MainHandles
    <3> DEFINE r == Head(requests)
    <3>1. r \in Request
      BY <2>3 DEF MainHandles
    <3>2. PICK ok \in BOOLEAN :
             /\ replies' = Append(replies, [request |-> r, ok |-> ok])
             /\ stored' = IF ok /\ r.kind = "save" THEN r.style ELSE stored
             /\ IF ok /\ r.kind = "apply" THEN Rekey(stored) ELSE UNCHANGED serverVars
      BY <2>3 DEF MainHandles
    <3>3. requests' = Tail(requests) /\ requests # <<>>
          /\ UNCHANGED <<settings, before, player, whepVars>>
      BY <2>3 DEF MainHandles
    <3> HIDE DEF r
    <3>4. requests' \in Seq(Request)
      BY <3>3
    <3>5. [request |-> r, ok |-> ok] \in Reply
      BY <3>1 DEF Reply
    <3>6. replies' \in Seq(Reply)
      BY <3>2, <3>5
    <3>7. stored' \in Style
      BY <3>1, <3>2 DEF Request
    <3>8. ServerOK'
      BY <2>1, <3>2 DEF serverVars
    <3> QED
      BY <3>3, <3>4, <3>6, <3>7, <3>8 DEF whepVars
  <2>4. CASE SaveAnswers \/ ApplyAnswers
    <3> DEFINE r == Head(replies).request
    <3>1. replies # <<>> /\ replies' = Tail(replies)
      BY <2>4 DEF SaveAnswers, ApplyAnswers
    <3>2. Head(replies) \in Reply
      BY <3>1
    <3>3. r \in Request /\ r.call \in Switch /\ r.style \in Style
      BY <3>2 DEF Reply, Request
    <3>4. replies' \in Seq(Reply)
      BY <3>1
    <3>5. CASE SaveAnswers
      <4>1. settings' = IF Head(replies).ok THEN r.style ELSE settings
        BY <3>5 DEF SaveAnswers
      <4>2. \/ before' = [before EXCEPT ![r.call] = NoStyle] /\ UNCHANGED requests
            \/ requests' = Append(requests, [r EXCEPT !.kind = "apply", !.style = settings'])
               /\ UNCHANGED before
        BY <3>5 DEF SaveAnswers, Returns
      <4>3. UNCHANGED <<stored, serverVars, player, whepVars>>
        BY <3>5 DEF SaveAnswers
      <4> HIDE DEF r
      <4>4. settings' \in Style
        BY <3>3, <4>1
      <4>5. [r EXCEPT !.kind = "apply", !.style = settings'] \in Request
        BY <3>3, <4>4 DEF Request
      <4>6. requests' \in Seq(Request)
        <5>1. requests \in Seq(Request)
          OBVIOUS
        <5>2. ASSUME NEW q \in Request PROVE Append(requests, q) \in Seq(Request)
          BY <5>1
        <5> QED
          BY <4>2, <4>5, <5>1, <5>2, Zenon
      <4>7. before' \in [Switch -> Style \cup {NoStyle}]
        BY <3>3, <4>2
      <4> QED
        BY <3>4, <4>3, <4>4, <4>6, <4>7 DEF serverVars, whepVars
    <3>6. CASE ApplyAnswers
      <4>1. before' = [before EXCEPT ![r.call] = NoStyle] /\ ApplyVideoProfile(r.style)
            /\ UNCHANGED <<stored, settings, requests, serverVars>>
        BY <3>6 DEF ApplyAnswers, Returns
      <4> HIDE DEF r
      <4>2. before' \in [Switch -> Style \cup {NoStyle}]
        BY <3>3, <4>1
      <4>3. player' \in Style /\ peer' \in {"none", "trying", "up"} /\ again' \in BOOLEAN
        BY <3>3, <4>1 DEF ApplyVideoProfile, whepVars
      <4>4. phase' \in Phase
        <5>1. Reduce(Reduce(phase, "stopped"), "connecting") \in Phase
          BY ReduceIsAPhase
        <5> QED
          BY <4>1, <5>1 DEF ApplyVideoProfile, whepVars
      <4> QED
        BY <3>4, <4>1, <4>2, <4>3, <4>4 DEF serverVars
    <3> QED
      BY <2>4, <3>5, <3>6
  <2>5. CASE ServerExits \/ ServerRestarts
    <3>1. running' \in Nat /\ retrying' \in Nat
      BY <2>5 DEF ServerExits, ServerRestarts
    <3>2. UNCHANGED <<switchVars, served, installed, player, whepVars>>
      BY <2>5 DEF ServerExits, ServerRestarts
    <3> QED
      BY <3>1, <3>2 DEF switchVars, whepVars
  <2>6. CASE ApplyElsewhere
    <3>1. ServerOK'
      BY <2>1, <2>6 DEF ApplyElsewhere
    <3>2. UNCHANGED <<switchVars, player, whepVars>>
      BY <2>6 DEF ApplyElsewhere
    <3> QED
      BY <3>1, <3>2 DEF switchVars, whepVars
  <2>7. CASE PeerConnects \/ PeerFails \/ PeerRetries \/ MediaEvent
    <3>1. phase' \in Phase
      BY <2>7, ReduceIsAPhase DEF PeerConnects, PeerFails, PeerRetries, MediaEvent
    <3>2. peer' \in {"none", "trying", "up"} /\ again' \in BOOLEAN
      BY <2>7 DEF PeerConnects, PeerFails, PeerRetries, MediaEvent
    <3>3. UNCHANGED <<switchVars, serverVars, player>>
      BY <2>7 DEF PeerConnects, PeerFails, PeerRetries, MediaEvent
    <3> QED
      BY <3>1, <3>2, <3>3 DEF switchVars, serverVars
  <2>8. CASE UNCHANGED videoVars
    BY <2>8 DEF videoVars, switchVars, serverVars, whepVars
  <2> QED
    BY <2>2, <2>3, <2>4, <2>5, <2>6, <2>7, <2>8 DEF VideoNext
<1> QED
  BY <1>1, <1>2, PTL DEF VideoSpec

-----------------------------------------------------------------------------
\* MirrorTypeOK: the authority, what is under way and what is drawn keep their types.
THEOREM MirrorTypeCorrect == MirrorSpec => []MirrorTypeOK
<1> USE DEF MirrorTypeOK
<1>1. MirrorInit => MirrorTypeOK
  BY NoSnapIsASnapshot DEF MirrorInit
<1>2. MirrorTypeOK /\ [MirrorNext]_mirrorVars => MirrorTypeOK'
  <2> SUFFICES ASSUME MirrorTypeOK, [MirrorNext]_mirrorVars PROVE MirrorTypeOK'
    OBVIOUS
  <2>1. ASSUME NEW probe \in {"idle", "probing", "done", "failed"}, Emit(probe)
        PROVE  now' \in Snapshot /\ pushed' \subseteq Snapshot \ {NoSnap}
    <3>1. now' \in Snapshot /\ now' # NoSnap
      <4>1. now.seq \in 0 .. MaxSeq
        BY DEF Snapshot
      <4>2. now.seq + 1 \in 0 .. MaxSeq /\ now.seq + 1 # 0
        BY <2>1, <4>1, MirrorsAssumption DEF Emit
      <4>3. now' = [seq |-> now.seq + 1, probe |-> probe]
        BY <2>1 DEF Emit
      <4>4. now'.seq = now.seq + 1
        BY <4>3
      <4> QED
        BY <4>2, <4>3, <4>4, NoSnapIsASnapshot DEF Snapshot
    <3> QED
      BY <2>1, <3>1 DEF Emit
  <2>2. ASSUME NEW refresh, NEW calls \in SUBSET Kick, AskProbe(refresh, calls)
        PROVE  now' \in Snapshot /\ pushed' \subseteq Snapshot \ {NoSnap} /\ kicks' \subseteq Kick
    <3>1. now.probe \in {"idle", "probing", "done", "failed"}
      BY DEF Snapshot
    <3> QED
      BY <2>1, <2>2, <3>1 DEF AskProbe, Kick, Visit
  <2>3. ASSUME NEW snap \in Snapshot, Hold(snap) PROVE held' \in Snapshot
    BY <2>3 DEF Hold
  <2>4. OutdatedVisit(pulls) \subseteq Pull /\ OutdatedKicks \subseteq Kick
    BY DEF OutdatedVisit, OutdatedKicks, Pull, Kick, Visit
  <2>5. CASE Change
    <3>1. now.probe \in {"idle", "probing", "done", "failed"}
      BY DEF Snapshot
    <3> QED
      BY <2>1, <2>5, <3>1 DEF Change
  <2>6. CASE ProbeEnds
    <3>1. kicks' \subseteq Kick
      BY <2>6 DEF ProbeEnds, Kick
    <3>2. now' \in Snapshot /\ pushed' \subseteq Snapshot \ {NoSnap}
      BY <2>1, <2>6 DEF ProbeEnds
    <3>3. UNCHANGED <<mirror, pulls, onScreen, held, drawn, refused>>
      BY <2>6 DEF ProbeEnds
    <3> QED
      BY <3>1, <3>2, <3>3
  <2>7. CASE PushArrives
    BY <2>3, <2>7 DEF PushArrives
  <2>8. CASE EnterStep
    <3>1. [visit |-> "current", asked |-> TRUE, snap |-> NoSnap] \in Pull
      BY NoSnapIsASnapshot DEF Pull, Visit
    <3> QED
      BY <2>4, <2>8, <3>1 DEF EnterStep
  <2>9. CASE LeaveStep
    BY <2>4, <2>9 DEF LeaveStep
  <2>10. CASE PullIsServed
    <3>1. PICK p \in pulls, snap \in {now, NoSnap} :
             pulls' = (pulls \ {p}) \cup {[p EXCEPT !.asked = FALSE, !.snap = snap]}
      BY <2>10 DEF PullIsServed
    <3>2. snap \in Snapshot /\ p \in Pull
      BY NoSnapIsASnapshot
    <3>3. [p EXCEPT !.asked = FALSE, !.snap = snap] \in Pull
      BY <3>2 DEF Pull
    <3> QED
      BY <2>10, <3>1, <3>3 DEF PullIsServed
  <2>11. CASE HotspotPullReturns \/ RaceDayPullReturns
    <3>1. PICK p \in pulls :
             /\ Returned(p)
             /\ drawn' \in {held', drawn, p.snap}
             /\ AskProbe(FALSE, kicks) \/ UNCHANGED <<now, pushed, kicks>>
      BY <2>11 DEF HotspotPullReturns, RaceDayPullReturns
    <3>2. p.snap \in Snapshot
      BY DEF Pull
    <3>3. held' \in Snapshot
      BY <2>3, <3>1, <3>2 DEF Returned
    <3>4. now' \in Snapshot /\ pushed' \subseteq Snapshot \ {NoSnap} /\ kicks' \subseteq Kick
      BY <2>2, <3>1
    <3>5. pulls' \subseteq Pull /\ refused' \in BOOLEAN /\ UNCHANGED <<mirror, onScreen>>
      BY <3>1 DEF Returned
    <3> QED
      BY <3>1, <3>2, <3>3, <3>4, <3>5
  <2>12. CASE Recheck
    BY <2>2, <2>12 DEF Recheck
  <2>13. CASE KickReturns
    <3>1. kicks' \subseteq kicks
          /\ UNCHANGED <<mirror, now, pushed, pulls, onScreen, refused>>
      BY <2>13 DEF KickReturns
    <3>2. \/ held' = [held EXCEPT !.probe = "failed"] /\ drawn' = held'
          \/ UNCHANGED <<held, drawn>>
      BY <2>13 DEF KickReturns
    <3>3. [held EXCEPT !.probe = "failed"] \in Snapshot
      BY DEF Snapshot
    <3> QED
      BY <3>1, <3>2, <3>3
  <2>14. CASE UNCHANGED mirrorVars
    BY <2>14 DEF mirrorVars, viewVars
  <2> QED
    BY <2>5, <2>6, <2>7, <2>8, <2>9, <2>10, <2>11, <2>12, <2>13, <2>14 DEF MirrorNext
<1> QED
  BY <1>1, <1>2, PTL DEF MirrorSpec

-----------------------------------------------------------------------------
\* The first of some slots is one of them.
LEMMA FirstSlotExists ==
    ASSUME NEW S \in SUBSET Nat, S # {}
    PROVE  Min(S) \in S
<1> DEFINE less == OpToRel(<, Nat)
<1>1. \E x \in S : \A y \in S : <<y, x>> \notin less
  BY NatLessThanWellFounded, WFMin
<1>2. PICK x \in S : \A y \in S : ~(y < x)
  BY <1>1 DEF OpToRel
<1>3. \A y \in S : x <= y
  BY <1>2
<1> QED
  BY <1>3 DEF Min

\* Whatever is connected and picked, the device that is followed is one of the
\* slots, or none.
LEMMA WheelIsASlot ==
    ASSUME SeatTypeOK, NEW t, NEW key1 \in Slot \cup {AutoKey}, NEW key2 \in Slot \cup {AutoKey}
    PROVE  WheelPad(t, key1, key2) \in Slot \cup {Nobody}
<1>1. Present \subseteq Slot /\ Slot \subseteq Nat
  BY SlotAssumption DEF Present
<1>2. \A S \in SUBSET Present : S # {} => Min(S) \in Slot
  BY <1>1, FirstSlotExists
<1>3. \A key \in Slot \cup {AutoKey} : Resolve(key) \in Slot \cup {Nobody}
  BY <1>1, <1>2 DEF Resolve
<1> QED
  BY <1>2, <1>3 DEF WheelPad

\* What only SEAT FIT itself changes, beside what it listens for.
ListenOK == /\ listening \in Role \cup {"none"}
            /\ listenPrev \in Posture \cup {"none"}
            /\ clock \in BOOLEAN

\* SeatTypeOK: the devices, the picks, the listen and what the HUD is handed keep
\* their types: a device is followed only if it has a slot.
THEOREM SeatTypeCorrect == SeatSpec => []SeatTypeOK
<1> USE SlotAssumption DEF SeatTypeOK
<1>1. ASSUME SeatInit PROVE SeatTypeOK
  <2>1. posture \in [Slot -> Posture]
    BY <1>1 DEF SeatInit, Posture
  <2>2. source \in [type : Type, wheel : Slot \cup {Nobody}]
    BY <1>1 DEF SeatInit, Type
  <2> QED
    BY <1>1, <2>1, <2>2 DEF SeatInit, Type
<1>2. SeatTypeOK /\ [SeatNext]_seatVars => SeatTypeOK'
  <2> SUFFICES ASSUME SeatTypeOK, [SeatNext]_seatVars PROVE SeatTypeOK'
    OBVIOUS
  <2>1. ASSUME CancelListen PROVE ListenOK'
    BY <2>1 DEF CancelListen, ListenOK
  <2>2. ASSUME UNCHANGED listenVars PROVE ListenOK'
    BY <2>2 DEF listenVars, ListenOK
  <2>3. ASSUME NEW pad1, NEW key, Tick(pad1, key) PROVE ListenOK'
    BY <2>1, <2>2, <2>3 DEF Tick
  <2>4. ASSUME NEW d \in Slot, Move(d) PROVE SeatTypeOK'
    <3>1. posture' \in [Slot -> Posture]
      BY <2>4 DEF Move
    <3>2. UNCHANGED <<atSeatfit, type, padKey, wheelKey, pedals, listenVars, source>>
      BY <2>4 DEF Move
    <3> QED
      BY <3>1, <3>2 DEF listenVars
  <2>5. ASSUME NEW d \in Slot, PickPad(d) \/ PickWheel(d) PROVE SeatTypeOK'
    <3>1. padKey' \in Slot \cup {AutoKey} /\ wheelKey' \in Slot \cup {AutoKey}
      BY <2>5 DEF PickPad, PickWheel
    <3>2. UNCHANGED <<posture, atSeatfit, type, pedals, source>>
      BY <2>5 DEF PickPad, PickWheel
    <3>3. ListenOK'
      BY <2>3, <2>5 DEF PickPad, PickWheel
    <3> QED
      BY <3>1, <3>2, <3>3 DEF ListenOK
  <2>6. CASE EnterSeatfit \/ LeaveSeatfit
    <3>1. /\ atSeatfit' \in BOOLEAN /\ pedals' \in {"separate", "combined"}
          /\ padKey' \in Slot \cup {AutoKey} /\ wheelKey' \in Slot \cup {AutoKey}
          /\ UNCHANGED <<posture, type, source>>
      BY <2>6 DEF EnterSeatfit, LeaveSeatfit
    <3>2. ListenOK'
      BY <2>1, <2>6 DEF EnterSeatfit, LeaveSeatfit
    <3> QED
      BY <3>1, <3>2 DEF ListenOK
  <2>7. ASSUME NEW t \in Type, ApplyInputType(t) PROVE SeatTypeOK'
    <3>1. type' \in Type /\ wheelKey' = AutoKey
          /\ UNCHANGED <<posture, atSeatfit, padKey, pedals, source>>
      BY <2>7 DEF ApplyInputType
    <3>2. ListenOK'
      BY <2>1, <2>7 DEF ApplyInputType
    <3> QED
      BY <3>1, <3>2 DEF ListenOK
  <2>8. ASSUME NEW role \in Role, StartListen(role) PROVE SeatTypeOK'
    <3>1. listenPrev' = PostureOf(WheelPad(type, padKey, wheelKey))
          /\ listening' = role /\ clock' = TRUE
          /\ UNCHANGED <<posture, atSeatfit, type, padKey, wheelKey, pedals, source>>
      BY <2>8 DEF StartListen
    <3>2. PostureOf(WheelPad(type, padKey, wheelKey)) \in Posture
      BY WheelIsASlot DEF PostureOf, Posture
    <3> QED
      BY <3>1, <3>2
  <2>9. ASSUME NEW choice \in {"separate", "combined"}, SetPedalMode(choice)
        PROVE  SeatTypeOK'
    <3>1. pedals' = choice
          /\ UNCHANGED <<posture, atSeatfit, type, padKey, wheelKey, source>>
      BY <2>9 DEF SetPedalMode
    <3>2. ListenOK'
      BY <2>1, <2>9 DEF SetPedalMode
    <3> QED
      BY <3>1, <3>2 DEF ListenOK
  <2>10. CASE ListenTimesOut \/ SeatfitTick
    <3>1. UNCHANGED <<posture, atSeatfit, type, padKey, wheelKey, pedals, source>>
      BY <2>10 DEF ListenTimesOut, SeatfitTick
    <3>2. ListenOK'
      BY <2>1, <2>3, <2>10 DEF ListenTimesOut, SeatfitTick
    <3> QED
      BY <3>1, <3>2 DEF ListenOK
  <2>11. CASE ApplyInputSource
    <3>1. source' \in [type : Type, wheel : Slot \cup {Nobody}]
      BY <2>11, WheelIsASlot DEF ApplyInputSource
    <3>2. UNCHANGED <<posture, atSeatfit, type, padKey, wheelKey, pedals, listenVars>>
      BY <2>11 DEF ApplyInputSource
    <3> QED
      BY <3>1, <3>2 DEF listenVars
  <2>12. CASE UNCHANGED seatVars
    BY <2>12 DEF seatVars, listenVars
  <2> QED
    BY <2>4, <2>5, <2>6, <2>7, <2>8, <2>9, <2>10, <2>11, <2>12 DEF SeatNext
<1> QED
  BY <1>1, <1>2, PTL DEF SeatSpec
-----------------------------------------------------------------------------
\* In the composition every part behaves as it does alone, so that whatever is
\* proved of the parts holds of what CockpitSpec's run explores.
THEOREM CockpitKeepsItsParts ==
    CockpitSpec => /\ FlowSpec /\ WallSpec /\ JoinSpec /\ SeatSpec
                   /\ NavSpec /\ VideoSpec /\ MirrorSpec
<1> DEFINE all == <<part, flowVars, wallVars, joinVars, seatVars, navVars, videoVars, mirrorVars>>
<1>1. CockpitInit => /\ FlowInit /\ WallInit /\ JoinInit /\ SeatInit
                     /\ NavInit /\ VideoInit /\ MirrorInit
  BY DEF CockpitInit
<1>2. [CockpitNext]_all => /\ [FlowNext]_flowVars /\ [WallNext]_wallVars
                           /\ [JoinNext]_joinVars /\ [SeatNext]_seatVars
                           /\ [NavNext]_navVars /\ [VideoNext]_videoVars
                           /\ [MirrorNext]_mirrorVars
  BY DEF CockpitNext, FlowPart, WallPart, JoinPart, SeatPart, NavPart, VideoPart, MirrorPart
<1> QED
  BY <1>1, <1>2, PTL
     DEF CockpitSpec, FlowSpec, WallSpec, JoinSpec, SeatSpec, NavSpec, VideoSpec, MirrorSpec

\* CockpitTypeOK: every variable of the seven parts keeps its type.
THEOREM CockpitTypeCorrect == CockpitSpec => []CockpitTypeOK
BY CockpitKeepsItsParts, FlowTypeCorrect, WallTypeCorrect, JoinTypeCorrect, SeatTypeCorrect,
   NavTypeCorrect, VideoTypeCorrect, MirrorTypeCorrect, PTL DEF CockpitTypeOK
=============================================================================
