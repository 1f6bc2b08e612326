--------------------------- MODULE AdapterMonitor ---------------------------
(***************************************************************************)
(* The live adapter monitor, src/main/adapterMonitor.js, and the           *)
(* coordinator (src/main/appWiring.js) that reconciles a live hotspot with *)
(* what the monitor reports.                                               *)
(*                                                                         *)
(* A poll is three steps: the monitor asks, netsh looks at the machine,    *)
(* and the answer is compared with the last one.  Adapters come and go,    *)
(* and the hotspot starts and stops, between any two of them.  Which       *)
(* network an adapter has joined is left out: a snapshot that differs in   *)
(* that alone removes nothing, and the coordinator ignores it.             *)
(***************************************************************************)
CONSTANT Adapter

VARIABLES
    wlan,       \* the adapters that are plugged in
    poll,       \* the poll in flight: "idle", "asked" or "answered"
    listing,    \* what netsh answered last: the adapters, or that it failed
    last,       \* the monitor's last snapshot; its listeners were told of it
    hotspot,    \* the lifecycle's phase: one of Phases
    marked,     \* the lifecycle's interruption mark
    requested   \* the coordinator asked for a new readiness check

monitorVars == <<wlan, poll, listing, last, hotspot, marked, requested>>

Listing == [ok : {"yes", "no"}, ifaces : SUBSET Adapter]
Failed == [ok |-> "no", ifaces |-> {}]
Phases == {"down", "starting", "live", "stopping"}

MonitorTypeOK ==
    /\ wlan \subseteq Adapter
    /\ poll \in {"idle", "asked", "answered"}
    /\ listing \in Listing
    /\ last \in [ok : {"never", "yes", "no"}, ifaces : SUBSET Adapter, removed : SUBSET Adapter]
    /\ hotspot \in Phases
    /\ marked \in BOOLEAN /\ requested \in BOOLEAN

MonitorInit ==
    /\ wlan \in SUBSET Adapter
    /\ poll = "idle"
    /\ listing = Failed
    /\ last = [ok |-> "never", ifaces |-> {}, removed |-> {}]
    /\ hotspot = "down"
    /\ marked = FALSE
    /\ requested = FALSE

-----------------------------------------------------------------------------
\* poll() from the timer or from RESCAN: never two at a time.
BeginPoll ==
    /\ poll = "idle"
    /\ poll' = "asked"
    /\ UNCHANGED <<wlan, listing, last, hotspot, marked, requested>>

\* netsh lists what is plugged in, or fails.
Netsh ==
    /\ poll = "asked"
    /\ poll' = "answered"
    /\ listing' \in {Failed, [ok |-> "yes", ifaces |-> wlan]}
    /\ UNCHANGED <<wlan, last, hotspot, marked, requested>>

\* signatureOf(): every failure has the same one, its reason left out.
SameSignature == last.ok = listing.ok /\ last.ifaces = listing.ifaces

\* The coordinator, told of a snapshot.
Coordinate_Cautious(snap) ==
    IF snap.ok = "yes" /\ snap.removed # {} /\ hotspot = "live"
    THEN requested' = TRUE /\ UNCHANGED marked
    ELSE UNCHANGED <<marked, requested>>
Coordinate(snap) ==
    IF snap.ok = "yes" /\ snap.removed # {} /\ hotspot = "live"
    THEN IF snap.ifaces = {}
         THEN marked' = TRUE /\ UNCHANGED requested
         ELSE requested' = TRUE /\ UNCHANGED marked
    ELSE UNCHANGED <<marked, requested>>

EndPoll_StopsOnFailure ==
    /\ poll = "answered" /\ listing.ok = "yes"
    /\ poll' = "idle"
    /\ LET snap == [ok |-> "yes", ifaces |-> listing.ifaces,
                    removed |-> last.ifaces \ listing.ifaces]
       IN last' = snap /\ Coordinate(snap)
    /\ UNCHANGED <<wlan, listing, hotspot>>

\* The answer is compared with the last snapshot, and listeners are told of a
\* difference; polling goes on after a failure, which leaves no adapters for
\* the next answer to be compared with.
EndPoll ==
    /\ poll = "answered"
    /\ poll' = "idle"
    /\ IF SameSignature
       THEN UNCHANGED <<last, marked, requested>>
       ELSE LET snap == [ok |-> listing.ok, ifaces |-> listing.ifaces,
                         removed |-> last.ifaces \ listing.ifaces]
            IN last' = snap /\ Coordinate(snap)
    /\ UNCHANGED <<wlan, listing, hotspot>>

-----------------------------------------------------------------------------
\* The machine: an adapter is plugged in or pulled.
Plug(a) ==
    /\ a \notin wlan
    /\ wlan' = wlan \cup {a}
    /\ UNCHANGED <<poll, listing, last, hotspot, marked, requested>>

Pull(a) ==
    /\ a \in wlan
    /\ wlan' = wlan \ {a}
    /\ UNCHANGED <<poll, listing, last, hotspot, marked, requested>>

\* The hotspot's lifecycle, whose commands may take longer than a poll.  A
\* start forgets the last session's mark.
HotspotStarts ==
    /\ hotspot = "down"
    /\ hotspot' = "starting"
    /\ marked' = FALSE
    /\ requested' = FALSE
    /\ UNCHANGED <<wlan, poll, listing, last>>

HotspotStops ==
    /\ hotspot = "live"
    /\ hotspot' = "stopping"
    /\ UNCHANGED <<wlan, poll, listing, last, marked, requested>>

\* A start that succeeded, or failed with our hotspot on; or a stop that failed:
\* the hotspot is live, with the mark it had.
HotspotIsLive ==
    /\ hotspot \in {"starting", "stopping"}
    /\ hotspot' = "live"
    /\ UNCHANGED <<wlan, poll, listing, last, marked, requested>>

\* A stop that succeeded, or a start that failed: the mark goes with the session.
HotspotIsDown ==
    /\ hotspot \in {"starting", "stopping"}
    /\ hotspot' = "down"
    /\ marked' = FALSE
    /\ requested' = FALSE
    /\ UNCHANGED <<wlan, poll, listing, last>>

HotspotMoves == HotspotStarts \/ HotspotStops \/ HotspotIsLive \/ HotspotIsDown

MonitorNext ==
    \/ BeginPoll \/ Netsh \/ EndPoll
    \/ \E a \in Adapter : Plug(a) \/ Pull(a)
    \/ HotspotMoves

MonitorSpec == MonitorInit /\ [][MonitorNext]_monitorVars

\* The interval timer fires, and netsh answers or is timed out (runCommand).
TimerFair == WF_monitorVars(BeginPoll)
NetshFair == WF_monitorVars(Netsh)
AnswerFair == WF_monitorVars(EndPoll)

MonitorFairness == TimerFair /\ NetshFair /\ AnswerFair

MonitorFairSpec == MonitorSpec /\ MonitorFairness
-----------------------------------------------------------------------------
\* The monitor never stops looking: whatever netsh answered and whatever the
\* hotspot does, the next stage of a poll can come, and brings it on.
\* (adapterMonitor.js:59-103)
PollsGoOn ==
    /\ poll = "idle" => ENABLED <<BeginPoll>>_monitorVars
    /\ poll = "asked" => ENABLED <<Netsh>>_monitorVars
    /\ poll = "answered" => ENABLED <<EndPoll>>_monitorVars

LooksAlive == hotspot = "live" /\ wlan = {} /\ ~marked

\* An adapter of the monitor's last listing that goes, the last one plugged in,
\* does not leave the hotspot looking live, unless a listing fails.  A loss that
\* is listed while the hotspot starts or stops is dropped, and the monitor will
\* not tell of it again: the property asks nothing of a hotspot that is live
\* with no adapter in the last listing, after a stop that failed for one.
\* (adapterMonitor.js:74-86, appWiring.js:382-404)
LossIsMarked ==
    LooksAlive /\ last.ifaces # {} ~> ~LooksAlive \/ last.ok = "no"
=============================================================================
