------------------------------ MODULE PitWall -------------------------------
(***************************************************************************)
(* PIT WALL, the network step of the setup flow (setupFlow.js), with the   *)
(* ADAPTER card (shared/wifiView.mjs) and the saved network plan, which    *)
(* RACE DAY reads to decide whether to bring up the hotspot.               *)
(*                                                                         *)
(* Entering the step awaits the capabilities, the adapter listing and the  *)
(* hotspot's state; the operator may leave at each of them.                *)
(***************************************************************************)
EXTENDS Naturals, FiniteSets

CONSTANTS
    Adapter,    \* WLAN adapters
    NoAdapter      \* no adapter

ASSUME WallAssumption == NoAdapter \notin Adapter

VARIABLES
    here,       \* PIT WALL is the step
    entry,      \* enterPitwall calls: the await, and whether the visit lasts
    caps,       \* caps: "none", "scan" or "guide"
    netKind,    \* the tab that is shown
    plan,       \* settings.network.kind
    listing,    \* adapterRes: the adapters, or that the listing failed
    card,       \* the ADAPTER card: its mode and the picker's value
    saved,      \* settings.network.adapter
    picking,    \* the adapter whose save is awaited
    hsStart     \* a hotspot start is awaited

tabVars == <<here, entry, caps, netKind>>
cardVars == <<listing, card, saved, picking>>
wallVars == <<tabVars, plan, cardVars, hsStart>>

Tab == {"join", "hotspot", "guide"}
Listing == [ok : {TRUE}, ifaces : SUBSET Adapter] \cup {[ok |-> FALSE, ifaces |-> {}]}

WallTypeOK ==
    /\ here \in BOOLEAN /\ hsStart \in BOOLEAN
    /\ entry \subseteq {"caps", "listing", "hotspot"} \X {"current", "stale"}
    /\ caps \in {"none", "scan", "guide"}
    /\ netKind \in Tab
    /\ plan \in Tab
    /\ listing \in Listing
    /\ card \in [mode : {"guide", "failed", "missing", "single", "select"},
                 selected : Adapter \cup {NoAdapter}]
    /\ saved \in Adapter \cup {NoAdapter} /\ picking \in Adapter \cup {NoAdapter}

WallInit ==
    /\ here = FALSE
    /\ entry = {}
    /\ caps = "none"
    /\ netKind = "join"
    /\ plan \in Tab
    /\ listing = [ok |-> TRUE, ifaces |-> {}]
    /\ card = [mode |-> "missing", selected |-> NoAdapter]
    /\ saved \in Adapter \cup {NoAdapter}
    /\ picking = NoAdapter
    /\ hsStart = FALSE
-----------------------------------------------------------------------------
\* adapterRowState: what the card becomes of a listing and the saved adapter.
\* A saved adapter that is gone is never replaced: nothing is selected.
CardsOf(res, choice) ==
    IF ~res.ok THEN {[mode |-> "failed", selected |-> NoAdapter]}
    ELSE IF res.ifaces = {} THEN {[mode |-> "missing", selected |-> NoAdapter]}
    ELSE IF choice # NoAdapter /\ choice \notin res.ifaces
         THEN {[mode |-> "select", selected |-> NoAdapter]}
    ELSE IF Cardinality(res.ifaces) = 1 THEN {[mode |-> "single", selected |-> NoAdapter]}
    ELSE IF choice # NoAdapter THEN {[mode |-> "select", selected |-> choice]}
    ELSE {[mode |-> "select", selected |-> a] : a \in res.ifaces}   \* the first one listed

GuideCard == [mode |-> "guide", selected |-> NoAdapter]

\* adapterUnresolved: the picker demands a decision.
Unresolved == card.mode = "select" /\ card.selected = NoAdapter

-----------------------------------------------------------------------------
OutdatedEntry == {<<e[1], "stale">> : e \in entry}

EnterPitwall ==
    /\ ~here
    /\ here' = TRUE
    /\ entry' = OutdatedEntry \cup {<<"caps", "current">>}
    /\ UNCHANGED <<caps, netKind, plan, cardVars, hsStart>>

\* leavePitwall saves the tab that is shown as the network plan, or fails to.  The
\* main process handles messages in their order, so the save is answered before
\* anything that a later visit asks, and nothing reads the plan in between.
LeavePitwall ==
    /\ here
    /\ here' = FALSE
    /\ entry' = OutdatedEntry
    /\ plan' \in {plan, netKind}
    /\ UNCHANGED <<caps, netKind, cardVars, hsStart>>

ShowNetTab ==
    /\ here
    /\ caps = "scan"
    /\ netKind' \in Tab
    /\ UNCHANGED <<here, entry, caps, plan, cardVars, hsStart>>

CapsAnswer ==
    /\ <<"caps", "current">> \in entry
    /\ \/ /\ caps' = "guide"            \* not Windows, or the check was rejected
          /\ card' = GuideCard
          /\ netKind' = "guide"
          /\ entry' = entry \ {<<"caps", "current">>}
       \/ /\ caps' = "scan"
          /\ entry' = (entry \ {<<"caps", "current">>}) \cup {<<"listing", "current">>}
          /\ UNCHANGED <<card, netKind>>
    /\ UNCHANGED <<here, plan, listing, saved, picking, hsStart>>

\* An answer to an earlier visit sets the tab too.
ListingAnswers_OfAnyVisit == \E f \in {"current", "stale"} :
    /\ <<"listing", f>> \in entry
    /\ listing' \in Listing
    /\ card' \in CardsOf(listing', saved)
    /\ netKind' = (IF plan = "hotspot" THEN "hotspot" ELSE "join")
    /\ entry' = (entry \ {<<"listing", f>>}) \cup {<<"hotspot", f>>}
    /\ UNCHANGED <<here, caps, plan, saved, picking, hsStart>>

\* The listing and the card take every answer, the tab only that of this visit.
ListingAnswers == \E f \in {"current", "stale"} :
    /\ <<"listing", f>> \in entry
    /\ listing' \in Listing
    /\ card' \in CardsOf(listing', saved)
    /\ IF f = "current"
       THEN /\ netKind' = (IF plan = "hotspot" THEN "hotspot" ELSE "join")
            /\ entry' = (entry \ {<<"listing", f>>}) \cup {<<"hotspot", f>>}
       ELSE /\ entry' = entry \ {<<"listing", f>>}
            /\ UNCHANGED netKind
    /\ UNCHANGED <<here, caps, plan, saved, picking, hsStart>>

\* The hotspot's state (then the address poll), or a stale answer to any await.
EntryEnds ==
    /\ \E e \in entry : /\ e[1] = "hotspot" \/ e = <<"caps", "stale">>
                        /\ entry' = entry \ {e}
    /\ UNCHANGED <<here, caps, netKind, plan, cardVars, hsStart>>

\* A push of the adapter monitor, or RESCAN.
AdapterState ==
    /\ caps = "scan"
    /\ listing' \in Listing
    /\ IF here THEN card' \in CardsOf(listing', saved) ELSE UNCHANGED card
    /\ UNCHANGED <<tabVars, plan, saved, picking, hsStart>>

PickAdapter ==
    /\ here
    /\ card.mode = "select"
    /\ picking = NoAdapter
    /\ \E a \in listing.ifaces : /\ picking' = a
                                 /\ card' \in CardsOf(listing, a)
    /\ UNCHANGED <<tabVars, plan, listing, saved, hsStart>>

\* The save of a pick has answered, or failed.
PickIsSaved ==
    /\ picking # NoAdapter
    /\ saved' \in {saved, picking}
    /\ picking' = NoAdapter
    /\ UNCHANGED <<tabVars, plan, listing, card, hsStart>>
-----------------------------------------------------------------------------
\* A join has succeeded (WifiJoin): the plan is saved.
Joined ==
    /\ caps = "scan"
    /\ plan' \in {plan, "join"}
    /\ UNCHANGED <<tabVars, cardVars, hsStart>>

HotspotStart ==
    /\ here /\ caps = "scan" /\ netKind = "hotspot"
    /\ ~hsStart
    /\ hsStart' = TRUE
    /\ UNCHANGED <<tabVars, plan, cardVars>>

HotspotStarted ==
    /\ hsStart
    /\ hsStart' = FALSE
    /\ plan' \in {plan, "hotspot"}
    /\ UNCHANGED <<tabVars, cardVars>>

WallNext ==
    \/ EnterPitwall \/ LeavePitwall \/ ShowNetTab
    \/ CapsAnswer \/ ListingAnswers \/ EntryEnds
    \/ AdapterState \/ PickAdapter \/ PickIsSaved
    \/ Joined \/ HotspotStart \/ HotspotStarted

WallSpec == WallInit /\ [][WallNext]_wallVars
-----------------------------------------------------------------------------
\* The tab, which becomes the saved plan, stays where the operator put it: once
\* the visit has shown it, no answer that comes late, to this visit or to an
\* earlier one, moves it.  (setupFlow.js:587-590)
TabStaysWhereItWasPut ==
    [][here /\ entry \cap ({"caps", "listing"} \X {"current"}) = {} /\ netKind' # netKind
           => entry' = entry]_wallVars
=============================================================================
