------------------------------ MODULE Session -------------------------------
(***************************************************************************)
(* The telemetry of a session: the source that session:apply starts        *)
(* (src/main/sessionRuntime.js), the serial source and its port            *)
(* (CrsfSerialSource.js), what the HUD shows of the readings (hud.js,      *)
(* shared/linkState.mjs, shared/lowBattery.mjs) and what the bridge sends  *)
(* on to the phone (IphoneTelemetryBridge.js).                             *)
(*                                                                         *)
(* Of a reading two things are kept: whether it is the car's or the        *)
(* replay's, and the battery, in the five classes the banner tells apart   *)
(* (0 is none).  The answer of session:apply and the readings reach the    *)
(* page over one ordered channel, so no reading of the new source comes    *)
(* before the answer.                                                      *)
(***************************************************************************)
EXTENDS Naturals

VARIABLES
    wanted,     \* the settings: [source, bridge]
    src,        \* the source in force
    native,     \* the serialport module loads on this computer
    port,       \* the serial port of the source: "none", "opening" or "open"
    reopen,     \* its reopen timer is set
    stray,      \* a port that a stopped source left opening, or open
    merged,     \* the battery in what the source has merged
    bridge,     \* the bridge: "none", or what its packets are tagged with
    latest,     \* whose reading the bridge holds: "none", "car" or "demo"
    telem,      \* whose reading the HUD holds, with its battery
    recent,     \* it is less than a second old
    chip,       \* the REPLAY chip
    level       \* the low-battery banner

serialVars == <<port, reopen, stray>>
hudVars == <<telem, recent, chip, level>>
sessionVars == <<wanted, src, native, serialVars, merged, bridge, latest, hudVars>>

Source == {"none", "replay", "crsf-serial", "mapper-grpc"}
Battery == 1 .. 5   \* critical, just above, low, just above, good
Origin(s) == IF s = "replay" THEN "demo" ELSE "car"

SessionTypeOK ==
    /\ wanted \in [source : Source, bridge : BOOLEAN]
    /\ src \in Source
    /\ port \in {"none", "opening", "open"}
    /\ stray \in {"none", "opening", "open"}
    /\ native \in BOOLEAN /\ reopen \in BOOLEAN /\ recent \in BOOLEAN
    /\ chip \in BOOLEAN
    /\ merged \in Battery \cup {0}
    /\ bridge \in {"none", "car", "demo"} /\ latest \in {"none", "car", "demo"}
    /\ telem \in [from : {"none", "car", "demo"}, battery : Battery \cup {0}]
    /\ level \in {"ok", "warn", "critical"}

SessionInit ==
    /\ wanted \in [source : Source, bridge : BOOLEAN]
    /\ src = "none"
    /\ native \in BOOLEAN
    /\ port = "none"
    /\ reopen = FALSE
    /\ stray = "none"
    /\ merged = 0
    /\ bridge = "none"
    /\ latest = "none"
    /\ telem = [from |-> "none", battery |-> 0]
    /\ recent = FALSE
    /\ chip = FALSE
    /\ level = "ok"
-----------------------------------------------------------------------------
\* linkState, but for `link-lost', which a reading says of itself.
HudState == IF telem.from = "none" THEN "sim" ELSE IF recent THEN "live" ELSE "telemetry-lost"

\* A level is left at a battery above its threshold by the hysteresis, and
\* critical for warn first.
LowBatteryLevel(b, prev) ==
    IF b = 1 \/ (b = 2 /\ prev = "critical") THEN "critical"
    ELSE IF b \in {2, 3} \/ (b = 4 /\ prev # "ok") \/ prev = "critical" THEN "warn"
    ELSE "ok"

\* A source that is stopped while its port is still opening leaves the port.
SwapSource(s) ==
    /\ src' = s
    /\ merged' = 0
    /\ reopen' = FALSE
    /\ port' = IF s = "crsf-serial" /\ native THEN "opening" ELSE "none"
    /\ stray' = IF port = "opening" THEN "opening" ELSE stray

\* The key of the bridge is its address alone.
Rekeyed_ByAddress(s, on) == IF ~on THEN "none" ELSE IF bridge # "none" THEN bridge ELSE Origin(s)

\* The key of the bridge holds whether the source is the replay.
Rekeyed(s, on) == IF on THEN Origin(s) ELSE "none"

ApplyConfig ==
    /\ IF wanted.source = src THEN UNCHANGED <<src, merged, serialVars>>
                              ELSE SwapSource(wanted.source)
    /\ bridge' = Rekeyed(wanted.source, wanted.bridge)
    /\ latest' = IF bridge' = bridge THEN latest ELSE "none"
    /\ UNCHANGED <<wanted, native, telem, recent, level>>

\* The settings menu or the GRID applies, and the page shows the answer.
ApplySession ==
    /\ ApplyConfig
    /\ chip' = (wanted.source = "replay")

\* Race day applies, or the visit of the GRID is over, or the call is rejected
\* after the runtime has taken the settings.
ApplyUnheard ==
    /\ ApplyConfig
    /\ UNCHANGED chip

ChangeSettings ==
    /\ wanted' \in [source : Source, bridge : BOOLEAN]
    /\ UNCHANGED <<src, native, serialVars, merged, bridge, latest, hudVars>>
-----------------------------------------------------------------------------
ScheduleReopen == reopen' = TRUE

\* The path can be opened once: a port that was left behind holds it.
PortOpens ==
    /\ port = "opening" /\ stray # "open"
    /\ port' = "open"
    /\ UNCHANGED <<wanted, src, native, reopen, stray, merged, bridge, latest, hudVars>>

StrayOpens ==
    /\ stray = "opening"
    /\ stray' \in IF port = "open" THEN {"none"} ELSE {"none", "open"}
    /\ UNCHANGED <<wanted, src, native, port, reopen, merged, bridge, latest, hudVars>>

\* 'error' while it opens.
PortFails_GivesUp ==
    /\ port = "opening"
    /\ port' = "none"
    /\ UNCHANGED <<wanted, src, native, reopen, stray, merged, bridge, latest, hudVars>>

PortFails ==
    /\ port = "opening"
    /\ port' = "none"
    /\ ScheduleReopen
    /\ UNCHANGED <<wanted, src, native, stray, merged, bridge, latest, hudVars>>

\* 'close': the dongle was pulled.
PortCloses ==
    /\ port = "open"
    /\ port' = "none"
    /\ ScheduleReopen
    /\ UNCHANGED <<wanted, src, native, stray, merged, bridge, latest, hudVars>>

Reopen ==
    /\ reopen
    /\ reopen' = FALSE
    /\ port' = "opening"
    /\ UNCHANGED <<wanted, src, native, stray, merged, bridge, latest, hudVars>>

\* A reading, with a battery or without: pushed to the HUD and handed to the bridge.
Reads(b) ==
    /\ src # "none"
    /\ src = "crsf-serial" => port = "open"
    /\ src = "replay" => b # 0
    /\ merged' = IF b = 0 THEN merged ELSE b
    /\ telem' = [from |-> Origin(src), battery |-> merged']
    /\ recent' = TRUE
    /\ latest' = IF bridge = "none" THEN "none" ELSE Origin(src)
    /\ UNCHANGED <<wanted, src, native, serialVars, bridge, chip, level>>

\* The replay speaks every 50 ms: it is another source that falls silent.
SecondPasses ==
    /\ recent /\ src # "replay"
    /\ recent' = FALSE
    /\ UNCHANGED <<wanted, src, native, serialVars, merged, bridge, latest, telem, chip, level>>

\* A frame is drawn.
Render ==
    /\ level' = IF telem.battery = 0 THEN "ok" ELSE LowBatteryLevel(telem.battery, level)
    /\ UNCHANGED <<wanted, src, native, serialVars, merged, bridge, latest, telem, recent, chip>>

SessionNext ==
    \/ ChangeSettings \/ ApplySession \/ ApplyUnheard
    \/ PortOpens \/ StrayOpens \/ PortFails \/ PortCloses \/ Reopen
    \/ \E b \in Battery \cup {0} : Reads(b)
    \/ SecondPasses \/ Render

SessionSpec == SessionInit /\ [][SessionNext]_sessionVars
-----------------------------------------------------------------------------
\* What the bridge sends of the replay is tagged as a demo, and nothing else is,
\* through every change of the source and of the bridge.  (sessionRuntime.js:85-96)
DemoIsLabelled == latest # "none" => latest = bridge

\* A serial source that has lost its port will try again.
\* (CrsfSerialSource.js:47-53, 72-76)
SerialIsRetried == src = "crsf-serial" /\ native => port # "none" \/ reopen
=============================================================================
