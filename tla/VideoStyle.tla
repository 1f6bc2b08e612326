---------------------------- MODULE VideoStyle ------------------------------
(***************************************************************************)
(* The two styles of the video and everything a switch between them moves: *)
(* the pill's routine in src/renderer/setupFlow.js, the persisted setting, *)
(* the keyed mediamtx supervisor of the main process (appWiring.js,        *)
(* mediamtx.js), the WHEP player (hud.js, whep.js) and the one model of    *)
(* what the picture is doing (shared/videoState.mjs).                      *)
(*                                                                         *)
(* The renderer asks the main process by messages that are handled and     *)
(* answered in their order.  The first load of the settings succeeded.     *)
(***************************************************************************)
EXTENDS Sequences, Naturals, FiniteSets

CONSTANTS
    Switch,     \* calls of videoProfileChanged that may be under way at once
    NoStyle

Style == {"drive", "showpiece"}
Phase == {"idle", "connecting", "live", "buffering", "stalled", "error"}

ASSUME StyleAssumption == NoStyle \notin Style

VARIABLES
    stored,     \* settings.json: video.profile
    settings,   \* the renderer's copy of it
    before,     \* for each call under way, the style it found; else NoStyle
    requests,   \* what the renderer has asked and the main process not handled
    replies,    \* what the main process has answered and the renderer not read
    served,     \* the key of the mediamtx holder
    installed,  \* the last start() found the mediamtx binary
    running,    \* mediamtx children that were not killed
    retrying,   \* restart timers of supervisors, 2 s
    player,     \* hud.js: videoProfileId
    peer,       \* whep.js: "none", "trying" or "up"
    again,      \* whep.js: retryTimer is set
    phase       \* videoState.phase

switchVars == <<stored, settings, before, requests, replies>>
serverVars == <<served, installed, running, retrying>>
whepVars == <<peer, again, phase>>
videoVars == <<switchVars, serverVars, player, whepVars>>

Request == [kind : {"save", "apply"}, call : Switch, style : Style]
Reply == [request : Request, ok : BOOLEAN]

VideoTypeOK ==
    /\ stored \in Style /\ settings \in Style /\ served \in Style /\ player \in Style
    /\ before \in [Switch -> Style \cup {NoStyle}]
    /\ requests \in Seq(Request)
    /\ replies \in Seq(Reply)
    /\ installed \in BOOLEAN /\ running \in Nat /\ retrying \in Nat
    /\ peer \in {"none", "trying", "up"}
    /\ again \in BOOLEAN
    /\ phase \in Phase

\* start(): without the binary there is no child, and no retry either.
Spawned(found) == IF found THEN 1 ELSE 0

VideoInit ==
    /\ stored \in Style
    /\ settings = stored
    /\ before = [c \in Switch |-> NoStyle]
    /\ requests = <<>>
    /\ replies = <<>>
    /\ served = stored
    /\ installed \in BOOLEAN
    /\ running = Spawned(installed)
    /\ retrying = 0
    /\ player = stored
    /\ peer = "trying"
    /\ again = FALSE
    /\ phase = "connecting"
-----------------------------------------------------------------------------
\* One event of the <video> element or of the WHEP client.
Reduce(p, event) ==
    CASE event = "playing" -> "live"
      [] event = "connecting" -> IF p = "live" THEN "live" ELSE "connecting"
      [] event = "waiting" -> IF p \in {"stalled", "error", "idle"} THEN p ELSE "buffering"
      [] event \in {"stalled", "dropped"} -> IF p = "idle" THEN "idle" ELSE "stalled"
      [] event = "error" -> "error"
      [] event \in {"emptied", "ended", "stopped"} -> "idle"

\* createKeyedInstance.apply with MediamtxSupervisor.stop and start: nothing
\* for the same style, else the old child is killed, its timer cleared, and the
\* new one spawned, if its binary is there.
Rekey_KeepsTheTimer(style) ==
    /\ served' = style
    /\ IF style = served THEN UNCHANGED <<installed, running>>
                         ELSE installed' \in BOOLEAN /\ running' = Spawned(installed')
    /\ UNCHANGED retrying
Rekey(style) ==
    /\ served' = style
    /\ IF style = served THEN UNCHANGED <<installed, running, retrying>>
       ELSE installed' \in BOOLEAN /\ running' = Spawned(installed') /\ retrying' = 0

\* A child ends, or could not be started: the supervisor that holds it retries.
ServerExits ==
    /\ running > 0
    /\ running' = running - 1
    /\ retrying' = retrying + 1
    /\ UNCHANGED <<switchVars, served, installed, player, whepVars>>

ServerRestarts ==
    /\ retrying > 0
    /\ retrying' = retrying - 1
    /\ running' = running + 1
    /\ UNCHANGED <<switchVars, served, installed, player, whepVars>>

\* session:apply from anywhere else: the GRID, the menu, race day.
ApplyElsewhere ==
    /\ Rekey(stored)
    /\ UNCHANGED <<switchVars, player, whepVars>>
-----------------------------------------------------------------------------
\* videoProfileChanged up to its save.
SwitchStyle(c, style) ==
    /\ before[c] = NoStyle
    /\ before' = [before EXCEPT ![c] = settings]
    /\ requests' = Append(requests, [kind |-> "save", call |-> c, style |-> style])
    /\ UNCHANGED <<stored, settings, replies, serverVars, player, whepVars>>

\* The main process handles one request, or throws at it.
MainHandles ==
    /\ requests # <<>>
    /\ requests' = Tail(requests)
    /\ \E ok \in BOOLEAN :
          LET r == Head(requests) IN
          /\ replies' = Append(replies, [request |-> r, ok |-> ok])
          /\ stored' = IF ok /\ r.kind = "save" THEN r.style ELSE stored
          /\ IF ok /\ r.kind = "apply" THEN Rekey(stored) ELSE UNCHANGED serverVars
    /\ UNCHANGED <<settings, before, player, whepVars>>

Returns(c) == before' = [before EXCEPT ![c] = NoStyle]

\* applyVideoProfile: the player is stopped and connects anew, unless it has
\* the style already.
ApplyVideoProfile(style) ==
    /\ player' = style
    /\ IF style = player THEN UNCHANGED whepVars
       ELSE /\ peer' = "trying"
            /\ again' = FALSE
            /\ phase' = Reduce(Reduce(phase, "stopped"), "connecting")

\* The save is answered: what is in force now against what the call had found.
SaveAnswers ==
    /\ replies # <<>>
    /\ replies' = Tail(replies)
    /\ LET r == Head(replies).request IN
       /\ r.kind = "save"
       /\ settings' = IF Head(replies).ok THEN r.style ELSE settings
       /\ IF settings' = before[r.call]
          THEN Returns(r.call) /\ UNCHANGED requests
          ELSE /\ requests' = Append(requests, [r EXCEPT !.kind = "apply", !.style = settings'])
               /\ UNCHANGED before
    /\ UNCHANGED <<stored, serverVars, player, whepVars>>

\* The apply is answered: the player follows the style that this call saved,
\* also when the apply failed.
ApplyAnswers ==
    /\ replies # <<>>
    /\ replies' = Tail(replies)
    /\ LET r == Head(replies).request IN
       /\ r.kind = "apply"
       /\ Returns(r.call)
       /\ ApplyVideoProfile(r.style)
    /\ UNCHANGED <<stored, settings, requests, serverVars>>
-----------------------------------------------------------------------------
PeerConnects ==
    /\ peer = "trying"
    /\ peer' = "up"
    /\ UNCHANGED <<switchVars, serverVars, player, again, phase>>

\* The attempt throws, or the connection that was up fails: scheduleRetry.
PeerFails ==
    /\ peer # "none"
    /\ phase' = IF peer = "up" THEN Reduce(phase, "dropped") ELSE phase
    /\ peer' = "none"
    /\ again' = TRUE
    /\ UNCHANGED <<switchVars, serverVars, player>>

PeerRetries ==
    /\ again
    /\ again' = FALSE
    /\ peer' = "trying"
    /\ phase' = Reduce(phase, "connecting")
    /\ UNCHANGED <<switchVars, serverVars, player>>

\* The element plays only what a connection brings; the rest it may say any time.
MediaEvent ==
    /\ \E event \in {"playing", "waiting", "stalled", "emptied", "ended", "error"} :
          /\ event = "playing" => peer = "up"
          /\ phase' = Reduce(phase, event)
    /\ UNCHANGED <<switchVars, serverVars, player, peer, again>>

VideoNext ==
    \/ \E c \in Switch, style \in Style : SwitchStyle(c, style)
    \/ MainHandles \/ SaveAnswers \/ ApplyAnswers
    \/ ServerExits \/ ServerRestarts \/ ApplyElsewhere
    \/ PeerConnects \/ PeerFails \/ PeerRetries \/ MediaEvent

VideoSpec == VideoInit /\ [][VideoNext]_videoVars
-----------------------------------------------------------------------------
\* Never two media servers that fight for the same ports, and one that is up or
\* about to be where there is a binary to start: what was stopped stays stopped,
\* through exits, retries and switches.  (mediamtx.js:35-43, 73-75)
OneMediaServer == running + retrying = Spawned(installed)

\* The one confident-green state is never shown over a picture that no
\* connection feeds: not after a drop, and not through a switch, where the
\* event `connecting' alone would leave it standing.  (videoState.mjs:46-50)
LiveIsConnected == phase = "live" => peer = "up"
-----------------------------------------------------------------------------
\* What a comment of the code says and the code does not keep: the player
\* follows the persisted style.  (setupFlow.js:496-502)
PlayerFollowsTheStore == (\A c \in Switch : before[c] = NoStyle) => player = stored
=============================================================================
