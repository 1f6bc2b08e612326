-------------------------- MODULE WindowLifecycle ---------------------------
(***************************************************************************)
(* The window around the quit policy: src/main/appWiring.js (the window    *)
(* lifecycle, the dialog presenter) as src/main/main.js wires it.          *)
(*                                                                         *)
(* The app starts up asynchronously (main.js awaits two modules before it  *)
(* has anything to show), may be launched a second time, and is closed by  *)
(* a titlebar X that Electron would answer by destroying the window before *)
(* it asks whether to quit.  Everything else happens in QuitPolicy, whose  *)
(* steps the window only follows.                                          *)
(***************************************************************************)
EXTENDS QuitPolicy

VARIABLES
    booted,     \* main.js's whenReady handler has come to its end
    windows,    \* the open windows: those with the page, and those without
    quitting    \* the lifecycle's flag of that name

windowOnlyVars == <<booted, windows, quitting>>
windowVars == <<quitPolicyVars, windowOnlyVars>>

WindowTypeOK ==
    /\ QuitTypeOK
    /\ booted \in BOOLEAN
    /\ windows \subseteq {"page", "blank"}
    /\ quitting \in BOOLEAN

WindowInit ==
    /\ QuitInit
    /\ booted = FALSE
    /\ windows = {}
    /\ quitting = FALSE

\* onDecision(), at the step that ends a decision: a quit closes the windows,
\* and a stay without any window makes one.
OnDecision ==
    /\ quitting' = (quitting \/ gone')
    /\ windows' = IF gone' THEN {}
                  ELSE IF decision # "none" /\ decision' = "none" /\ windows = {}
                       THEN {"page"} ELSE windows

\* The end of the start: the session is applied and the window made.
Boot ==
    /\ ~gone /\ ~booted
    /\ booted' = TRUE
    /\ windows' = windows \cup {"page"}
    /\ UNCHANGED <<quitPolicyVars, quitting>>

\* A second launch hands over to this one: it brings the window forward, or
\* makes one.  Before the end of the start createWindow() throws at the runtime
\* that is not there yet, and leaves the window it made without its page.
SecondLaunch ==
    /\ Served
    /\ windows = {}
    /\ windows' = IF booted THEN {"page"} ELSE {"blank"}
    /\ UNCHANGED <<quitPolicyVars, booted, quitting>>

\* onWindowClose(): the titlebar X becomes a request to quit, absorbed while
\* one is being decided, and the window stays.
CloseWindow_Destroys ==
    /\ Reachable
    /\ "page" \in windows
    /\ IF windows = {"page"} /\ decision = "none"
       THEN RequestQuit ELSE UNCHANGED quitPolicyVars
    /\ windows' = IF gone' THEN {} ELSE windows \ {"page"}
    /\ quitting' = (quitting \/ gone')
    /\ UNCHANGED booted
CloseWindow ==
    /\ Reachable
    /\ "page" \in windows
    /\ RequestQuit
    /\ OnDecision
    /\ UNCHANGED booted

\* A window without the page has no close handler: it is destroyed, and the
\* last one to go asks to quit.
CloseBlank ==
    /\ Reachable
    /\ "blank" \in windows
    /\ IF windows = {"blank"} /\ decision = "none"
       THEN RequestQuit ELSE UNCHANGED quitPolicyVars
    /\ windows' = IF gone' THEN {} ELSE windows \ {"blank"}
    /\ quitting' = (quitting \/ gone')
    /\ UNCHANGED booted

\* Everything else the quit policy sees.  There is nothing to press, to own or
\* to stop before the page is shown.
Decides == booted /\ (PolicyNext \/ AnswerNext) /\ OnDecision /\ UNCHANGED booted
WorldGoesOn == booted /\ WorldNext /\ UNCHANGED windowOnlyVars

WindowNext ==
    \/ Boot
    \/ SecondLaunch
    \/ CloseWindow
    \/ CloseBlank
    \/ Decides
    \/ WorldGoesOn

WindowSpec == WindowInit /\ [][WindowNext]_windowVars

\* The modules load; promises continue, and the hotspot's transitions end.
BootFair == WF_windowVars(Boot)
PolicyFair == WF_windowVars(Decides /\ PolicyNext)
SettleFair == WF_windowVars(WorldGoesOn /\ HotspotSettles)

WindowFairness == BootFair /\ PolicyFair /\ SettleFair

WindowFairSpec == WindowSpec /\ WindowFairness
-----------------------------------------------------------------------------
\* Nobody is left with an app that has no window: none while it waits for an
\* answer, so that the question is modal to it, and none after a decision to
\* stay.  (appWiring.js:449-461, 483-493, 525-531)
NoWindowlessApp == booted /\ ~gone => windows # {}

\* A quit that is being decided is never stuck between two questions: what it
\* waits for can happen, and once it has, the decision has a way on, whoever
\* owns the hotspot and whichever windows are open.  (quitPolicy.js:79-167)
PolicyCanMove == ENABLED <<Decides /\ PolicyNext>>_windowVars
HotspotCanSettle == ENABLED <<WorldGoesOn /\ HotspotSettles>>_windowVars

DecisionCanMove ==
    /\ Continues \/ decision = "stop" => PolicyCanMove
    /\ decision \in Waits /\ ~Settled => HotspotCanSettle
=============================================================================
