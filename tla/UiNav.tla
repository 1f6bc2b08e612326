------------------------------- MODULE UiNav --------------------------------
(***************************************************************************)
(* Moving through the page with the controller: src/renderer/uiNav.js as   *)
(* setupFlow.js configures it.  pollOnce is called once a frame; what a    *)
(* press does depends on what the page is doing at that frame.             *)
(*                                                                         *)
(* The four D-pad directions are one key, and so are the two axes of the   *)
(* stick; which way the focus moves is left out.                           *)
(***************************************************************************)
EXTENDS Naturals

VARIABLES
    pad,        \* the keys down on the controller, or "gone"
    prev,       \* prevSnap: the keys of the last snapshot, or "unseeded"
    worn,       \* the keys that were down, and not let go of since, when a poll
                \* took them for itself or left them to the listen
    suspended,  \* a row of the wheel panel waits for an input
    menu,       \* the settings menu is open
    gateUp,     \* the gate covers the HUD
    countdown,  \* the start lights run
    typing,     \* a text field has the focus
    ring,       \* a control carries the focus ring
    did         \* what the last poll did, and for which key

navVars == <<pad, prev, worn, suspended, menu, gateUp, countdown, typing, ring, did>>
pageVars == <<suspended, gateUp, countdown, typing>>

Key == {"settings", "back", "confirm", "dpad", "stick"}
Gone == {"gone"}    \* no snapshot: sets of keys have no "gone" key
Nothing == [act |-> "nothing", key |-> "none"]

NavTypeOK ==
    /\ pad \in (SUBSET Key) \cup {Gone} /\ prev \in (SUBSET Key) \cup {Gone}
    /\ worn \subseteq Key
    /\ suspended \in BOOLEAN /\ menu \in BOOLEAN /\ gateUp \in BOOLEAN
    /\ countdown \in BOOLEAN /\ typing \in BOOLEAN /\ ring \in BOOLEAN
    /\ did \in [act : {"nothing", "toggle", "close", "click", "move"},
                key : Key \cup {"none"}]

NavInit ==
    /\ pad \in (SUBSET Key) \cup {Gone}
    /\ prev = Gone
    /\ worn = {}
    /\ suspended = FALSE
    /\ menu = FALSE
    /\ gateUp = TRUE
    /\ countdown = FALSE
    /\ typing = FALSE
    /\ ring = FALSE
    /\ did = Nothing
-----------------------------------------------------------------------------
\* Only the settings key is live while the lights run, and over a ride with the
\* menu closed.
SettingsOnly == countdown \/ (~gateUp /\ ~menu)

\* The presses since the last snapshot; none before there is one.
Edges == IF prev = Gone THEN {} ELSE pad \ prev

Act(act, key) == did' = [act |-> act, key |-> key]

\* A click may be on any control of the page: it may start or end a listen, open
\* or close the menu, start the lights, put the cursor in a text field.
Clicked == /\ menu' \in BOOLEAN
           /\ suspended' \in IF gateUp /\ ~menu THEN BOOLEAN ELSE {FALSE}
           /\ countdown' \in IF gateUp /\ ~menu THEN BOOLEAN ELSE {FALSE}
           /\ typing' \in BOOLEAN
           /\ UNCHANGED gateUp

\* The intents in their order; one at most is followed.
Follow ==
    LET new == Edges
    IN  IF suspended THEN did' = Nothing /\ UNCHANGED <<menu, ring, pageVars>>
        ELSE IF "settings" \in new
        THEN /\ Act("toggle", "settings")
             /\ menu' = IF countdown THEN menu ELSE ~menu
             /\ ring' = FALSE
             /\ UNCHANGED pageVars
        ELSE IF SettingsOnly THEN did' = Nothing /\ UNCHANGED <<menu, ring, pageVars>>
        ELSE IF "back" \in new
        THEN /\ Act("close", "back")
             /\ menu' = FALSE
             /\ ring' = FALSE
             /\ UNCHANGED pageVars
        ELSE IF "confirm" \in new
        THEN \/ Act("click", "confirm") /\ ring' = TRUE /\ Clicked
             \/ ~ring /\ Act("move", "confirm") /\ ring' = TRUE
                /\ UNCHANGED <<menu, pageVars>>
        ELSE IF "dpad" \in new \/ ("stick" \in new /\ ~typing)
        THEN /\ Act("move", IF "dpad" \in new THEN "dpad" ELSE "stick")
             /\ ring' = TRUE
             /\ typing' \in BOOLEAN
             /\ UNCHANGED <<menu, suspended, gateUp, countdown>>
        ELSE did' = Nothing /\ UNCHANGED <<menu, ring, pageVars>>

\* The snapshot is taken only by a poll that is not suspended.
PollOnce_SkipsWhileListening ==
    /\ prev' = IF suspended THEN prev ELSE pad
    /\ IF pad = Gone
       THEN did' = Nothing /\ worn' = {} /\ UNCHANGED <<menu, ring, pageVars>>
       ELSE worn' = pad /\ Follow
    /\ UNCHANGED pad

PollOnce ==
    /\ prev' = pad
    /\ IF pad = Gone
       THEN did' = Nothing /\ worn' = {} /\ UNCHANGED <<menu, ring, pageVars>>
       ELSE worn' = pad /\ Follow
    /\ UNCHANGED pad
-----------------------------------------------------------------------------
\* The hand on the controller, or its plug; a key let go of is fresh again.  What
\* a hand does at once is several of these steps with no poll between.
Press ==
    /\ IF pad = Gone THEN pad' \in SUBSET Key
       ELSE pad' \in {pad \cup {k} : k \in Key} \cup {pad \ {k} : k \in Key} \cup {Gone}
    /\ worn' = IF pad' = Gone THEN {} ELSE worn \cap pad'
    /\ did' = Nothing
    /\ UNCHANGED <<prev, suspended, menu, gateUp, countdown, typing, ring>>

\* The controller that was followed is unplugged, or another one is picked, and
\* the next is followed with no frame between: what is held on it is a press.
Swap ==
    /\ Gone \notin {pad, prev}
    /\ pad' \in SUBSET Key
    /\ worn' = {}
    /\ did' = Nothing
    /\ UNCHANGED <<prev, suspended, menu, gateUp, countdown, typing, ring>>

\* What the page does by itself or under the mouse: a listen begins, ends or
\* times out, the lights start and end in the ride, the gate comes back.
PageMoves ==
    /\ \/ gateUp /\ ~countdown /\ suspended' = ~suspended /\ UNCHANGED <<menu, gateUp, countdown>>
       \/ ~countdown /\ menu' = ~menu /\ UNCHANGED <<suspended, gateUp, countdown>>
       \/ gateUp /\ ~suspended /\ countdown' = TRUE /\ UNCHANGED <<suspended, menu, gateUp>>
       \/ countdown /\ countdown' = FALSE /\ gateUp' = FALSE /\ UNCHANGED <<suspended, menu>>
       \/ menu /\ ~gateUp /\ menu' = FALSE /\ gateUp' = TRUE /\ UNCHANGED <<suspended, countdown>>
    /\ typing' \in BOOLEAN
    /\ ring' \in {ring, FALSE}
    /\ did' = Nothing
    /\ UNCHANGED <<pad, prev, worn>>

NavNext == PollOnce \/ Press \/ Swap \/ PageMoves

NavSpec == NavInit /\ [][NavNext]_navVars
-----------------------------------------------------------------------------
\* A press acts once: a key held since the controller appeared, since a listen
\* took it, or since it last acted does nothing more until it is let go.  That
\* the controller stays the same is asked for.  (uiNav.js:225-245)
APressActsOnce == [][did'.key \notin worn]_navVars

=============================================================================
