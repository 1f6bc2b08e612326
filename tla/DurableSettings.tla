--------------------------- MODULE DurableSettings ---------------------------
(***************************************************************************)
(* What the settings store promises the rest of the app (settingsStore.js: *)
(* the temporary file and its rename, lines 261-266): the settings are one *)
(* value, each request is applied to it at one instant, entirely or not at *)
(* all, and a load shows that value -- in this life of the app or in the   *)
(* next, which may begin in front of any request or in the middle of it.   *)
(*                                                                         *)
(* The promise is kept until the file is spoilt from outside; what happens *)
(* then is the recovery's (SettingsStore!BackupAnswers).  It says nothing  *)
(* of files, backups, migrations or the password: SettingsStore is shown   *)
(* to implement it.                                                        *)
(***************************************************************************)

CONSTANTS
    Config, Default, TelemetrySource,   \* the settings
    Change, Unchanged,                  \* what a request may change: a field, and its value
    None

Settings == [config : Config \cup {Default}, source : TelemetrySource]
Request == [method : {"load", "save", "patch"}, change : Change]
NoRequest == [method |-> "none", change |-> Unchanged]

VARIABLES
    saved,      \* the settings as the next load will show them
    request,    \* the request under way
    shown,      \* what the last load or save of this life of the app gave back
    spoilt      \* the file was spoilt

durableVars == <<saved, request, shown, spoilt>>

\* A change names a field of the settings, or something that is not part of them.
Applied(settings, change) ==
    IF change[1] \in DOMAIN settings THEN [settings EXCEPT ![change[1]] = change[2]]
                                     ELSE settings

DurableInit ==
    /\ saved \in Settings
    /\ request = NoRequest
    /\ shown = None
    /\ spoilt = FALSE

Ask ==
    /\ request = NoRequest
    /\ request' \in Request
    /\ UNCHANGED <<saved, shown, spoilt>>

ShowSaved ==
    /\ request.method = "load"
    /\ request' = NoRequest
    /\ shown' = saved
    /\ UNCHANGED <<saved, spoilt>>

ApplySave ==
    /\ request.method = "save"
    /\ request' = NoRequest
    /\ saved' = Applied(saved, request.change)
    /\ shown' = saved'
    /\ UNCHANGED spoilt

ApplyPatch ==
    /\ request.method = "patch"
    /\ request' = NoRequest
    /\ saved' = Applied(saved, request.change)
    /\ UNCHANGED <<shown, spoilt>>

\* A save that throws, a patch that throws or has nothing to do: nothing of it
\* is seen.  A load always answers.
Decline ==
    /\ request.method \in {"save", "patch"}
    /\ request' = NoRequest
    /\ UNCHANGED <<saved, shown, spoilt>>

\* The app ends, whatever is under way, and starts again.
NextLife ==
    /\ request' = NoRequest
    /\ shown' = None
    /\ UNCHANGED <<saved, spoilt>>

\* The promise ends with the file.
Spoilt == spoilt'

DurableNext ==
    \/ Ask
    \/ ShowSaved
    \/ ApplySave
    \/ ApplyPatch
    \/ Decline
    \/ NextLife
    \/ Spoilt

DurableSpec == DurableInit /\ [][DurableNext]_durableVars
=============================================================================
