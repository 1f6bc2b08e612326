-------------------------- MODULE HotspotAuthority --------------------------
(***************************************************************************)
(* What the hotspot authority promises the rest of the app (decision Q2,   *)
(* src/main/hotspotLifecycle.js:9-12): four phases, each transition ends   *)
(* in a phase that tells who owns the radio, and the readiness word and    *)
(* the interruption mark belong to the live session they were raised in.   *)
(*                                                                         *)
(* It says nothing of backends, of PowerShell or of the checks: Hotspot is *)
(* shown to implement it, and the quit policy and race day are written     *)
(* against it.                                                             *)
(***************************************************************************)
EXTENDS Naturals

VARIABLES
    phase,        \* "inactive", "starting", "live" or "stopping"
    owned,        \* whether this app owns a hotspot it started
    readiness,    \* "idle", "verifying", "verified" or "degraded"
    interrupted   \* whether the adapter was lost while live

authorityVars == <<phase, owned, readiness, interrupted>>

Readiness == {"idle", "verifying", "verified", "degraded"}

AuthorityTypeOK ==
    /\ phase \in {"inactive", "starting", "live", "stopping"}
    /\ owned \in BOOLEAN
    /\ readiness \in Readiness
    /\ interrupted \in BOOLEAN

AuthorityInit ==
    /\ phase = "inactive"
    /\ owned = FALSE
    /\ readiness = "idle"
    /\ interrupted = FALSE

BeginStart ==
    /\ phase = "inactive"
    /\ phase' = "starting"
    /\ readiness' = "idle"
    /\ interrupted' = FALSE
    /\ UNCHANGED owned

\* A start ends owned and live -- being verified, or with an error and no
\* readiness word at all -- or it ends with nothing owned.
EndStart ==
    /\ phase = "starting"
    /\ \/ phase' = "live" /\ owned' = TRUE /\ readiness' \in {"idle", "verifying"}
       \/ phase' = "inactive" /\ owned' = FALSE /\ readiness' = "idle"
    /\ UNCHANGED interrupted

BeginStop ==
    /\ phase = "live"
    /\ phase' = "stopping"
    /\ UNCHANGED <<owned, readiness, interrupted>>

\* A failed stop keeps the ownership, so that STOP can be pressed again.
EndStop ==
    /\ phase = "stopping"
    /\ \/ /\ phase' = "inactive" /\ owned' = FALSE
          /\ readiness' = "idle" /\ interrupted' = FALSE
       \/ /\ phase' = "live"
          /\ UNCHANGED <<owned, readiness, interrupted>>

\* Readiness moves only while live.
Verify ==
    /\ phase = "live"
    /\ readiness' \in {"verifying", "verified", "degraded"}
    /\ UNCHANGED <<phase, owned, interrupted>>

Interrupt ==
    /\ phase = "live"
    /\ ~interrupted
    /\ interrupted' = TRUE
    /\ readiness' = "degraded"
    /\ UNCHANGED <<phase, owned>>

AuthorityNext ==
    \/ BeginStart
    \/ EndStart
    \/ BeginStop
    \/ EndStop
    \/ Verify
    \/ Interrupt

AuthoritySpec == AuthorityInit /\ [][AuthorityNext]_authorityVars
=============================================================================
