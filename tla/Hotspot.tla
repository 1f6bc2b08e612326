------------------------------ MODULE Hotspot -------------------------------
(***************************************************************************)
(* The hotspot: src/main/hotspotLifecycle.js (the runtime authority) over  *)
(* src/main/hotspot.js (the manager, which holds the ownership) over the   *)
(* one radio of the machine.                                               *)
(*                                                                         *)
(* Both classes are asynchronous: a start or a stop is a chain of awaited  *)
(* commands, each of which first takes effect in the operating system and  *)
(* then answers, or fails to.  Everything else -- the capability probe,    *)
(* readiness checks, adapter losses, the operator's own hands in Windows   *)
(* Settings -- happens between those steps.  A call that is refused or is  *)
(* a no-op changes nothing and is not an action.                           *)
(***************************************************************************)
EXTENDS Naturals, FiniteSets

CONSTANTS
    MaxSession,   \* bound: start() calls in a behaviour
    MaxEpoch      \* bound: readiness checks in a behaviour

(***************************************************************************)
(* What may go wrong; a property may exclude some of it.                   *)
(*                                                                         *)
(* "mismatch":    tethering starts under another name                      *)
(* "stop-fails":  a stop command fails                                     *)
(* "lost-answer": a command takes effect and its answer is lost, because   *)
(*                runCommand gave up on it                                 *)
(* "meddling":    the operator switches hotspots in Windows Settings while *)
(*                this app has one                                         *)
(***************************************************************************)
Mishaps == {"mismatch", "stop-fails", "lost-answer", "meddling"}

ASSUME HotspotAssumption ==
    /\ MaxSession \in Nat
    /\ MaxEpoch \in Nat

VARIABLES
    radio,        \* what the machine broadcasts: "off", "ours", "external"
    command,      \* the awaited command of a start or stop in flight
    fallback,     \* probe.hosted: hostednetwork may be tried after mobile
    active,       \* manager._activeBackend: "none", "mobile" or "hosted"
    phase,        \* lifecycle._phase
    named,        \* lifecycle._ssid is the requested name (not '')
    failed,       \* lifecycle._lastError is set
    readiness,    \* lifecycle._readiness.status
    interrupted,  \* lifecycle._interrupted is set
    epoch,        \* lifecycle._verifyEpoch
    checks,       \* the readiness checks in flight
    probe,        \* the capability probe: "idle", "probing", "read", "done"
    probeSaw,     \* what the running probe found on the air; it can tell only
                  \* on from off, whose hotspot it is is history
    foreign,      \* the cached probe result's externallyActive
    session,      \* history: start() calls so far
    verdictOf,    \* history: the session the readiness verdict was checked in
    mishaps       \* history: what went wrong so far

managerVars == <<radio, command, fallback, active>>
lifecycleVars == <<phase, named, failed, readiness, interrupted, epoch, checks>>
probeVars == <<probe, probeSaw, foreign>>
historyVars == <<session, verdictOf, mishaps>>
hotspotVars == <<managerVars, lifecycleVars, probeVars, historyVars>>

Check == [epoch : 1..MaxEpoch, session : 0..MaxSession]

WordsTypeOK ==
    /\ radio \in {"off", "ours", "external"}
    /\ command \in {"none", "probe", "mobile", "mobile-up", "hosted", "hosted-up",
                    "stop", "stop-done"}
    /\ fallback \in BOOLEAN
    /\ active \in {"none", "mobile", "hosted"}
    /\ phase \in {"inactive", "starting", "live", "stopping"}
    /\ named \in BOOLEAN
    /\ failed \in BOOLEAN
    /\ readiness \in {"idle", "verifying", "verified", "degraded"}
    /\ interrupted \in BOOLEAN
    /\ probe \in {"idle", "probing", "read", "done"}
    /\ probeSaw \in {"off", "ours", "external"}
    /\ foreign \in BOOLEAN

TalliesTypeOK ==
    /\ epoch \in 0..MaxEpoch
    /\ checks \subseteq Check
    /\ session \in 0..MaxSession
    /\ verdictOf \in 0..MaxSession
    /\ mishaps \subseteq Mishaps

HotspotTypeOK == WordsTypeOK /\ TalliesTypeOK

\* The app starts beside whatever the machine already broadcasts.
HotspotInit ==
    /\ radio \in {"off", "external"}
    /\ command = "none"
    /\ fallback = FALSE
    /\ active = "none"
    /\ phase = "inactive"
    /\ named = FALSE
    /\ failed = FALSE
    /\ readiness = "idle"
    /\ interrupted = FALSE
    /\ epoch = 0
    /\ checks = {}
    /\ probe = "idle"
    /\ probeSaw = "off"
    /\ foreign = FALSE
    /\ session = 0
    /\ verdictOf = 0
    /\ mishaps = {}

-----------------------------------------------------------------------------
\* start(): refused unless inactive.  The manager first probes the backends.
\* (The bound on checks leaves room for the one a success begins.)
StartHotspot ==
    /\ phase = "inactive"
    /\ session < MaxSession /\ epoch < MaxEpoch
    /\ session' = session + 1
    /\ phase' = "starting"
    /\ failed' = FALSE
    /\ interrupted' = FALSE
    /\ readiness' = "idle"
    /\ command' = "probe"
    /\ UNCHANGED <<radio, fallback, active, named, epoch, checks, probeVars, verdictOf,
                   mishaps>>

\* Something goes wrong.
Mishap(m) == mishaps' = mishaps \cup {m} /\ UNCHANGED <<session, verdictOf>>

\* The manager's start ends: its answer and the rest of _doStart.
StartFailed_Stuck ==
    /\ command' = "none"
    /\ failed' = TRUE
    /\ UNCHANGED <<phase, named, active, readiness, epoch, checks>>

StartFailed ==
    /\ command' = "none"
    /\ phase' = "inactive"
    /\ named' = FALSE
    /\ failed' = TRUE
    /\ UNCHANGED <<active, readiness, epoch, checks>>

\* _startVerify() up to its await, in session s.
BeginCheck_PostIncrement(s) ==
    /\ epoch < MaxEpoch
    /\ epoch' = epoch + 1
    /\ checks' = checks \cup {[epoch |-> epoch, session |-> s]}
    /\ readiness' = "verifying"

BeginCheck(s) ==
    /\ epoch < MaxEpoch
    /\ epoch' = epoch + 1
    /\ checks' = checks \cup {[epoch |-> epoch + 1, session |-> s]}
    /\ readiness' = "verifying"

StartSucceeded_Unowned(backend) ==
    /\ command' = "none"
    /\ phase' = "live"
    /\ named' = TRUE
    /\ failed' = FALSE
    /\ BeginCheck(session)
    /\ UNCHANGED active

StartSucceeded(backend) ==
    /\ command' = "none"
    /\ active' = backend
    /\ phase' = "live"
    /\ named' = TRUE
    /\ failed' = FALSE
    /\ BeginCheck(session)

ProbeAnswers ==
    /\ command = "probe"
    /\ \E mobile, hosted \in BOOLEAN :
         /\ fallback' = hosted
         /\ IF mobile \/ hosted
            THEN /\ command' = IF mobile THEN "mobile" ELSE "hosted"
                 /\ UNCHANGED lifecycleVars
            ELSE StartFailed /\ interrupted' = interrupted
    /\ UNCHANGED <<radio, active, probeVars, historyVars>>

\* StartTetheringAsync, or netsh start hostednetwork, takes effect.  The radio
\* carries one hotspot at a time.
RadioComesUp ==
    /\ command \in {"mobile", "hosted"}
    /\ radio = "off"
    /\ radio' = "ours"
    /\ command' = IF command = "mobile" THEN "mobile-up" ELSE "hosted-up"
    /\ UNCHANGED <<fallback, active, lifecycleVars, probeVars, historyVars>>

MobileAnswersOk ==
    /\ command = "mobile-up"
    /\ StartSucceeded("mobile")
    /\ UNCHANGED <<radio, fallback, interrupted, probeVars, historyVars>>

\* START_CONFIG_MISMATCH: owned, live, with an error; nothing is verified.
MobileAnswersMismatch ==
    /\ command = "mobile-up"
    /\ command' = "none"
    /\ active' = "mobile"
    /\ phase' = "live"
    /\ named' = FALSE
    /\ failed' = TRUE
    /\ Mishap("mismatch")
    /\ UNCHANGED <<radio, fallback, readiness, interrupted, epoch, checks, probeVars>>

\* START_ALREADY_ON: no fallback, not owned.
MobileAnswersAlreadyOn_Owns ==
    /\ command = "mobile"
    /\ radio # "off"
    /\ StartSucceeded("mobile")
    /\ UNCHANGED <<radio, fallback, interrupted, probeVars, historyVars>>

MobileAnswersAlreadyOn ==
    /\ command = "mobile"
    /\ radio # "off"
    /\ StartFailed
    /\ UNCHANGED <<radio, fallback, interrupted, probeVars, historyVars>>

\* Any other answer of the mobile backend: hostednetwork when it is there.
MobileFails ==
    /\ \/ command = "mobile" /\ radio = "off" /\ UNCHANGED historyVars
       \/ command = "mobile-up" /\ Mishap("lost-answer")
    /\ IF fallback
       THEN command' = "hosted" /\ UNCHANGED <<active, lifecycleVars>>
       ELSE StartFailed /\ interrupted' = interrupted
    /\ UNCHANGED <<radio, fallback, probeVars>>

HostedAnswersOk ==
    /\ command = "hosted-up"
    /\ StartSucceeded("hosted")
    /\ UNCHANGED <<radio, fallback, interrupted, probeVars, historyVars>>

HostedFails_WhenUp ==
    /\ command = "hosted-up" /\ Mishap("lost-answer")
    /\ StartFailed
    /\ UNCHANGED <<radio, fallback, interrupted, probeVars>>

HostedFails ==
    /\ \/ command = "hosted" /\ UNCHANGED historyVars
       \/ command = "hosted-up" /\ Mishap("lost-answer")
    /\ StartFailed
    /\ UNCHANGED <<radio, fallback, interrupted, probeVars>>
-----------------------------------------------------------------------------
\* stop(): refused during a transition, a no-op when nothing is owned.
StopHotspot ==
    /\ phase \in {"inactive", "live"}
    /\ active # "none"
    /\ phase' = "stopping"
    /\ command' = "stop"
    /\ UNCHANGED <<radio, fallback, active, named, failed, readiness, interrupted,
                   epoch, checks, probeVars, historyVars>>

\* The stop command takes effect.  Tethering is one switch for the whole
\* machine; hostednetwork is a switch of its own.
StopTakesEffect ==
    /\ command = "stop"
    /\ command' = "stop-done"
    /\ radio' = IF active = "mobile" \/ radio = "ours" THEN "off" ELSE radio
    /\ UNCHANGED <<fallback, active, lifecycleVars, probeVars, historyVars>>

StopAnswersOk ==
    /\ command = "stop-done"
    /\ command' = "none"
    /\ active' = "none"
    /\ phase' = "inactive"
    /\ named' = FALSE
    /\ failed' = FALSE
    /\ interrupted' = FALSE
    /\ readiness' = "idle"
    /\ UNCHANGED <<radio, fallback, epoch, checks, probeVars, historyVars>>

\* Ownership is kept, so that the stop can be retried.
StopFails ==
    /\ \/ command = "stop" /\ Mishap("stop-fails")
       \/ command = "stop-done" /\ Mishap("lost-answer")
    /\ command' = "none"
    /\ phase' = "live"
    /\ failed' = TRUE
    /\ UNCHANGED <<radio, fallback, active, named, readiness, interrupted, epoch,
                   checks, probeVars>>
-----------------------------------------------------------------------------
\* verify(): the operator's REVERIFY, the adapter guard, or race day.
VerifyHotspot ==
    /\ phase = "live"
    /\ BeginCheck(session)
    /\ UNCHANGED <<managerVars, phase, named, failed, interrupted, probeVars,
                   historyVars>>

\* A check is dropped when a newer one began or the hotspot is not live.
CheckIsCurrent_LiveOnly(k) == phase = "live"
CheckIsCurrent_EpochOnly(k) == k.epoch = epoch
CheckIsCurrent(k) == k.epoch = epoch /\ phase = "live"

\* A check answers after its await.
CheckAnswers(k) ==
    /\ k \in checks
    /\ checks' = checks \ {k}
    /\ IF CheckIsCurrent(k)
       THEN /\ readiness' \in {"verified", "degraded"}
            /\ verdictOf' = k.session
       ELSE UNCHANGED <<readiness, verdictOf>>
    /\ UNCHANGED <<managerVars, phase, named, failed, interrupted, epoch, probeVars,
                   session, mishaps>>

\* markInterrupted(): the last WLAN adapter disappeared.
MarkInterrupted ==
    /\ phase = "live"
    /\ ~interrupted
    /\ interrupted' = TRUE
    /\ readiness' = "degraded"
    /\ verdictOf' = session
    /\ UNCHANGED <<managerVars, phase, named, failed, epoch, checks, probeVars,
                   session, mishaps>>
-----------------------------------------------------------------------------
\* probe(): single-flight; a later call with {refresh} probes again.
Probe ==
    /\ probe \in {"idle", "done"}
    /\ probe' = "probing"
    /\ UNCHANGED <<managerVars, lifecycleVars, probeSaw, foreign, historyVars>>

ProbeReads ==
    /\ probe = "probing"
    /\ probe' = "read"
    /\ probeSaw' = radio
    /\ UNCHANGED <<managerVars, lifecycleVars, foreign, historyVars>>

\* _runProbe after its await: the reading is judged by the ownership of now.
ProbeCompletes ==
    /\ probe = "read"
    /\ probe' = "done"
    /\ foreign' = (probeSaw # "off" /\ active = "none")
    /\ probeSaw' = "off"
    /\ UNCHANGED <<managerVars, lifecycleVars, historyVars>>

\* The operator's hands in Windows Settings.
OperatorSwitchesOff ==
    /\ \/ radio = "external" /\ UNCHANGED historyVars
       \/ radio = "ours" /\ Mishap("meddling")
    /\ radio' = "off"
    /\ UNCHANGED <<command, fallback, active, lifecycleVars, probeVars>>

OperatorSwitchesOn ==
    /\ radio = "off"
    /\ \/ active = "none" /\ UNCHANGED historyVars
       \/ active # "none" /\ Mishap("meddling")
    /\ radio' = "external"
    /\ UNCHANGED <<command, fallback, active, lifecycleVars, probeVars>>

HotspotNext ==
    \/ StartHotspot
    \/ ProbeAnswers
    \/ RadioComesUp
    \/ MobileAnswersOk
    \/ MobileAnswersMismatch
    \/ MobileAnswersAlreadyOn
    \/ MobileFails
    \/ HostedAnswersOk
    \/ HostedFails
    \/ StopHotspot
    \/ StopTakesEffect
    \/ StopAnswersOk
    \/ StopFails
    \/ VerifyHotspot
    \/ \E k \in checks : CheckAnswers(k)
    \/ MarkInterrupted
    \/ Probe
    \/ ProbeReads
    \/ ProbeCompletes
    \/ OperatorSwitchesOff
    \/ OperatorSwitchesOn

HotspotSpec == HotspotInit /\ [][HotspotNext]_hotspotVars

\* Every awaited command answers: runCommand kills one that does not (20 s to
\* probe, 30 s to start, 20 s to stop).
CommandAnswers ==
    \/ ProbeAnswers \/ RadioComesUp
    \/ MobileAnswersOk \/ MobileAnswersMismatch \/ MobileAnswersAlreadyOn \/ MobileFails
    \/ HostedAnswersOk \/ HostedFails
    \/ StopTakesEffect \/ StopAnswersOk \/ StopFails

\* The checks and the probe are chains of such commands.  Nothing is assumed
\* of the operator, of the adapter or of who asks for a check.
CommandFair == WF_hotspotVars(CommandAnswers)
CheckFair(k) == WF_hotspotVars(CheckAnswers(k))
ProbeFair == WF_hotspotVars(ProbeReads \/ ProbeCompletes)

HotspotFairness == CommandFair /\ (\A k \in Check : CheckFair(k)) /\ ProbeFair

HotspotFairSpec == HotspotSpec /\ HotspotFairness
-----------------------------------------------------------------------------
\* The phase tells who owns the radio: whatever the order of answers, checks,
\* adapter losses and failed stops, the manager owns a hotspot exactly while
\* the lifecycle says LIVE or STOPPING.  (hotspotLifecycle.js:13-15, 250-253)
OwnershipIsVisible == active # "none" <=> phase \in {"live", "stopping"}

\* A LIVE hotspot without an error carries a readiness word: a start command
\* that succeeded is never shown as a plain success.  (hotspotLifecycle.js:191-194)
LiveIsJudged == phase = "live" /\ ~failed => readiness # "idle"

\* As long as every command is heard of, a hotspot this app raised is owned
\* between transitions, so that STOP and the quit dialog can reach it.
\* (hotspot.js:200-201)
OursIsOwned ==
    "lost-answer" \notin mishaps => (radio = "ours" /\ command = "none" => active # "none")

\* The check behind a "verified" was begun in this session, not in one that
\* was stopped since -- if no session came up under another name, which draws
\* no new epoch.  (hotspotLifecycle.js:266-268, 293-297)
VerdictIsOfThisSession ==
    "mismatch" \notin mishaps => (readiness = "verified" => verdictOf = session)

\* Until a stop fails, while LIVE says "verifying" the newest check is under
\* way.  (hotspotLifecycle.js:266-267)
StopFailed == mishaps \cap {"stop-fails", "lost-answer"} # {}

VerifyingIsWatched ==
    ~StopFailed =>
        (phase = "live" /\ readiness = "verifying" => \E k \in checks : k.epoch = epoch)

\* Whatever was begun and stopped before, the word of readiness is of this
\* session: a verdict comes of a check of it, and "verifying" has one under way.
\* (hotspotLifecycle.js:260-310)
ReadinessIsCurrent == VerdictIsOfThisSession /\ VerifyingIsWatched

\* The stop switch is never thrown on a hotspot someone else started, unless
\* it replaced this app's own behind its back.  (hotspot.js:359)
NeverStopsForeign ==
    [][StopTakesEffect /\ "meddling" \notin mishaps
           => radio # "external" \/ radio' = radio]_hotspotVars

\* Once the adapter was lost, the session stays marked until it is stopped:
\* no check that answers late or is asked for again washes the mark off.
\* (hotspotLifecycle.js:304-307)
InterruptionSticks == [][interrupted /\ ~interrupted' => phase' = "inactive"]_hotspotVars

\* No await is without an answer to come: whatever the radio, the operator and
\* the other commands do meanwhile, each stage of a start or a stop has a way on,
\* and so has each check, current or not.  (hotspot.js:206-383)
CommandCanAnswer == ENABLED <<CommandAnswers>>_hotspotVars
CheckCanAnswer(k) == ENABLED <<CheckAnswers(k)>>_hotspotVars
Asked(k) == k \in checks

AwaitsCanEnd ==
    /\ command # "none" => CommandCanAnswer
    /\ \A k \in Check : Asked(k) => CheckCanAnswer(k)

\* whenSettled() resolves: a quit asked for during a transition is not
\* deferred for ever.  (hotspotLifecycle.js:113-118)
TransitionsSettle == phase \in {"starting", "stopping"} ~> phase \in {"inactive", "live"}

\* "verifying" is a passing word: a check answers, or the session ends or could
\* not be ended.  (hotspotLifecycle.js:266-267)
VerificationLands == readiness = "verifying" ~> readiness # "verifying" \/ StopFailed

\* What Hotspot promises, with the ownership the manager keeps.
Authority == INSTANCE HotspotAuthority WITH owned <- (active # "none")

\* Hotspot implements the four-phase authority.  (hotspotLifecycle.js:9-21)
ImplementsAuthority == Authority!AuthoritySpec
-----------------------------------------------------------------------------
(***************************************************************************)
(* What a comment of the code says and the code does not keep, the one     *)
(* property of a run that is expected to violate it.                       *)
(***************************************************************************)
\* hotspotLifecycle.js:294-295: the result of a check that is out of date
\* does not overwrite truth.
VerdictIsNotStale == readiness = "verified" => verdictOf = session
=============================================================================
