# Formal model of the W17 ground station

This directory holds TLA+ specifications of the ground station -- its main
process (`main`), its page (`renderer`) and the modules both share (`shared`)
-- with the TLC configurations that check them on small instances and proofs
that TLAPS checks for every value of the constants. File and line references
are relative to the repository's root, which `PROJECT.json` calls `src/`.

The ground station is an Electron app next to a radio-controlled car. It
starts and stops the *drive program* (the mapper, which turns a steering wheel
into radio frames), raises a Wi-Fi hotspot for the phone, listens to what the
drive program says of the radio link, draws telemetry and video, and leads an
operator who is not an engineer through it with two buttons, RACE DAY and STOP.
Its hard part is not computation but *time*: child processes die when they
like, PowerShell commands take half a minute or never answer, streams drop,
a power cut can fall between two file operations, and a card on the screen must
not claim something that stopped being true while some function was at an
`await`.

## 1. Inventory

| Component (sources) | State it keeps | Operations | Talks to |
|---|---|---|---|
| **Drive program runner** `main/mapperRunner.js` | child handle, stop in flight, stop failed, stop timer, log ring, last message, exit code | `start`, `stop`, `_escalate`, give-up; `data`, `error`, `exit` handlers | OS processes; listeners get `status()` |
| **Hotspot lifecycle** `main/hotspotLifecycle.js` | phase, name, last error, readiness, interruption, verify epoch, capability probe | `start`, `stop`, `verify`, `markInterrupted`, `probe`, `whenSettled` | hotspot manager, readiness check |
| **Hotspot manager** `main/hotspot.js`, `main/runCommand.js` | the backend it owns | `probeBackends`, `start`, `stop` | PowerShell, `netsh` |
| **Readiness check** `main/hotspotVerify.js` | none | one check | PowerShell |
| **Race day** `main/raceDayOrchestrator.js` | one card of four steps, link memory, `_running` | `start` (hotspot, mapper, telemetry, bridge), `stop`, `dispose`; runner and link listeners | all of the above, link watch, process list |
| **Stream clients** `main/MapperLinkStateClient.js`, `MapperTelemetrySource.js`, `HeadIntentDiagnosticsClient.js` | call, settled, attempt, reconnect timer, last word | `start`, `stop`, `_open`, data/end/error | gRPC |
| **Quit policy** `main/quitPolicy.js` | decision pending, quit allowed | `onBeforeQuit`, `decide` | hotspot, runner, dialogs |
| **Window lifecycle, wiring** `main/appWiring.js`, `main/main.js` | `quitting`, dialog queue, sequence number | close interception, second launch, teardown, pushes | everything |
| **Settings and credential** `main/settingsStore.js`, `credentialStore.js` | the settings file, its backup and temporary file; a password for this session; recovery status | `load`, `save`, `patchTelemetrySource` | file system, OS key store |
| **Adapter monitor** `main/adapterMonitor.js` | last listing, poll in flight | `poll`, `start`, `stop` | `netsh`; its coordinator verifies or marks the hotspot |
| **Session runtime, media server** `main/sessionRuntime.js`, `mediamtx.js` | keyed instances, restart timer | `applyConfig`, restart, stop | child process |
| **Serial telemetry** `main/CrsfSerialSource.js`, `shared/crsfAssembler.js` | port, reopen timer, partial frame | open, data, close | serial port |
| **Phone bridge** `main/IphoneTelemetryBridge.js` | latest reading, label, send timer | `update`, start, stop | UDP |
| **Head tracking** `main/HeadTrackingReceiver.js` | last packet, fault, counters | message, staleness tick | UDP |
| **Phone discovery** `main/HudDiscovery.js`, `remoteAddrHint.js` | socket, idle timer, candidate cache; last sender | query, response, goodbye, expiry | mDNS |
| **Wi-Fi join** `main/wifiManager.js`, `shared/wifiView.mjs` | one poll per join | `connect`, profile, poll, time-out | `netsh` |
| **Setup flow** `renderer/setupFlow.js` | current step, visits (epochs), polls, arming, countdown; join target and password field; device choice and listen; mirrors of snapshots | clicks, ticks, answers | IPC |
| **HUD** `renderer/hud.js`, `shared/linkState.mjs`, `lowBattery.mjs` | last reading, banner, chip, started | readings, frames, `startRide` | IPC, player |
| **Controller navigation** `renderer/uiNav.js` | last snapshot, suspended, ring | `pollOnce` | Gamepad API, page |
| **Video** `renderer/whep.js`, `shared/videoState.mjs` | peer connection, retry timer, phase | connect, drop, retry, set style | media server |

### What is hard, and what makes each part correct

* *Runner.* The handle on the child, the child itself, its pipe and two timers
  move independently. Correct means: the app never loses hold of a program
  that drives the car, never has two, a stop in flight has a clock that ends
  it, and the end of a run is blamed on the right cause.
* *Hotspot.* One transition is a chain of commands, each of which takes effect
  at a moment the app does not see; readiness checks outlive the session they
  began in; Windows owns the radio, and so does the operator. Correct means:
  phase and ownership agree, no transition hangs, a verdict belongs to what it
  stands beside, and STOP does not hit a hotspot of somebody else.
* *Race day.* One asynchronous function writes a card that two listeners write
  too. Correct means: what the card says of the drive program and of the link
  agrees with both, in every order of their events.
* *Quit and window.* The world goes on while a prompt is open, and closing a
  window destroys it before anybody is asked. Correct means: nothing is
  abandoned or stopped without the operator's word, only the operator keeps the
  quit waiting, and a running app has a window.
* *Settings.* Every save is four file operations, each may fail or be the last
  one before a power cut, and the password's key store comes and goes. Correct
  means: what was saved is what is loaded, a spoilt file is answered for by the
  backup, and a password is neither lost nor written in the clear.
* *Streams, serial port, lookup.* Errors, ends, time-outs and late callbacks of
  something that was replaced race a timer that replaces it again. Correct
  means: what runs is retried, what was let go of stays let go of.
* *Adapter monitor.* Adapters and hotspot change between the question and the
  answer of a listing. Correct means: a hotspot whose adapter is gone says so.
* *Page.* Every click starts something that ends later, perhaps on another
  step, for another network or another device. Correct means: an answer lands
  in the visit it was asked in, or nowhere; what is drawn of an authority in
  the main process is that authority's last word.

`PROJECT.json` lists every hazard at its line with the properties about it, and
those without a property with the reason.

## 2. Modules

| Module | Models | Code behind it |
|---|---|---|
| `DriveProgram` | what the runner promises the app (abstract) | `mapperRunner.js` |
| `MapperRunner` | the runner beside the operating system; implements `DriveProgram` | `mapperRunner.js` |
| `HotspotAuthority` | what the lifecycle promises the app (abstract) | `hotspotLifecycle.js` |
| `Hotspot` | lifecycle, manager, commands and radio; implements `HotspotAuthority` | `hotspotLifecycle.js`, `hotspot.js`, `runCommand.js` |
| `RaceDay` | `EXTENDS MapperRunner`: the card, cut at the awaits of `start()` | `raceDayOrchestrator.js` |
| `QuitPolicy` | `EXTENDS HotspotAuthority`: the quit, cut at the awaits of `decide()` | `quitPolicy.js`, `appWiring.js`, `main.js` |
| `HotspotAtQuit` | `EXTENDS Hotspot`: the quit policy over the hotspot as it is | `main.js`, `quitPolicy.js`, `hotspotLifecycle.js` |
| `WindowLifecycle` | `EXTENDS QuitPolicy`: the windows around the quit | `appWiring.js`, `main.js` |
| `AdapterMonitor` | the monitor and the coordinator | `adapterMonitor.js`, `appWiring.js` |
| `DurableSettings` | what the store promises the app (abstract) | `settingsStore.js` |
| `SettingsStore` | the file, its backup, the password at rest; implements `DurableSettings` | `settingsStore.js`, `credentialStore.js` |
| `MapperStreams` | the three gRPC stream clients | three clients, `mapper*GrpcConnect.js` |
| `Session` | source, serial port, bridge, and what the HUD makes of the readings | `sessionRuntime.js`, `CrsfSerialSource.js`, `IphoneTelemetryBridge.js`, `hud.js`, `lowBattery.mjs`, `linkState.mjs` |
| `PhoneLink` | the phone's lookup and the head-tracking receiver | `HudDiscovery.js`, `HeadTrackingReceiver.js`, `remoteAddrHint.js`, `setupFlow.js` |
| `SetupFlow` | the steps from the first load to the ride | `setupFlow.js`, `checklist.mjs`, `setupSteps.mjs`, `hud.js` |
| `PitWall` | the network step: tab, plan, adapter card | `setupFlow.js`, `wifiView.mjs` |
| `WifiJoin` | selection, password field, the join and its poll | `setupFlow.js`, `wifiView.mjs`, `wifiManager.js` |
| `SeatFit` | devices, the wheel panel's listen | `setupFlow.js`, `inputPresets.mjs`, `wheelProfile.mjs` |
| `UiNav` | the controller in the page | `uiNav.js`, `setupFlow.js` |
| `VideoStyle` | the switch of the style, media server, player, picture | `setupFlow.js`, `appWiring.js`, `mediamtx.js`, `whep.js`, `videoState.mjs` |
| `Mirrors` | the hotspot pane and the race day card as mirrors of pushed snapshots | `setupFlow.js`, `appWiring.js` |
| `MC*` | constants and compositions for TLC | |
| `*Proofs` | theorems | |

An operator named `X_Y` is the operator `X` with the bug `Y` in it. No
behaviour uses it; each property is shown to fail when one of them takes the
place of `X` (`PROJECT.json`, `mutants`). For a property that is a conjunction
the modules hold several, each breaking another part; `mutants` names one.

JavaScript runs a handler to its end, so a handler, with everything it calls,
is one action, and an `async` function is one action from each `await` to the
next. What a collaborator outside the repository answers is a choice over its
answers.

### MapperRunner

Variables on the left of the table are the runner's fields, on the right the
world's:

| Code | Model | World | Model |
|---|---|---|---|
| `this._proc` | `proc` | the process | `os[c]` |
| `_stopping`, `_stopFailed`, `_stoppedByUs` | same names | unread output | `pipe` |
| `_stopTimer` | `stopTimer` | pending timeouts | `timers` |
| `_ring`, `_exitMessage`, `_exitCode` | `ring`, `exitMessage`, `exitCode` | reached by a forced stop | `forced` |

Each handler's action includes the `_settleStop`, `_clearStopTimer` and
`_lastLine` it calls. A failed spawn reports on the next tick, before timers
and I/O: `TickDrained`. `ChildProcess.kill()` has four answers, and `stop()`
four actions (`StopDelivered`, `StopThrows`, `StopUndelivered`, `StopDenied`);
the last is the one where Node emits `'error'` from inside `kill()` (EPERM). On
Windows a forced stop is `taskkill`, which may fail without telling. `ring`
keeps whose lines are in the ring, not what they say. `run` and `asked` are
history.

Each child of `Child` is spawned at most once (its identity is the handle, not
the pid): the size of `Child` bounds the runs in a behaviour.

`DriveProgram` is what the rest of the app relies on: the word of `status()`
("off", "running", "stopping"), whether it says that a program would not stop,
whether we asked, and the programs that are alive. It knows no signals, timers,
exit events or output. `MapperRunner` implements it with the state each word is
computed from; a program the app may not signal is none of its programs, since
the handle on one is let go of while it lives.

### HotspotAuthority and Hotspot

`Hotspot` keeps the code's fields (`phase`, `named` for `_ssid`, `failed` for
`_lastError`, `readiness`, `interrupted`, `epoch`, `active` for
`_activeBackend`, the probe) and the one `radio` of the machine. `command` is
the awaited command of the transition in flight: `"mobile"` before the command
takes effect, `"mobile-up"` between its effect and its answer. A readiness
check in flight is a record of its epoch and (history) its session. Four
mishaps are possible at any time -- a start under another name, a stop that
fails, an answer that is lost because `runCommand` gave up, and the operator's
own hands in Windows Settings -- and `mishaps` records which happened, so that
a property can say up to which mishap it holds.

`HotspotAuthority` says nothing of commands or checks. `Hotspot` implements it
with `owned <- (active # "none")`; `QuitPolicy` is written against it.

### RaceDay

`at` names the await `start()` is suspended at. The runner's variables and
actions are those of `MapperRunner`; each runner action is conjoined with what
the listener draws (`MirrorRunner`), or with `UNCHANGED raceVars` when the code
does not call the listener. Of the step kinds only the mapper's are kept: the
code reads no other. The link watch is the sequence of its answers
(`LinkSays`); where those come from is `MapperStreams`.

### QuitPolicy and WindowLifecycle

`decision` names the await `decide()` is at. A settled promise continues before
any other event (`Continues`), a prompt is modal (`Reachable`), but transitions,
race day and the drive program go on under it. The way from an allowed quit to
the teardown is one step (`Quit`); `answers` is history of one quit request.

`WindowLifecycle` takes every step of `QuitPolicy` and adds what the windows do
beside it: `Boot` (two modules are awaited before there is a page), a second
launch, which focuses the window or opens one, the titlebar X, which the code
intercepts and turns into a quit request, and `onDecision()`, which makes a
window where a decision to stay finds none. A window that a second launch opens
before the end of the boot is `"blank"`: it has no page and no close handler.

### HotspotAtQuit

`main.js` hands the one lifecycle to the page's handlers and to the quit policy.
The module instantiates `QuitPolicy` over the variables of `Hotspot`, with
`owned <- (active # "none")`, which is what `snapshot()` tells the policy. A
step that changes what the snapshot shows is a step of both (`SharedStep`): the
`stop()` that a decision awaits begins with the command on the hotspot's side
and ends with that command's answer. What it does not show (a command that takes
effect, a fall-back to the other backend, a check, the operator's hands in
Windows Settings) is the hotspot's alone, prompts and the drive program are the
policy's alone.

### AdapterMonitor

A poll is three steps: asked, answered by `netsh`, compared with `last`.
Adapters and the hotspot change between any two of them. `Coordinate` is the
coordinator's listener: an adapter that is gone under a live hotspot asks for a
new check, the last one gone marks it. It asks the phase first, so `hotspot` has
the four phases of the lifecycle, and a start or a stop may answer at any moment
of a poll, with either answer; what becomes of a mark is the lifecycle's. A
listing that fails empties `last` (`adapterMonitor.js:74`).

### SettingsStore

`file`, `bak` and `tmp` hold a document, nothing, or torn bytes. A public call
is a chain of actions, one per access to the disk: `stage` names the next, and
at every stage the write may be cut short (`WriteThrows`, `MigrationFails`,
`RestoreWriteFails`) or the app may end and start again (`Restart`), under
another account and with or without a key store. A document keeps the
operator's choices as one value, the telemetry source (race day's patch writes
it), the token and a legacy plaintext password. `resolveCredential()` is
`Plaintext`, `serialize()` is `Serialize`, the migration of a plaintext is the
write with `migrating`. `promised`, `kept` (the choices that the last write
replaced), `typed` and `mishaps` are history; a mishap is recorded where a
property excepts it: the file spoilt from outside (`"corrupt"`), a recovery cut
short (`"recovery"`), and a save that fails while the password is in memory only
(`"session"`).

`DurableSettings` is the store as its callers see it: one value, to which each
request is applied at one instant, entirely or not at all, and which a load
shows, in this life of the app or the next. `SettingsStore` implements it until
the file is spoilt from outside: `saved` is the choices in the file (the defaults
when there is none), `shown` what `load()` or `save()` gave back, `spoilt` the
mishap. The instant of a save is its last rename; a migration of the password, a
change of account and a write that is cut short are stutters or end the request
without effect.

### MapperStreams

`client` is the one of the three that a behaviour follows. A call is open,
cancelled by the client, half over (one of `error` and `end` served) or gone;
handlers look at the client and not at the call, as in the code. `oddities`
records when an event of an abandoned call crossed a newer one, or the drive
program cancelled a call: under either the code makes no promise (section 4).

### Session and PhoneLink

`Session`: `session:apply` starts source and bridge by their keys
(`ApplySession`), the serial source opens, loses and reopens its port, a
reading reaches HUD and bridge (`Reads`), the HUD draws (`Render`) with the
banner's hysteresis over five classes of battery. Of a reading its origin, its
battery and its age are kept.

`PhoneLink`: the lookup's socket with its asynchronous bind, idle timer and
late callback (`BindCompletes`, `LateBind`), the cache with goodbyes, ageing
(`Pass` is a unit of time) and eviction, the sender hint, the one suggestion on
the chip, and the receiver (W3) with its packets, which it takes in also after its
socket reported an error.

### SetupFlow, PitWall, WifiJoin, SeatFit, UiNav

`SetupFlow` keeps the step, the intervals (`timers`), the entries at an await
with whether their visit lasts, and of the GRID's rows one that is read before
its await and one that is read after. The countdown and the fade are counters,
because the code can have two. `PitWall` follows one visit's answers against
the next visit; the save on leaving is one step that succeeds or fails, because
the main process handles it, and answers it, before whatever the next visit asks.
`WifiJoin` follows the password field against the selection, and the manager's
poll with its counter and its deadline; `SeatFit` the listen against the panel,
the device and the step; `UiNav` is `pollOnce` over the controller's keys: `worn`
is history, the keys that a poll has seen down and that were not let go of.

### VideoStyle

`requests` and `replies` are the ordered messages between page and main
process. Calls of `videoProfileChanged` overlap at their two awaits. `running`
and `retrying` count media servers and their restart timers; `installed` is
whether the last start found the binary, without which there is neither; `peer`,
`again` and `phase` are the player's.

### Mirrors

`now` is the snapshot the authority would give, with its sequence number;
`pushed` and `pulls` are under way and arrive in any order, pulls also later
than the step they were made for. `mirror` is the one a behaviour follows: the
hotspot pane, with the support probe (`kicks`), or the race day card.

### How they are put together

`RaceDay`, `WindowLifecycle` and `HotspotAtQuit` compose parts that share state:
a step of one is a step of the other. `QuitPolicy` alone and `WindowLifecycle`
take any hotspot that keeps the authority's promise; `HotspotAtQuit` takes the
one there is, and `MCHotspot` follows the hotspot alone or under a quit.
`MCDesk`, `MCBackend` and `MCCockpit` put parts that share none into one run:
`part` says which one a behaviour follows while the others rest. No action of
one part reads a variable of another, so this loses no behaviour of a part, and
the states add up instead of multiplying.

## 3. Runs

| Run | Asks | Instance |
|---|---|---|
| `HotspotAll` | all of the hotspot's safety, its refinement of `HotspotAuthority`, and that transitions and verification end; under a quit: no hotspot is left on without the operator's word, policy and hotspot do not wait for each other, a decision ends | the hotspot alone: two sessions, two checks; under a quit: one session, one check, a build that may be left; fair |
| `HotspotStale` | *violation*: a late result does not overwrite truth | two sessions, two checks, not fair |
| `RaceDayWatched` | the card agrees with runner and link | two drive programs, one of which may not be signalled, Windows |
| `RaceDaySettles` | bring-ups end, failed stops are withdrawn | one drive program, POSIX; fair |
| `RaceDayLate` | *violation*: an OK card has its program | two drive programs |
| `Desk` | runner: the program is held, stops are timed and settle, ends are blamed rightly, and it implements `DriveProgram`; quit and window: no program stopped unasked, nobody waits in vain, there is a window; monitor: a listed adapter that goes is marked | two children, one of which may not be signalled, Windows; a build that may be left; two adapters; fair |
| `QuitPolicyCancel` | *violation*: a cancelled quit leaves everything as found | a build that may not be left |
| `Backend` | store: it implements `DurableSettings`, backup and password survive; streams and serial port are retried and not leaked; a demo is labelled; lookups are clocked | one choice beside the default, one password, two OS accounts; three calls; two phones and a cache of one |
| `SettingsRestored` | *violation*: restored settings stay restored | one OS account |
| `Cockpit` | page: polls, tabs, passwords, listens, presses, media servers and mirrors stay with what they belong to | one unfinished press beside another, two adapters, networks, joins, devices and switches; three changes of an authority |
| `SetupFlowRide` | *violation*: the ride dismisses the gate | one unfinished press |
| `VideoFollows` | *violation*: the player follows the persisted style | two switches |

**Why the bounds are enough.** The runner compares a child with `this._proc` and
nothing else, so an old and a new run give every confusion of the two; one of
them may refuse signals. The hotspot compares an epoch with the newest: two
checks give one that supersedes and one that is superseded, in one session or
across two. Under a quit one session is enough, because no start is accepted
while a decision waits for the hotspot, and one check, which may answer late; race
day brings up the drive program there, and its own START and STOP are left to
`Desk`. Race day needs one program that ends and one that follows it. A
stream client forgets a call when it opens the next; three calls give a current
one and two whose events are still to come. The store compares settings with
nothing, so one value beside the default is enough to tell a loss from a save; a
second account is what makes a token unreadable. A cache of one, with two
phones, is at its limit at once; an announcement is new, then one tick old and
still fresh, then as good as never heard. In the page everything compares with
the current one: two of a kind give a current and a stale one. Three numbered
changes give a mirror something older, something held and something newer. The
quit policy and the windows have no unbounded state. What is proved (section 5)
does not depend on any of these bounds.

**Deadlock** is checked in the hotspot and race day runs. It is not in the
others: they contain parts that may stop (all children spawned and gone, the
app has quit, all bounded calls and changes used up).

**Fairness.** Timers fire, promises that are settled continue, the boot's
modules load, and the events of a dead child are delivered: Node's event loop
does these. A command of the hotspot and a listing of adapters answer because
`runCommand` kills the ones that do not. A process that SIGKILL reached dies.
Nothing is assumed of the operator, of the adapters, of a process that was asked
politely, or of `taskkill`. In `Desk` the runner and the monitor get their
fairness; the decision's is in `HotspotAll`: `ContinueFair` (a settled promise
continues, before any other event) and `AnswerFair` (a command goes on or
answers). That a check answers (`CheckFair`) is asked there too; it leaves out a
quit that ends beside a check under way, where nothing is left to happen.

**What the passing runs say.** *Desk:* the run of a drive program stays in hand
(`RunIsInHand`): a living program the app may signal is the one held
(`HoldsTheLiving`), a stop has its clock (`StopHasItsClock`, `NoStrayTimer`), a
crash is never drawn as a requested stop (`BlameOnlyIfAsked`), and what is told
of an end is told of this run. A stop settles (`StopSettles`); what `status()`
says is the abstract drive program (`ImplementsDriveProgram`). No program is
stopped without the operator's word (`ProgramIsNotStoppedUnasked`); the app has
its window (`NoWindowlessApp`). A live hotspot whose last adapter goes after a
listing told of it is marked, unless a listing fails (`LossIsMarked`); of a loss
that is told while the hotspot starts or stops nothing is promised, and the code
drops it (section 4).

*HotspotAll:* `OursIsOwned`, `NeverStopsForeign` and `ReadinessIsCurrent` (a
verdict and a "verifying" are of this session: `VerdictIsOfThisSession`,
`VerifyingIsWatched`) hold up to the mishap each names; `TransitionsSettle`
without exception, `VerificationLands` up to a stop that fails. Under a quit, a
hotspot the app owns, or one it raised and the machine still broadcasts,
outlives the app only by the operator's word, or because no prompt could be
shown or an answer was lost (`NothingIsLeftOn`); a decision waits for nobody but
the operator (`DecisionEnds`).

*Race day:* the card is honest (`CardIsHonest`): "would not stop" is the
runner's own word (`StopFailedIsCurrent`), an idle card hides no program
(`IdleCardIsHonest`), claims yield to the link and faults are taken back with it
(`ClaimYieldsToTheLink`, `LinkFaultIsTakenBack`). Every loss of the program is
drawn (`EndIsSeen`), every bring-up ends (`BringUpEnds`), a failed stop is
withdrawn (`StopFailedIsWithdrawn`).

*Backend:* until a file is spoilt from outside the settings are one value that
no failure tears or loses (`ImplementsDurableSettings`); while there is a
backup, a spoilt file costs one save at most -- a load shows the last save or
what the last write replaced -- unless the recovery itself is cut short
(`BackupAnswers`); a typed password stays in use for the session, unless a save
fails to write while it is in memory only (`TypedPasswordHolds`; both exceptions
are the code's, section 4); no plaintext password is written, nor copied from a
file that has one, and race day's narrow write drops no token this computer
cannot read (`SecretsAreHandled`); no running stream client is deaf and no
wanted serial port given up, and a client holds every stream it has open
(`SourcesStayInHand`: `StreamIsRetried`, `SerialIsRetried`, `NoStreamLeaks`);
the replay never passes for the car on the phone (`DemoIsLabelled`); the lookup
asks the network only on a clock and through a bound socket, and offers no phone
that has outlived its record (`LookupIsSound`: `LookupIsClocked`,
`CandidatesAreAlive`).

*Cockpit:* `PollsBelongToTheStep`, `TabStaysWhereItWasPut`,
`PasswordStaysWithItsNetwork`, `ListenNeverOutlivesItsRow`, `APressActsOnce`,
`OneMediaServer` (one where the binary was found, none where not), and the
mirrors' `MirrorIsCurrent`: once nothing is under way, the page holds and shows
the authority's last word.

**What can always move.** Four invariants say that nothing waits for an event
that cannot come. `NobodyWaitsInVain` has a part for each part of `Desk`:
`TimersCanFire` (a pending timer of a stop), `DecisionCanMove` (a decision that
waits for a settled promise or for a hotspot in transition) and `PollsGoOn` (the
monitor, whatever the last listing did). `AwaitsCanEnd` is about a command or a
check in flight, `NothingHangs` about an await of a bring-up, the exit event of a
dead program and the death of a forced one. `QuitCanGoOn` is about the two sides
of a quit: a settled promise has a way on, and a command under way too, whatever
prompt is open or window closed. They are the statements with
`ENABLED` in them, on which the liveness theorems of section 5 rest. A deadlock
check would not find what they find: the rest of the app goes on.

## 4. Where code and comments disagree

Each is a run that TLC finds violated; `PROJECT.json` quotes the lines.

1. `RaceDayLate`. The runner listener ignores a death while the step is not
   OK, and `_linkCheck` then sets it OK after its wait without asking the
   runner: a program that died during the wait is announced as up.
2. `HotspotStale`. A start under another name draws no epoch, so the check of
   the session before still counts as current.
3. `QuitPolicyCancel`. The second question about the drive program comes after
   the hotspot was stopped; CANCEL there does not leave it as found.
4. `SettingsRestored`. The unreadable file is moved aside before the backup is
   put in its place; when that rewrite fails, the next load finds no file,
   never looks at the backup, and shows the defaults.
5. `SetupFlowRide`. `start()` of the HUD returns at once when it has run before:
   after RE-RUN SETUP a second START plays the lights and leaves the gate up.
6. `VideoFollows`. Of two switches of the style that overlap, the later save is
   persisted and the earlier answer sets the player last.

Seen while modelling, each reachable in the module named, without a run of its
own:

* *Runner* (`MapperRunner`). On EPERM Node emits `'error'` inside `kill()`, and
  the handler drops the handle on a program that is still running
  (`mapperRunner.js:249` against the comment at `:258-262`); that is why
  `HoldsTheLiving` excludes `Denied`. The last line of a program may be read
  after its exit message was composed, or during the next run (`:189`, `:221`).
* *Hotspot*. A capability probe that overlaps a start judges the reading from
  before its await by the ownership after it, and reports the app's own hotspot
  as external (`hotspotLifecycle.js:140-143`). A check that answers during a
  stop that then fails is dropped and leaves "verifying" with nothing under way
  (hence the condition of `VerifyingIsWatched`).
* *Race day*. A first "not connected" after a check that found the link unknown
  is drawn as a link that *dropped* (`raceDayOrchestrator.js:102` against
  `:213`).
* *Quit*. A program that is being stopped does not count as running: the quit
  neither asks nor stops it, and the escalation timer dies with the app
  (`quitPolicy.js:14`, `main.js:390`, `:407`). A second launch before the end
  of the boot leaves a window without its page.
* *Adapter monitor*. An adapter that goes while a listing fails is never
  reported (`adapterMonitor.js:74`). A loss that is listed while the hotspot
  starts or stops is passed over (`appWiring.js:400` asks for phase `live`), and
  the monitor tells of it once: after a stop that failed, or a start that
  succeeded, the hotspot is live without an adapter and without a mark. Hence
  the conditions of `LossIsMarked`.
* *Settings*. A password that `protect()` failed to seal is kept for the session.
  The next save, once the key store is back, seals it, and `serialize()` drops
  the session's copy (`settingsStore.js:221`) before `writeAtomic()` may throw
  (`:329`): then the password is neither in the file nor in memory. An app that
  ends between the quarantine and the restore comes up without a file and shows
  the defaults, as in 4. Hence the exceptions of `TypedPasswordHolds` and
  `BackupAnswers`.
* *Streams*. A CANCELLED of the stopped call that comes after the restart
  settles the new call, whose own end is then ignored: the client stays deaf.
  A call the drive program cancels is not retried. Hence `Orderly`.
* *Session*. `CrsfSerialSource.stop()` while the port opens leaves it open
  (`CrsfSerialSource.js:43`), and the next source cannot have it. The battery
  of a serial source never goes stale, since what it has merged keeps its
  value. The low-battery banner is withdrawn when a source without a battery
  takes over. A replay's values can stand under TELEMETRY LOST after its chip
  has gone (`hud.js:466-468`).
* *PhoneLink*. A goodbye is honoured before its sender is compared
  (`HudDiscovery.js:131`). A receiver that failed to bind is not tried again
  while its configuration stays the same.
* *SetupFlow*. A RACE DAY that succeeds late arms the auto-start, which drags a
  session that is already driving back to the GRID. Two presses of START run
  two countdowns. START can be pressed on the strength of the previous visit
  until `session:apply` answers.
* *PitWall*. Leaving before the tab is shown saves the plan of the tab before
  (`README.md:296` says the step saves the chosen one). A pick of an adapter
  that races a push of the monitor pins the old adapter. The ADAPTER card takes
  its pull's answer also when the gate found it older than a push
  (`setupFlow.js:648-651`); `PitWall` takes every listing as possible.
* *WifiJoin*. Of two joins that overlap, the time-out of the older overwrites
  CONNECTED. After a failed listing a join runs without an adapter pinned.
* *SeatFit, UiNav*. A controller unplugged in BOTH during a listen makes it
  compare two devices. A wheel that reconnects while a paddle is held shifts
  again. A press that the listen's tick reads before `pollOnce` both assigns and
  clicks. A controller that takes over between two frames acts on its held keys.
* *VideoStyle*. A switch of the style while the replay runs leaves its chip as
  it was, like a race day that applies a session.
* *Mirrors*. A rejected pull of race day leaves the card as drawn although the
  cache is newer. A rejected or failed probe answer lays `failed` over a status
  the authority already gave (`setupFlow.js:1047-1049` says its value stands):
  `IsTheTruth` admits both.

## 5. Theorems

All for every value of the constants, checked by TLAPS to the last leaf. Every
property of a passing run -- invariants, action properties, refinements and
what must eventually happen -- is stated by a theorem, except the four
invariants with `ENABLED` in them (see *Liveness*). A theorem is of the
specification of its own part; `DeskKeepsItsParts`, `BackendKeepsItsParts` and
`CockpitKeepsItsParts` show that a behaviour of the composition is one of each
part, so that the safety theorems hold there, and `DeskTypeCorrect`,
`BackendTypeCorrect` and `CockpitTypeCorrect` put the types together.

* `MapperRunnerProofs`: `TypeCorrect`; `TheRunIsInHand` from `HandleIsNeverLost`,
  `StopIsAlwaysTimed` and `EndOfRunIsAttributed`. `HoldsTheLiving` is not
  inductive: a child that died keeps its handle until its exit is delivered, so
  `HoldInv` extends the claim to `"exited"` children, which is what makes
  `StaleExit` harmless. `StopHasItsClock` is proved together with
  `NoStrayTimer` and `IdleClock` (a timer pending while no stop is in flight
  belongs to a program that is already dead): without the last two, a later
  stop could arm a second timer over the first. The attribution of an end is
  proved from `RunInv`, which ties the held child to the last run and a stop
  that was asked for to the flag. `ImplementsTheDriveProgram` maps every action
  to a step of `DriveProgram` or to a stutter. It needs `HoldInv` (who is not
  held does not live, so a launch finds nobody alive) and `ClockInv` with
  `TimedByUs` (a timer is of a stop we asked for, so the report of a timer is
  never about a program that was left alone). `OneDriverByContract` is proved of
  `DriveProgram` alone: one driver at most, "off" over nobody alive, and no
  "stopping" nobody asked for.
* `HotspotProofs`: `TypeCorrect`; `OwnershipShows` from `OwnershipInv`, which
  ties the command in flight to the phase; `OursStaysOwned` and
  `ForeignIsLeftAlone` from what a command that has taken effect left on the
  radio, both up to the mishap that breaks them; `ImplementsItsAuthority`, the
  refinement, one case per action. `VerdictsAreCurrent` rests on `EpochInv`:
  every session begins with a check of its own, which makes the ones before it
  stale; a start under another name begins none, and that is finding 2.
  `VerificationIsWatched` is inductive beside `OwnershipInv`; the two together
  are `ReadinessStaysCurrent`.
  `LiveHotspotIsJudged` and `MarkIsKept` come from `MarkInv`: the mark
  stands only while the phase is live or stopping, so the start of the next
  session, which also clears it, cannot run beside it.
* `RaceDayProofs`: `RaceDayKeepsTheRunner` (race day takes only the runner's
  steps, so every theorem of the runner holds in it, for instance
  `RaceDayHoldsTheLiving`); `RaceDayTypeCorrect` and `TheCardIsHonest`
  (`CardTellsTheRunner`, `CardTellsTheLink`) from the one invariant `CardInv`,
  with a lemma per group of segments; `CardTellsTheEnd`, the action property
  `EndIsSeen`. `RaceDayDrivesTheProgram` carries the refinement over.
* `QuitPolicyProofs`, over any hotspot that keeps the authority's promise:
  `QuitTypeCorrect`, `QuitLeavesNoHotspot` (`HotspotIsNotAbandoned`) and
  `QuitAsksBeforeStopping`, from `DecisionInv`, which says what `decide()` has
  behind it at each await (a question answered with yes, a settled hotspot, one
  that is not owned or was left on by choice): the final guards do not look
  again, so they are right only because nothing can undo it while a prompt is
  open.
* `HotspotAtQuitProofs`, over the hotspot as it is: `BothSidesAreKept`, a
  behaviour of the composition is one of `Hotspot` and one of `QuitPolicy`, so
  the theorems of both hold of it. `NothingIsLeft` takes both: the policy's
  invariant says that nothing owned is left, `OwnershipInv` and `OursIsOwned`
  say that what the machine broadcasts for the app is owned, up to a lost answer.
* `DeskProofs`: `TheAppHasItsWindow` from `PageIsOpen`: once booted, it is the
  window *with the page* that is never lost, a blank one may go.
  `WindowFollowsThePolicy`: seen from the quit policy the windows only stutter
  or take its steps.
* `BackendProofs`, the store: `ImplementsTheDurableSettings`, the refinement,
  one case per action. It needs `CallInv` (which change is under way at which
  stage) and `Written`: the document being written has the choices of the one it
  replaces, with the change of the call and no other; both up to a spoilt file.
  `SecretsStay`, `ChoicesStay` (`ChoicesSurvive`), `TheBackupAnswers` and
  `TypedPasswordStays` come from five more. `WriteInv`: what is written has no
  plaintext and, for a patch, the token that was found; nor has a copy
  (`CopiesAreClean`). `StoreTypeInv`: what is held while a write is under way is
  a whole document. `ChosenInv`, up to a file spoilt from outside: no recovery
  is ever under way and every document at hand was promised. `AnsweredInv`, up
  to a recovery that is cut short: the backup a write leaves is of the document
  it replaces, a migration or a patch rewrites the choices it found, a first
  document has no backup yet, and (`Recent`) no document at hand is older than
  `kept`. `RememberedInv`: what is at rest, with what the session remembers, is
  the password in use -- of the file between writes, of the document being
  written during one.
* `BackendProofs`, session and lookup: `TheDemoIsLabelled` (the bridge in force is
  labelled after the source in force, `LabelInv`), `SerialPortIsRetried`,
  `TheLookupIsSound` from `TheLookupIsClocked` and `CacheIsAlive` (the phone was
  heard no longer ago than its record says, `HeardSince`), `GarbageIsCounted`, the
  types of each part, and `SourcesAreInHand` of the composition.
* `BackendProofs`, the streams: `StreamsTypeCorrect`; `AStreamIsRetried`,
  `StreamsDoNotLeak` and `AClaimHasItsStream` from `StreamsInv`, for any number
  of calls: as long as events are orderly, the only call that is open is the one
  that is held, it is not settled, and what is claimed of the link is claimed
  over it.
* `CockpitProofs`: `OneServerOnly` and `GreenIsConnected` (a retry is scheduled
  only without a connection, `RetryAlone`); `PollsAreOfTheStep` from
  `CurrentIsOfTheStep` (an entry that may still arm a poll is of the step on the
  screen); `TheTabStays`, which needs no invariant; `PasswordsStay` from
  `FieldIsForTheTarget`; `ListensEnd`; `PressesActOnce` from `WornIsSeen` (a
  held key is in the last snapshot, so it is no edge). `FlowTypeCorrect`,
  `JoinTypeCorrect` and `SeatTypeCorrect` say more than types: the auto start is
  armed on the GRID only, the counters of a join stay in their ranges.
* `CockpitProofs`, the mirrors: `TheMirrorIsCurrent`. `MirrorInv` follows the
  authority's last word: every snapshot under way is a past one (`UnderWay`,
  `HeldIsPast`); the last word is under way or held (`LastWordIsHeld`); it is
  drawn, or this visit's pull is still to return (`LastWordIsDrawn`); and a pull
  that returns older than what is held finds that drawn (`NewerIsDrawn`).

**Liveness.** The properties with `~>` are proved from the fair
specifications, with one thing taken from TLC. The prover cannot open `ENABLED`,
so each theorem has the form

    FairSpec /\ []CanMove => Leadsto

where `CanMove` is the invariant of section 3, or the part of it, that says what
is enabled; the run of the same module checks it. Everything else -- that the
fair actions do what they must, that what is enabled stays so or gives way to
progress, that progress cannot be undone -- is proved for every value of the
constants.

| Theorem | Rests on | Argument |
|---|---|---|
| `StopsSettle` | `TimersCanFire` | a stop in flight has a clock (`StopInv`); SIGTERM's clock hands over to SIGKILL's, and that one settles or reports |
| `BringUpsEnd` | `NothingHangs` | the awaits of `start()` are in an order and never go back; a tick that is pending runs first (`DayInv`) |
| `FailedStopsAreWithdrawn` | `NothingHangs` | on POSIX, with no program that refuses signals: a card that says so is of a program SIGKILL reached (`ForceInv`), which dies, whose end is seen and drawn |
| `TransitionsEnd` | `AwaitsCanEnd` | a transition goes through its commands in one direction, fall-back included, and each answers |
| `ChecksLand` | `AwaitsCanEnd` | a word of verification has its newest check (`VerifyingIsWatched` or the end of its session); it answers, or a newer one takes its place |
| `DecisionsEnd` | `QuitCanGoOn` | commands go through one direction and answer, so a transition settles; then the awaits of `decide()` go forward to a prompt or to the end |
| `DecisionsMoveOn` | `DecisionCanMove` | the same over any hotspot that settles |
| `LossesAreMarked` | `PollsGoOn` | a listed adapter that went stays in `last` until a poll compares, and that poll marks, or finds the hotspot gone or an adapter back |

`ChecksLand` has one more hypothesis, `<>NoNewChecks`: from some time on no new
check begins. An operator who presses RE-VERIFY for ever replaces the newest
check for ever; that the checks of the model are finite in number, so that this
cannot happen in it, is an induction over the epochs, which the prover cannot
do. TLC checks `VerificationLands` without the hypothesis.

The assumptions are the `ASSUME`s of the modules: null handles, absent files
and empty names are none of the values they stand beside, bounds are natural
numbers, platform and build are Booleans.

Only model-checked: the four invariants of what can move, `VerificationLands`
without the hypothesis above, and the violations of section 4.

## 6. Not modelled

*Left out of the modelled parts.* The wording of messages and the log tail.
`RaceDayOrchestrator.dispose()` with a `start()` in flight: the teardown is the
last thing the process does, and a model of it would need what the operating
system makes of timers and children of a process that is exiting. A rejection
of race day's collaborators other than their own refusals; the `try/catch`
around `linkProbe.start()`, which does not throw in production; a race day
without a link watch and a hotspot without a readiness check, which production
always wires. The classification of facts in `hotspotVerify.js` is a choice
between its two verdicts. The fields of the settings are one value, so
`normalizeSettings()` is not checked field by field. The GRID's remaining rows,
the previews of SEAT FIT, sounds and layout.

*Data, not control.* Parsing (`wifiParse.js`, `dnsWire.js`, CRSF bytes and
frames, the head-tracking packet, `netsh` tables): pure functions over byte
strings, which unit tests reach and which would need their bytes spelt out.
The bridge's packet format.

*Not modelled at all.* `elrsLauncher.js`, `hostProbe.js` and the other
convenience commands keep no state; race day's use of the process list is a
choice over its answers. Build scripts, the smoke test and the packaging check
are not part of the running program.

What could be added: `hotspotVerify.js` and the GRID's rows as pure functions
against a reference, and a CRSF assembler over chunks of frames.
