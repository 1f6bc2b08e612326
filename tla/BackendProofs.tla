--------------------------- MODULE BackendProofs ----------------------------
(***************************************************************************)
(* What TLAPS proves of four parts of the main process: of MapperStreams,  *)
(* for any number of calls; of SettingsStore, for every set of settings,   *)
(* passwords and accounts; of Session, for every order of settings,        *)
(* applies, readings and ports; of PhoneLink, for every set of addresses,  *)
(* every size of the cache and every age limit.  Each theorem is of the    *)
(* part's own specification; the last section shows that the parts keep to *)
(* them where they are composed.                                           *)
(***************************************************************************)
EXTENDS MCBackend, TLAPS

-----------------------------------------------------------------------------
(* The streams from the drive program: while no event of an abandoned call is served,
   and the drive program cancels nothing, each client holds the one stream that is
   open, or has its next attempt scheduled.                                  *)

\* The calls, and the one that is held.
CallsAreKnown ==
    /\ client \in Client
    /\ calls \in Seq({"open", "cancelled", "half", "gone"})
    /\ current \in Nat /\ current <= Len(calls)

\* A call is held while it is open and the client runs; a client that runs holds
\* one or waits for its timer, never both.
CallIsHeld ==
    /\ current # 0 => calls[current] = "open" /\ ~settled /\ streaming /\ ~reconnect
    /\ streaming /\ current = 0 => reconnect
    /\ \A i \in DOMAIN calls : calls[i] = "open" => i = current

\* Up, down and live are said of a call that is held.
ClaimIsOfTheCall ==
    /\ client = "link" /\ shown \in {"up", "down"} => current # 0
    /\ client = "intent" /\ shown = "live" => current # 0
    /\ ~streaming => shown = Unspoken

StreamsInv == CallsAreKnown /\ (Orderly => CallIsHeld /\ ClaimIsOfTheCall)

USE StreamsAssumption
-----------------------------------------------------------------------------
\* A new call is appended and held, or the connection failed and the timer runs.
LEMMA OpenKeepsStreams ==
    ASSUME StreamsInv, NEW tries, Open(tries), current = 0 \/ ~Orderly,
           streaming', UNCHANGED <<client, oddities>>
    PROVE  StreamsInv'
<1> USE DEF StreamsInv, CallsAreKnown
<1>1. CASE /\ calls' = Append(calls, "open") /\ current' = Len(calls) + 1
           /\ shown' = IF client = "intent" THEN "connecting" ELSE shown
           /\ reconnect' = FALSE /\ settled' = FALSE
  <2>1. CallsAreKnown'
    BY <1>1
  <2>2. /\ DOMAIN calls' = 1 .. (Len(calls) + 1) /\ calls'[Len(calls) + 1] = "open"
        /\ \A i \in DOMAIN calls : calls'[i] = calls[i]
        /\ DOMAIN calls' = DOMAIN calls \cup {Len(calls) + 1}
    BY <1>1
  <2>3. Orderly => CallIsHeld' /\ ClaimIsOfTheCall'
    BY <1>1, <2>2 DEF CallIsHeld, ClaimIsOfTheCall
  <2> QED
    BY <2>1, <2>3 DEF Orderly
<1>2. CASE Closed(AfterClose("unavailable"), tries) /\ UNCHANGED calls
  BY <1>2 DEF Closed, AfterClose, Client, CallIsHeld, ClaimIsOfTheCall, Orderly
<1> QED
  BY <1>1, <1>2 DEF Open

\* A message is of the call that is held, or of an abandoned one.
LEMMA DataKeepsStreams ==
    ASSUME StreamsInv, NEW i \in DOMAIN calls, NEW said, Data(i, said),
           UNCHANGED client
    PROVE  StreamsInv'
<1> USE DEF StreamsInv
<1>1. UNCHANGED <<client, streaming, current, settled, reconnect, calls>> /\ shown' = said
  BY DEF Data
<1>2. Orderly' => Orderly /\ i = current
  BY DEF Data, Serves, Orderly
<1>3. Orderly' => current # 0
  BY <1>2 DEF CallsAreKnown
<1> QED
  BY <1>1, <1>2, <1>3 DEF CallsAreKnown, CallIsHeld, ClaimIsOfTheCall

\* The call that is held is closed, or one that has been let go of.
LEMMA CloseKeepsStreams ==
    ASSUME StreamsInv, NEW i \in DOMAIN calls, NEW cause \in Causes, Close(i, cause)
    PROVE  StreamsInv'
<1> USE DEF StreamsInv
<1>1. /\ calls' = [calls EXCEPT ![i] = IF calls[i] = "half" THEN "gone" ELSE "half"]
      /\ UNCHANGED <<client, streaming>> /\ settled' = TRUE
      /\ calls[i] = "cancelled" => cause = "cancelled"
      /\ IF settled \/ ~streaming \/ cause = "cancelled"
         THEN UNCHANGED <<current, attempt, reconnect, shown>>
         ELSE Closed(AfterClose(cause), attempt)
  BY DEF Close, Last
<1>2. /\ calls' \in Seq({"open", "cancelled", "half", "gone"}) /\ Len(calls') = Len(calls)
      /\ DOMAIN calls' = DOMAIN calls
      /\ \A j \in DOMAIN calls : calls'[j] = IF j = i
                                             THEN IF calls[i] = "half" THEN "gone" ELSE "half"
                                             ELSE calls[j]
  BY <1>1 DEF CallsAreKnown
<1>3. CallsAreKnown'
  BY <1>1, <1>2 DEF CallsAreKnown, Closed
<1>4. /\ Orderly' => Orderly
      /\ Orderly' => i = current \/ current = 0
      /\ Orderly' => cause # "cancelled" \/ calls[i] # "open"
  BY DEF Close, Serves, Orderly
<1>5. \A j \in DOMAIN calls' : calls'[j] = "open" => j # i /\ calls[j] = "open"
  BY <1>2
<1>6. ASSUME Orderly', current # 0
      PROVE  CallIsHeld' /\ ClaimIsOfTheCall'
  <2>1. i = current /\ ~settled /\ streaming /\ calls[i] = "open" /\ cause # "cancelled"
    BY <1>4, <1>6 DEF CallIsHeld
  <2>2. current' = 0 /\ shown' = AfterClose(cause) /\ reconnect' = TRUE
    BY <1>1, <2>1 DEF Closed
  <2>3. CallIsHeld'
    BY <1>1, <1>4, <1>5, <1>6, <2>1, <2>2 DEF CallIsHeld
  <2>4. ClaimIsOfTheCall'
    BY <1>1, <2>1, <2>2 DEF ClaimIsOfTheCall, AfterClose, Causes
  <2> QED
    BY <2>3, <2>4
<1>7. ASSUME Orderly', current = 0
      PROVE  CallIsHeld' /\ ClaimIsOfTheCall'
  <2>1. current' = 0 /\ (shown' = shown \/ (streaming /\ shown' = AfterClose(cause)))
    BY <1>1, <1>7 DEF Closed
  <2>2. streaming => reconnect'
    BY <1>1, <1>4, <1>7 DEF Closed, CallIsHeld
  <2>3. CallIsHeld'
    BY <1>1, <1>4, <1>5, <1>7, <2>1, <2>2 DEF CallIsHeld
  <2>4. ClaimIsOfTheCall'
    BY <1>1, <1>4, <1>7, <2>1 DEF ClaimIsOfTheCall, AfterClose, Causes, Unspoken
  <2> QED
    BY <2>3, <2>4
<1> QED
  BY <1>3, <1>6, <1>7

LEMMA StopKeepsStreams == StreamsInv /\ StopStream => StreamsInv'
<1> SUFFICES ASSUME StreamsInv, StopStream PROVE StreamsInv'
  OBVIOUS
<1> USE DEF StreamsInv
<1>1. /\ streaming' = FALSE /\ current' = 0 /\ shown' = Unspoken
      /\ calls' = IF current # 0 /\ calls[current] = "open"
                  THEN [calls EXCEPT ![current] = "cancelled"] ELSE calls
      /\ UNCHANGED <<client, oddities>>
  BY DEF StopStream
<1>2. CallsAreKnown'
  BY <1>1 DEF CallsAreKnown
<1>3. \A j \in DOMAIN calls' : calls'[j] = "open" => j \in DOMAIN calls /\ calls[j] = "open" /\ j # current
  BY <1>1 DEF CallsAreKnown
<1>4. Orderly' => CallIsHeld' /\ ClaimIsOfTheCall'
  BY <1>1, <1>3 DEF CallIsHeld, ClaimIsOfTheCall, Orderly, Unspoken
<1> QED
  BY <1>2, <1>4

\* One stream at a time, over any number of starts, stops, errors and reconnects.
LEMMA StreamsAreHeld == StreamsSpec => []StreamsInv
<1>1. StreamsInit => StreamsInv
  BY DEF StreamsInit, StreamsInv, CallsAreKnown, CallIsHeld, ClaimIsOfTheCall, Unspoken
<1>2. StreamsInv /\ [StreamsNext]_streamsVars => StreamsInv'
  <2> SUFFICES ASSUME StreamsInv, [StreamsNext]_streamsVars PROVE StreamsInv'
    OBVIOUS
  <2>1. CASE StartStream
    BY <2>1, OpenKeepsStreams DEF StartStream, StreamsInv, CallIsHeld
  <2>2. CASE Reconnect
    BY <2>2, OpenKeepsStreams DEF Reconnect, StreamsInv, CallIsHeld
  <2>3. CASE StopStream
    BY <2>3, StopKeepsStreams
  <2>4. ASSUME NEW i \in DOMAIN calls, Served(i) PROVE StreamsInv'
    <3>1. CASE LinkData(i) \/ TelemetryData(i) \/ IntentData(i)
      BY <3>1, DataKeepsStreams DEF LinkData, TelemetryData, IntentData, Data
    <3>2. CASE LinkError(i) \/ TelemetryError(i) \/ IntentError(i) \/ StreamEnds(i)
      BY <3>2, CloseKeepsStreams DEF LinkError, TelemetryError, IntentError, StreamEnds, Causes
    <3> QED
      BY <2>4, <3>1, <3>2 DEF Served
  <2>5. CASE UNCHANGED streamsVars
    BY <2>5 DEF streamsVars, clientVars, StreamsInv, CallsAreKnown, CallIsHeld,
                ClaimIsOfTheCall, Orderly, Unspoken
  <2> QED
    BY <2>1, <2>2, <2>3, <2>4, <2>5 DEF StreamsNext
<1> QED
  BY <1>1, <1>2, PTL DEF StreamsSpec
-----------------------------------------------------------------------------
\* What a client may show when it lets go of a call is its own.
LEMMA AfterCloseType ==
    ASSUME StreamsTypeOK, NEW cause \in Causes, cause # "cancelled"
    PROVE  AfterClose(cause) \in Shown(client)
BY DEF StreamsTypeOK, AfterClose, Shown, Client, Causes

\* It closes with a delay that stays at its cap.
LEMMA ClosedType ==
    ASSUME NEW said \in Shown(client), NEW tries \in 0..MaxAttempt, Closed(said, tries),
           UNCHANGED client
    PROVE  /\ current' = 0 /\ reconnect' \in BOOLEAN
           /\ shown' \in Shown(client') /\ attempt' \in 0..MaxAttempt
BY DEF Closed

\* It opens a call that is the last of the sequence, or closes.
LEMMA OpenType ==
    ASSUME StreamsTypeOK, NEW tries \in 0..MaxAttempt, Open(tries), UNCHANGED <<client, oddities>>,
           streaming' \in BOOLEAN
    PROVE  StreamsTypeOK'
<1> USE DEF StreamsTypeOK
<1>1. settled' = FALSE
  BY DEF Open
<1>2. CASE /\ Len(calls) < MaxCall /\ calls' = Append(calls, "open")
           /\ current' = Len(calls) + 1
           /\ shown' = IF client = "intent" THEN "connecting" ELSE shown
           /\ attempt' = tries /\ reconnect' = FALSE
  <2>1. calls' \in Seq({"open", "cancelled", "half", "gone"}) /\ Len(calls') = Len(calls) + 1
    BY <1>2
  <2>2. shown' \in Shown(client')
    BY <1>2 DEF Shown
  <2>3. current' \in 0..Len(calls') /\ Len(calls') <= MaxCall
    BY <1>2, <2>1
  <2>4. settled' \in BOOLEAN /\ reconnect' \in BOOLEAN /\ attempt' \in 0..MaxAttempt
    BY <1>1, <1>2
  <2> QED
    BY <2>1, <2>2, <2>3, <2>4
<1>3. CASE Closed(AfterClose("unavailable"), tries) /\ UNCHANGED calls
  <2>1. AfterClose("unavailable") \in Shown(client)
    BY AfterCloseType DEF Causes
  <2>2. /\ current' = 0 /\ reconnect' \in BOOLEAN
        /\ shown' \in Shown(client') /\ attempt' \in 0..MaxAttempt
    BY <1>3, <2>1, ClosedType
  <2>3. current' \in 0..Len(calls')
    BY <1>3, <2>2
  <2> QED
    BY <1>1, <1>3, <2>2, <2>3
<1> QED
  BY <1>2, <1>3 DEF Open

\* The flags, the sequence of calls, the delay and what each client shows have
\* their types, for every bound.
THEOREM StreamsTypeCorrect == StreamsSpec => []StreamsTypeOK
<1>1. StreamsInit => StreamsTypeOK
  <2> SUFFICES ASSUME StreamsInit PROVE StreamsTypeOK
    OBVIOUS
  <2>1. client \in Client /\ streaming \in BOOLEAN /\ settled \in BOOLEAN /\ reconnect \in BOOLEAN
    BY DEF StreamsInit
  <2>2. calls \in Seq({"open", "cancelled", "half", "gone"}) /\ Len(calls) = 0
    BY DEF StreamsInit
  <2>3. shown \in Shown(client)
    BY DEF StreamsInit, Unspoken, Shown, Client
  <2> QED
    BY <2>1, <2>2, <2>3 DEF StreamsInit, StreamsTypeOK
<1>2. StreamsTypeOK /\ [StreamsNext]_streamsVars => StreamsTypeOK'
  <2> SUFFICES ASSUME StreamsTypeOK, [StreamsNext]_streamsVars PROVE StreamsTypeOK'
    OBVIOUS
  <2>1. CASE StartStream
    BY <2>1, OpenType DEF StartStream
  <2>2. CASE Reconnect
    BY <2>2, OpenType DEF Reconnect, StreamsTypeOK
  <2>3. CASE StopStream
    <3>1. /\ calls' \in Seq({"open", "cancelled", "half", "gone"}) /\ Len(calls') = Len(calls)
      BY <2>3 DEF StopStream, StreamsTypeOK
    <3>2. shown' \in Shown(client')
      BY <2>3 DEF StopStream, StreamsTypeOK, Unspoken, Shown, Client
    <3>3. /\ UNCHANGED <<client, settled, attempt, oddities>>
          /\ streaming' = FALSE /\ reconnect' = FALSE /\ current' = 0
      BY <2>3 DEF StopStream
    <3>4. current' \in 0..Len(calls') /\ Len(calls') <= MaxCall
      BY <3>1, <3>3 DEF StreamsTypeOK
    <3> QED
      BY <3>1, <3>2, <3>3, <3>4 DEF StreamsTypeOK
  <2>4. ASSUME NEW i \in DOMAIN calls, NEW said \in Shown(client), Data(i, said)
        PROVE  StreamsTypeOK'
    BY <2>4 DEF Data, Serves, StreamsTypeOK
  <2>5. ASSUME NEW i \in DOMAIN calls, NEW cause \in Causes, Close(i, cause)
        PROVE  StreamsTypeOK'
    <3> USE DEF StreamsTypeOK
    <3>1. calls' \in Seq({"open", "cancelled", "half", "gone"}) /\ Len(calls') = Len(calls)
      BY <2>5 DEF Close, Last
    <3>2. /\ UNCHANGED <<client, streaming>> /\ settled' \in BOOLEAN
          /\ oddities' \subseteq {"crossed", "cancelled"}
      BY <2>5 DEF Close, Serves
    <3>3. CASE UNCHANGED <<current, attempt, reconnect, shown>>
      BY <3>1, <3>2, <3>3
    <3>4. CASE cause # "cancelled" /\ Closed(AfterClose(cause), attempt)
      BY <3>1, <3>2, <3>4, AfterCloseType, ClosedType
    <3> QED
      BY <2>5, <3>3, <3>4 DEF Close
  <2>6. ASSUME NEW i \in DOMAIN calls, Served(i) PROVE StreamsTypeOK'
    <3>1. CASE LinkData(i)
      BY <2>4, <3>1 DEF LinkData, Shown
    <3>2. CASE TelemetryData(i)
      <4>1. PICK message \in Messages : Data(i, shown \cup FieldsOf(message))
        BY <3>2 DEF TelemetryData
      <4>2. client = "telemetry" /\ shown \subseteq Fields /\ FieldsOf(message) \subseteq Fields
        BY <3>2 DEF TelemetryData, StreamsTypeOK, Shown, Fields
      <4> QED
        BY <2>4, <4>1, <4>2 DEF Shown
    <3>3. CASE IntentData(i)
      BY <2>4, <3>3 DEF IntentData, Shown
    <3>4. CASE LinkError(i) \/ TelemetryError(i) \/ IntentError(i) \/ StreamEnds(i)
      BY <2>5, <3>4 DEF LinkError, TelemetryError, IntentError, StreamEnds, Causes
    <3> QED
      BY <2>6, <3>1, <3>2, <3>3, <3>4 DEF Served
  <2>7. CASE UNCHANGED streamsVars
    BY <2>7 DEF streamsVars, clientVars, StreamsTypeOK
  <2> QED
    BY <2>1, <2>2, <2>3, <2>6, <2>7 DEF StreamsNext
<1> QED
  BY <1>1, <1>2, PTL DEF StreamsSpec
-----------------------------------------------------------------------------
\* StreamIsRetried: a running client has its stream open or its next attempt
\* scheduled, for any number of calls.  (MapperLinkStateClient.js:96-118)
THEOREM AStreamIsRetried == StreamsSpec => []StreamIsRetried
<1>1. StreamsInv => StreamIsRetried
  BY DEF StreamsInv, CallIsHeld, StreamIsRetried
<1> QED
  BY <1>1, StreamsAreHeld, PTL

\* NoStreamLeaks: the client holds every stream that is open at the drive program,
\* for any number of calls.  (MapperLinkStateClient.js:47-63)
THEOREM StreamsDoNotLeak == StreamsSpec => []NoStreamLeaks
<1>1. StreamsInv => NoStreamLeaks
  BY DEF StreamsInv, CallIsHeld, NoStreamLeaks
<1> QED
  BY <1>1, StreamsAreHeld, PTL

\* ClaimHasItsStream: the link is claimed up or down, and the diagnostics live, only
\* over a stream that is still there.  (MapperLinkStateClient.js:104-109)
THEOREM AClaimHasItsStream == StreamsSpec => []ClaimHasItsStream
<1>1. StreamsInv => ClaimHasItsStream
  BY DEF StreamsInv, CallIsHeld, ClaimIsOfTheCall, ClaimHasItsStream
<1> QED
  BY <1>1, StreamsAreHeld, PTL

HIDE StreamsAssumption
-----------------------------------------------------------------------------
(* The settings store.                                                     *)

Writing == {"tmp", "backup", "rename"}

\* Only save() and load() read through the recovery; what is about to be written
\* has no plaintext; and a patch writes the token it found.
WriteInv ==
    /\ stage \in {"restore", "restore-rename"} => call.method # "patch"
    /\ stage \in Writing => out.plain = None
    /\ stage \in {"backup", "rename"} => tmp = out
    /\ stage \in Writing /\ call.method = "patch" => out.token = file.token

\* The end of load(), reached only by save() and load(), writes no plaintext.
LEMMA LoadKeepsSecrets ==
    ASSUME NEW l, NEW session, call.method # "patch", LoadGives(l, session)
    PROVE  /\ stage' \in {"idle", "tmp"}
           /\ stage' = "tmp" => out'.plain = None /\ call'.method # "patch"
<1>1. ASSUME NEW m, Serialize(m), UNCHANGED call
      PROVE  stage' = "tmp" /\ out'.plain = None /\ call'.method # "patch"
  BY <1>1 DEF Serialize
<1>2. ASSUME Ends PROVE stage' = "idle"
  BY <1>2 DEF Ends
<1> QED
  BY <1>1, <1>2 DEF LoadGives

LEMMA LoadOnKeepsSecrets ==
    ASSUME NEW doc, call.method # "patch", LoadOn(doc)
    PROVE  WriteInv'
<1>1. ASSUME NEW m, Serialize(m), UNCHANGED call
      PROVE  stage' = "tmp" /\ out'.plain = None /\ call'.method # "patch"
  BY <1>1 DEF Serialize
<1>2. /\ stage' \in {"idle", "tmp"}
      /\ stage' = "tmp" => out'.plain = None /\ call'.method # "patch"
  BY <1>1, LoadKeepsSecrets DEF LoadOn
<1> QED
  BY <1>2 DEF WriteInv, Writing

LEMMA StoreKeepsSecrets == WriteInv /\ [StoreNext]_storeVars => WriteInv'
<1> SUFFICES ASSUME WriteInv, [StoreNext]_storeVars PROVE WriteInv'
  OBVIOUS
<1>1. ASSUME NEW method, NEW change, Begin(method, change) PROVE WriteInv'
  BY <1>1 DEF Begin, WriteInv, Writing
<1>2. ASSUME ReadUsable PROVE WriteInv'
  BY <1>2, LoadOnKeepsSecrets DEF ReadUsable
<1>3. ASSUME Quarantine PROVE WriteInv'
  BY <1>3 DEF Quarantine, WriteInv, Writing
<1>4. ASSUME RestoreNothing \/ RestoreWriteFails \/ RestoreRename \/ RestoreRenameFails
      PROVE  WriteInv'
  BY <1>4, LoadOnKeepsSecrets
     DEF RestoreNothing, RestoreWriteFails, RestoreRename, RestoreRenameFails, WriteInv
<1>5. ASSUME RestoreWrite PROVE WriteInv'
  BY <1>5 DEF RestoreWrite, WriteInv, Writing
<1>6. ASSUME PatchReads PROVE WriteInv'
  <2>1. /\ file \in Document /\ file.plain = None
        /\ out' = [file EXCEPT !.source = call.change[2]]
        /\ stage' = "tmp" /\ file' = file
    BY <1>6 DEF PatchReads, disk
  <2>2. out'.plain = None /\ out'.token = file'.token
    BY <2>1 DEF Document
  <2> QED
    BY <2>1, <2>2 DEF WriteInv, Writing
<1>7. ASSUME PatchDeclines \/ CommitSave \/ CommitPatch \/ WriteThrows \/ Restart
      PROVE  WriteInv'
  <2>1. stage' = "idle"
    BY <1>7 DEF PatchDeclines, CommitSave, CommitPatch, WriteThrows, Restart, Ends
  <2> QED
    BY <2>1 DEF WriteInv, Writing
<1>8. ASSUME WriteTmp \/ BackupCurrent PROVE WriteInv'
  BY <1>8 DEF WriteTmp, BackupCurrent, WriteInv, Writing
<1>9. ASSUME CommitMigration \/ MigrationFails PROVE WriteInv'
  <2>1. PICK session : LoadGives(held, session)
    BY <1>9 DEF CommitMigration, MigrationFails
  <2>2. call.method # "patch"
    BY <2>1 DEF LoadGives
  <2> QED
    BY <2>1, <2>2, LoadKeepsSecrets DEF WriteInv, Writing
<1>10. ASSUME Corrupt PROVE WriteInv'
  BY <1>10 DEF Corrupt, task, WriteInv, Writing
<1>11. ASSUME UNCHANGED storeVars PROVE WriteInv'
  BY <1>11 DEF storeVars, disk, task, WriteInv, Writing
<1> QED
  BY <1>1, <1>2, <1>3, <1>4, <1>5, <1>6, <1>7, <1>8, <1>9, <1>10, <1>11
     DEF StoreNext, StoreCalls, StoreSteps, Load, Save, PatchTelemetrySource

\* The copies of the settings file have no plaintext.
CopiesAreClean == \A d \in {bak, tmp} \cap Document : d.plain = None

\* SecretsAreHandled: whichever write fails, wherever the app is cut short and under
\* whatever account it comes back, no write and no copy carries a plaintext password
\* and race day's patch carries the token it found.
\* (settingsStore.js:100-128, 195-266, 325-378)
THEOREM SecretsStay == StoreSpec => SecretsAreHandled
<1> DEFINE Handled ==
        /\ \A d \in {bak', tmp'} \cap Document : d.plain = None
        /\ file' \in Document /\ file'.plain # None => file' = file
        /\ call.method = "patch" /\ file' # file /\ stage = "rename" =>
              file'.token = file.token
<1>1. StoreInit => WriteInv /\ CopiesAreClean
  BY ContentAssumption DEF StoreInit, NoCall, WriteInv, Writing, CopiesAreClean
<1>2. WriteInv /\ CopiesAreClean /\ [StoreNext]_storeVars => [Handled]_storeVars
  <2> SUFFICES ASSUME WriteInv, CopiesAreClean, StoreNext PROVE Handled
    OBVIOUS
  <2> USE ContentAssumption DEF CopiesAreClean
  <2>1. ASSUME Commit PROVE Handled
    BY <2>1 DEF Commit, WriteInv, Writing
  <2>2. ASSUME BackupCurrent PROVE Handled
    <3>1. file \in Document => [file EXCEPT !.plain = None].plain = None
      BY DEF Document
    <3> QED
      BY <2>2, <3>1 DEF BackupCurrent
  <2>3. ASSUME WriteTmp PROVE Handled
    BY <2>3 DEF WriteTmp, WriteInv, Writing
  <2>4. ASSUME Damage \/ UNCHANGED disk PROVE Handled
    BY <2>4 DEF Damage, disk
  <2>5. ASSUME Quarantine \/ RestoreWrite \/ RestoreWriteFails \/ RestoreRename
               \/ RestoreRenameFails \/ Corrupt
        PROVE  Handled
    BY <2>5 DEF Quarantine, RestoreWrite, RestoreWriteFails, RestoreRename,
                RestoreRenameFails, Corrupt
  <2>6. ASSUME \/ StoreCalls \/ ReadUsable \/ RestoreNothing \/ PatchReads
               \/ PatchDeclines \/ MigrationFails \/ WriteThrows \/ Restart
        PROVE  Damage \/ UNCHANGED disk
    BY <2>6 DEF StoreCalls, Load, Save, PatchTelemetrySource, Begin, ReadUsable,
                RestoreNothing, PatchReads, PatchDeclines, MigrationFails,
                WriteThrows, Restart
  <2> QED
    BY <2>1, <2>2, <2>3, <2>4, <2>5, <2>6
       DEF StoreNext, StoreSteps, CommitMigration, CommitSave, CommitPatch
<1>3. CopiesAreClean /\ [Handled]_storeVars => CopiesAreClean'
  BY DEF CopiesAreClean, storeVars, disk
<1> QED
  BY <1>1, <1>2, <1>3, StoreKeepsSecrets, PTL DEF StoreSpec, SecretsAreHandled

Secret == Password \cup {None}
ConfigOf(doc) == IF doc = Absent THEN Default ELSE doc.config

\* What is written and what is held while it is written are whole documents.
StoreTypeInv ==
    /\ SettingsTypeOK
    /\ stage \in Writing => out \in Document
    /\ stage \in Writing /\ call.method # "patch" => held \in Logical
    /\ stage = "restore-rename" => bak \in Document
    /\ stage \in {"restore", "restore-rename"} => call.method # "patch"
    /\ call.method = "patch" => call.change[2] \in TelemetrySource

LEMMA PlaintextType ==
    ASSUME SettingsTypeOK, NEW doc \in Document
    PROVE  Plaintext(doc) \in Secret
<1>1. doc.token \in Token /\ doc.plain \in Secret /\ sessionPassword \in Secret
  BY DEF Document, SettingsTypeOK, Secret
<1>2. doc.token # None => doc.token[1] \in Password
  BY <1>1 DEF Token
<1> QED
  BY <1>1, <1>2 DEF Plaintext, Reveals, Secret

LEMMA LogicalType ==
    ASSUME SettingsTypeOK, NEW doc \in Document \cup {Absent}
    PROVE  LogicalOf(doc) \in Logical /\ LogicalOf(doc).config = ConfigOf(doc)
<1>1. CASE doc = Absent
  BY <1>1 DEF LogicalOf, ConfigOf, Logical, SettingsTypeOK, TelemetrySource
<1>2. CASE doc # Absent
  <2>1. doc \in Document
    BY <1>2
  <2>2. doc.config \in Config \cup {Default} /\ doc.source \in TelemetrySource
    BY <2>1 DEF Document
  <2>3. Plaintext(doc) \in Secret
    BY <2>1, PlaintextType
  <2> QED
    BY <1>2, <2>2, <2>3 DEF LogicalOf, ConfigOf, Logical, Secret
<1> QED
  BY <1>1, <1>2

LEMMA SessionType ==
    ASSUME SettingsTypeOK, NEW doc \in Document
    PROVE  SessionAfter(doc) \in Secret
  BY PlaintextType DEF SessionAfter, SettingsTypeOK, Secret

LEMMA MergedType ==
    ASSUME NEW l \in Logical, NEW change \in Change
    PROVE  /\ Merged(l, change) \in Logical
           /\ Merged(l, change).config = l.config \/ change = <<"config", Merged(l, change).config>>
<1>1. CASE change = <<"nothing", None>>
  BY <1>1 DEF Merged, Logical
<1>2. CASE change \in {"config"} \X Config
  BY <1>2 DEF Merged, Logical
<1>3. CASE change \in {"password"} \X (Password \cup {None})
  BY <1>3 DEF Merged, Logical
<1>4. CASE change \in {<<"source", "mapper-grpc">>}
  BY <1>4 DEF Merged, Logical, TelemetrySource
<1> QED
  BY <1>1, <1>2, <1>3, <1>4 DEF Change

\* serialize() makes a whole document with the settings' choices in it.
SerializeResult(l) ==
    /\ stage' = "tmp" /\ held' = l
    /\ out' \in Document /\ out'.config = l.config
    /\ sessionPassword' \in Secret

LEMMA SerializeType ==
    ASSUME SettingsTypeOK, NEW l \in Logical, Serialize(l)
    PROVE  SerializeResult(l)
<1>1. /\ l.config \in Config \cup {Default} /\ l.source \in TelemetrySource
      /\ l.password \in Secret /\ account \in Account
  BY DEF Logical, SettingsTypeOK, Secret
<1>2. PICK ok \in IF l.password # None /\ available THEN BOOLEAN ELSE {FALSE} :
        /\ out' = [config |-> l.config, source |-> l.source, plain |-> None,
                   token |-> IF ok THEN <<l.password, account>> ELSE None]
        /\ sessionPassword' = IF ok THEN None ELSE l.password
        /\ stage' = "tmp"
        /\ held' = l
  BY DEF Serialize
<1>3. (IF ok THEN <<l.password, account>> ELSE None) \in Token
  <2>1. CASE ok = FALSE
    BY <2>1 DEF Token
  <2>2. CASE ok # FALSE
    BY <1>1, <1>2, <2>2 DEF Token, Secret
  <2> QED
    BY <2>1, <2>2
<1>4. sessionPassword' \in Secret
  BY <1>1, <1>2 DEF Secret
<1> QED
  BY <1>1, <1>2, <1>3, <1>4 DEF Document, SerializeResult

\* What the end of load() leaves, c being the choices it read.
LoadResult(c) ==
    /\ sessionPassword' \in Secret
    /\ \/ /\ stage' = "tmp" /\ out' \in Document
          /\ held' \in Logical /\ held'.config = out'.config
          /\ held'.config = c \/ call.change = <<"config", held'.config>>
          /\ migrating' = FALSE \/ (migrating' = TRUE /\ held'.config = c)
          /\ UNCHANGED <<call, answer>>
       \/ Ends /\ answer' \in Logical /\ answer'.config = c

LEMMA LoadGivesType ==
    ASSUME SettingsTypeOK, NEW l \in Logical, NEW session \in Secret,
           LoadGives(l, session)
    PROVE  LoadResult(l.config)
<1>1. CASE Serialize(Merged(l, call.change)) /\ migrating' = FALSE /\ UNCHANGED <<call, answer>>
  <2>1. call.change \in Change
    BY DEF SettingsTypeOK
  <2>2. /\ Merged(l, call.change) \in Logical
        /\ \/ Merged(l, call.change).config = l.config
           \/ call.change = <<"config", Merged(l, call.change).config>>
    BY <2>1, MergedType
  <2>3. SerializeResult(Merged(l, call.change))
    BY <1>1, <2>2, SerializeType
  <2> QED
    BY <1>1, <2>2, <2>3 DEF SerializeResult, LoadResult
<1>2. CASE Ends /\ answer' = l /\ sessionPassword' = session
  BY <1>2 DEF LoadResult
<1> QED
  BY <1>1, <1>2 DEF LoadGives

LEMMA LoadOnType ==
    ASSUME SettingsTypeOK, NEW doc \in Document \cup {Absent}, LoadOn(doc)
    PROVE  LoadResult(ConfigOf(doc))
<1>1. LogicalOf(doc) \in Logical /\ LogicalOf(doc).config = ConfigOf(doc)
  BY LogicalType
<1>2. CASE Serialize(LogicalOf(doc)) /\ migrating' = TRUE /\ UNCHANGED <<call, answer>>
  <2>1. SerializeResult(LogicalOf(doc))
    BY <1>1, <1>2, SerializeType
  <2> QED
    BY <1>1, <1>2, <2>1 DEF SerializeResult, LoadResult
<1>3. CASE LoadGives(LogicalOf(doc), IF doc = Absent THEN sessionPassword ELSE SessionAfter(doc))
  <2>1. (IF doc = Absent THEN sessionPassword ELSE SessionAfter(doc)) \in Secret
    BY SessionType DEF SettingsTypeOK, Secret
  <2> QED
    BY <1>1, <1>3, <2>1, LoadGivesType
<1> QED
  BY <1>2, <1>3 DEF LoadOn

HistoryType ==
    kept \in Config \cup {Default} /\ mishaps \subseteq {"corrupt", "recovery", "session"}

\* What follows the end of load() has its types, whatever the disk has become.
LEMMA LoadedType ==
    ASSUME StoreTypeInv, call.method # "patch", NEW c, LoadResult(c),
           {file', bak', tmp'} \subseteq Content, UNCHANGED machine,
           recovery' \in {"ok", "restored-from-backup", "reset-to-defaults"},
           HistoryType'
    PROVE  StoreTypeInv'
<1> USE DEF HistoryType
<1>1. account' \in Account /\ available' \in BOOLEAN
  BY DEF machine, StoreTypeInv, SettingsTypeOK
<1>2. /\ stage' \in {"idle", "tmp"}
      /\ call' \in [method : {"none", "load", "save", "patch"}, change : Change]
      /\ call'.method # "patch"
  BY DEF LoadResult, Ends, NoCall, Change, StoreTypeInv, SettingsTypeOK
<1>3. held' \in Logical \cup {None} /\ out' \in Document \cup {None} /\ answer' \in Logical \cup {None}
  BY DEF LoadResult, Ends, StoreTypeInv, SettingsTypeOK
<1>4. migrating' \in BOOLEAN /\ sessionPassword' \in Password \cup {None}
  BY DEF LoadResult, Ends, Secret
<1>5. stage' = "tmp" => out' \in Document /\ held' \in Logical
  BY DEF LoadResult, Ends
<1> QED
  BY <1>1, <1>2, <1>3, <1>4, <1>5 DEF StoreTypeInv, SettingsTypeOK, Stages, Writing

LEMMA StoreTypes == StoreTypeInv /\ [StoreNext]_storeVars => StoreTypeInv'
<1> SUFFICES ASSUME StoreTypeInv, [StoreNext]_storeVars PROVE StoreTypeInv'
  OBVIOUS
<1> USE DEF HistoryType
<1>0. SettingsTypeOK
  BY DEF StoreTypeInv
<1>1. ASSUME NEW method \in {"load", "save", "patch"}, NEW change \in Change,
             method = "patch" => change[2] \in TelemetrySource, Begin(method, change)
      PROVE  StoreTypeInv'
  BY <1>1 DEF Begin, disk, machine, memory, StoreTypeInv, SettingsTypeOK, Stages, Writing
<1>2. Load \/ Save \/ PatchTelemetrySource => StoreTypeInv'
  <2>1. <<"nothing", None>> \in Change /\ <<"source", "mapper-grpc">> \in Change
    BY DEF Change
  <2> QED
    BY <1>1, <2>1 DEF Load, Save, PatchTelemetrySource, TelemetrySource
<1>3. ASSUME ReadUsable PROVE StoreTypeInv'
  <2>1. file \in Document \cup {Absent}
    BY <1>0, <1>3 DEF ReadUsable, SettingsTypeOK, Content
  <2>2. LoadResult(ConfigOf(file))
    BY <1>0, <1>3, <2>1, LoadOnType DEF ReadUsable
  <2> QED
    BY <1>0, <1>3, <2>2, LoadedType DEF ReadUsable, disk, storeHistory, SettingsTypeOK
<1>4. ASSUME Quarantine PROVE StoreTypeInv'
  BY <1>4 DEF Quarantine, machine, memory, storeHistory, StoreTypeInv, SettingsTypeOK, Stages,
              Writing, Content
<1>5. ASSUME RestoreNothing PROVE StoreTypeInv'
  <2>1. LoadResult(ConfigOf(Absent)) /\ call.method # "patch"
    BY <1>0, <1>5, LoadOnType DEF RestoreNothing, StoreTypeInv
  <2> QED
    BY <1>0, <1>5, <2>1, LoadedType DEF RestoreNothing, disk, storeHistory, SettingsTypeOK
<1>6. ASSUME RestoreWrite PROVE StoreTypeInv'
  BY <1>6 DEF RestoreWrite, machine, memory, storeHistory, StoreTypeInv, SettingsTypeOK,
              Stages, Writing, Content
<1>7. ASSUME RestoreWriteFails \/ RestoreRename \/ RestoreRenameFails PROVE StoreTypeInv'
  <2>1. LoadResult(ConfigOf(bak)) /\ call.method # "patch"
    BY <1>0, <1>7, LoadOnType
       DEF RestoreWriteFails, RestoreRename, RestoreRenameFails, StoreTypeInv
  <2>2. {file', bak', tmp'} \subseteq Content /\ HistoryType'
    BY <1>0, <1>7 DEF RestoreWriteFails, RestoreRename, RestoreRenameFails,
                      storeHistory, SettingsTypeOK, Content
  <2>3. UNCHANGED machine /\ recovery' = "restored-from-backup"
    BY <1>7 DEF RestoreWriteFails, RestoreRename, RestoreRenameFails
  <2> QED
    BY <2>1, <2>2, <2>3, LoadedType
<1>8. ASSUME PatchReads PROVE StoreTypeInv'
  <2>1. /\ file \in Document /\ stage' = "tmp" /\ call' = call /\ call.method = "patch"
        /\ out' = [file EXCEPT !.source = call.change[2]]
        /\ UNCHANGED <<disk, machine, memory, migrating, held, answer, storeHistory>>
    BY <1>8 DEF PatchReads
  <2>2. call.change[2] \in TelemetrySource
    BY <1>8 DEF PatchReads, StoreTypeInv
  <2>3. out' \in Document
    BY <2>1, <2>2 DEF Document
  <2> QED
    BY <2>1, <2>3
       DEF disk, machine, memory, storeHistory, StoreTypeInv, SettingsTypeOK, Stages, Writing
<1>9. ASSUME PatchDeclines PROVE StoreTypeInv'
  BY <1>9 DEF PatchDeclines, Ends, NoCall, disk, machine, memory, storeHistory,
              StoreTypeInv, SettingsTypeOK, Stages, Writing, Change
<1>10. ASSUME WriteTmp PROVE StoreTypeInv'
  BY <1>10 DEF WriteTmp, machine, memory, storeHistory, StoreTypeInv, SettingsTypeOK,
               Stages, Writing, Content
<1>11. ASSUME BackupCurrent PROVE StoreTypeInv'
  <2>1. bak' \in Content
    BY <1>0, <1>11 DEF BackupCurrent, SettingsTypeOK, Content, Document
  <2> QED
    BY <1>11, <2>1 DEF BackupCurrent, machine, memory, storeHistory, StoreTypeInv,
                       SettingsTypeOK, Stages, Writing
<1>21. ASSUME Commit PROVE kept' \in Config \cup {Default}
  <2>1. file \in Document => file.config \in Config \cup {Default}
    BY DEF Document
  <2> QED
    BY <1>0, <1>21, <2>1 DEF Commit, SettingsTypeOK
<1>12. ASSUME CommitMigration PROVE StoreTypeInv'
  <2>1. call.method # "patch" /\ held \in Logical /\ held.config = held.config
    BY <1>12 DEF CommitMigration, Commit, LoadGives, StoreTypeInv, Writing
  <2>2. LoadResult(held.config)
    BY <1>0, <1>12, <2>1, LoadGivesType DEF CommitMigration, SettingsTypeOK, Secret
  <2> QED
    BY <1>0, <1>12, <1>21, <2>1, <2>2, LoadedType
       DEF CommitMigration, Commit, storeHistory, SettingsTypeOK, Content
<1>13. ASSUME CommitSave \/ CommitPatch PROVE StoreTypeInv'
  <2>1. call.method = "save" => held \in Logical
    BY <1>13 DEF CommitSave, CommitPatch, Commit, StoreTypeInv, Writing
  <2>2. {file', bak', tmp'} \subseteq Content
    BY <1>0, <1>13 DEF CommitSave, CommitPatch, Commit, SettingsTypeOK, Content
  <2>3. /\ UNCHANGED <<account, available, recovery>> /\ sessionPassword' = sessionPassword
        /\ mishaps' = mishaps
    BY <1>13 DEF CommitSave, CommitPatch, Commit, machine, storeHistory
  <2>4. answer' \in Logical \cup {None}
    BY <1>0, <1>13, <2>1 DEF CommitSave, CommitPatch, SettingsTypeOK
  <2>5. Ends
    BY <1>13 DEF CommitSave, CommitPatch
  <2> QED
    BY <1>0, <1>13, <1>21, <2>2, <2>3, <2>4, <2>5
       DEF CommitSave, CommitPatch, Ends, NoCall, StoreTypeInv, SettingsTypeOK, Stages,
           Writing, Change
<1>14. ASSUME Damage PROVE {file', bak', tmp'} \subseteq Content
  BY <1>0, <1>14 DEF Damage, SettingsTypeOK, Content
<1>15. HistoryType
  BY <1>0 DEF HistoryType, SettingsTypeOK
<1>16. ASSUME MigrationFails PROVE StoreTypeInv'
  <2>1. call.method # "patch" /\ held \in Logical
    BY <1>16 DEF MigrationFails, LoadGives, StoreTypeInv, Writing
  <2>2. (IF held.password # None THEN held.password ELSE sessionPassword) \in Secret
    BY <1>0, <2>1 DEF Logical, SettingsTypeOK, Secret
  <2>3. LoadResult(held.config)
    BY <1>0, <1>16, <2>1, <2>2, LoadGivesType DEF MigrationFails
  <2> QED
    BY <1>0, <1>14, <1>15, <1>16, <2>1, <2>3, LoadedType
       DEF MigrationFails, storeHistory, SettingsTypeOK
<1>17. ASSUME WriteThrows PROVE StoreTypeInv'
  BY <1>14, <1>15, <1>17
     DEF WriteThrows, Ends, NoCall, machine, memory, StoreTypeInv, SettingsTypeOK, Stages,
         Writing, Change
<1>18. ASSUME Restart PROVE StoreTypeInv'
  <2>1. {file', bak', tmp'} \subseteq Content /\ HistoryType'
    BY <1>0, <1>14, <1>15, <1>18 DEF Restart, disk, SettingsTypeOK
  <2> QED
    BY <1>18, <2>1 DEF Restart, Ends, NoCall, StoreTypeInv, SettingsTypeOK, Stages, Writing, Change
<1>19. ASSUME Corrupt PROVE StoreTypeInv'
  <2>1. stage = "idle" /\ {file', bak', tmp'} \subseteq Content
    BY <1>0, <1>19 DEF Corrupt, SettingsTypeOK, Content
  <2>2. UNCHANGED <<account, available, sessionPassword, recovery, stage, call, migrating,
                    held, out, answer>>
    BY <1>19 DEF Corrupt, machine, memory, task
  <2>3. HistoryType'
    BY <1>0, <1>19 DEF Corrupt, SettingsTypeOK
  <2> QED
    BY <2>1, <2>2, <2>3 DEF StoreTypeInv, SettingsTypeOK, Writing
<1>20. ASSUME UNCHANGED storeVars PROVE StoreTypeInv'
  BY <1>20 DEF storeVars, disk, machine, memory, task, storeHistory, StoreTypeInv,
               SettingsTypeOK, Writing
<1> QED
  BY <1>2, <1>3, <1>4, <1>5, <1>6, <1>7, <1>8, <1>9, <1>10, <1>11, <1>12, <1>13, <1>16,
     <1>17, <1>18, <1>19, <1>20
     DEF StoreNext, StoreCalls, StoreSteps

\* Where no hand spoils the file, every document at hand carries choices the
\* operator made, and no recovery is ever under way.
Chosen ==
    /\ file # Torn
    /\ stage \notin {"restore", "restore-rename"}
    /\ ConfigOf(file) \in promised
    /\ stage \in Writing => out.config \in promised
    /\ stage \in Writing /\ call.method # "patch" => held.config = out.config
    /\ call.change[1] = "config" => call.change[2] \in promised
    /\ answer # None => answer.config \in promised

ChosenInv == "corrupt" \notin mishaps => Chosen

LEMMA NoneIsNoDocument == Absent \notin Document /\ Torn \notin Document /\ Absent # Torn
  BY ContentAssumption

\* The end of load() shows, and hands on, choices that were promised.
LEMMA LoadedIsChosen ==
    ASSUME Chosen, NEW c \in promised, LoadResult(c), file' # Torn,
           ConfigOf(file') \in promised, promised' = promised
    PROVE  Chosen'
<1>1. CASE Ends /\ answer' \in Logical /\ answer'.config = c
  BY <1>1 DEF Ends, NoCall, Chosen, Writing, ConfigOf
<1>2. CASE /\ stage' = "tmp" /\ out' \in Document
           /\ held' \in Logical /\ held'.config = out'.config
           /\ held'.config = c \/ call.change = <<"config", held'.config>>
           /\ UNCHANGED <<call, answer>>
  <2>1. held'.config \in promised
    BY <1>2 DEF Chosen
  <2> QED
    BY <1>2, <2>1 DEF Chosen, Writing, ConfigOf
<1> QED
  BY <1>1, <1>2 DEF LoadResult

LEMMA StoreKeepsChosen ==
    StoreTypeInv /\ WriteInv /\ ChosenInv /\ [StoreNext]_storeVars => ChosenInv'
<1> SUFFICES ASSUME StoreTypeInv, WriteInv, ChosenInv, [StoreNext]_storeVars,
                    "corrupt" \notin mishaps'
             PROVE  Chosen'
  BY DEF ChosenInv
<1>1. "corrupt" \notin mishaps
  BY DEF StoreNext, StoreCalls, StoreSteps, Load, Save, PatchTelemetrySource, Begin, ReadUsable,
         Quarantine, RestoreNothing, RestoreWrite, RestoreWriteFails, RestoreRename,
         RestoreRenameFails, PatchReads, PatchDeclines, WriteTmp, BackupCurrent,
         CommitMigration, CommitSave, CommitPatch, MigrationFails, WriteThrows, Restart,
         Corrupt, storeHistory, storeVars
<1>2. Chosen
  BY <1>1 DEF ChosenInv
<1>3. SettingsTypeOK
  BY DEF StoreTypeInv
<1>4. ASSUME NEW method, NEW change, Begin(method, change) PROVE Chosen'
  BY <1>2, <1>4 DEF Begin, disk, Chosen, ConfigOf, Writing
<1>5. ASSUME ReadUsable PROVE Chosen'
  <2>1. file \in Document \cup {Absent}
    BY <1>3, <1>5 DEF ReadUsable, SettingsTypeOK, Content
  <2>2. LoadResult(ConfigOf(file))
    BY <1>3, <1>5, <2>1, LoadOnType DEF ReadUsable
  <2> QED
    BY <1>2, <1>5, <2>2, LoadedIsChosen DEF ReadUsable, disk, storeHistory, Chosen, ConfigOf
<1>6. ~(\/ Quarantine \/ RestoreNothing \/ RestoreWrite \/ RestoreWriteFails
        \/ RestoreRename \/ RestoreRenameFails)
  BY <1>2 DEF Quarantine, RestoreNothing, RestoreWrite, RestoreWriteFails, RestoreRename,
              RestoreRenameFails, Chosen
<1>7. ASSUME PatchReads PROVE Chosen'
  <2>1. /\ file \in Document /\ stage' = "tmp" /\ call.method = "patch"
        /\ out' = [file EXCEPT !.source = call.change[2]]
        /\ UNCHANGED <<file, call, answer, promised>>
    BY <1>7 DEF PatchReads, disk, storeHistory
  <2>2. out'.config = file.config
    BY <2>1 DEF Document
  <2>3. file.config \in promised
    BY <1>2, <2>1, NoneIsNoDocument DEF Chosen, ConfigOf
  <2> QED
    BY <1>2, <2>1, <2>2, <2>3 DEF Chosen, Writing, ConfigOf
<1>8. ASSUME PatchDeclines \/ WriteThrows PROVE Chosen'
  <2>1. Ends /\ UNCHANGED <<file, answer, promised>>
    BY <1>8 DEF PatchDeclines, WriteThrows, Damage, disk, storeHistory
  <2> QED
    BY <1>2, <2>1 DEF Ends, NoCall, Chosen, Writing, ConfigOf
<1>9. ASSUME WriteTmp \/ BackupCurrent PROVE Chosen'
  <2>1. stage \in Writing /\ stage' \in Writing
        /\ UNCHANGED <<file, call, held, out, answer, promised>>
    BY <1>9 DEF WriteTmp, BackupCurrent, Writing, storeHistory
  <2> QED
    BY <1>2, <1>9, <2>1 DEF WriteTmp, BackupCurrent, Chosen, ConfigOf, Writing
<1>10. ASSUME Commit PROVE file' = out /\ file' \in Document /\ ConfigOf(file') = out.config
  <2>1. file' = out /\ out \in Document
    BY <1>10 DEF Commit, WriteInv, StoreTypeInv, Writing
  <2> QED
    BY <2>1, NoneIsNoDocument DEF ConfigOf
<1>11. ASSUME CommitMigration PROVE Chosen'
  <2>1. call.method # "patch" /\ held \in Logical /\ stage \in Writing
    BY <1>11 DEF CommitMigration, Commit, LoadGives, StoreTypeInv, Writing
  <2>2. LoadResult(held.config)
    BY <1>3, <1>11, <2>1, LoadGivesType DEF CommitMigration, SettingsTypeOK, Secret
  <2>3. held.config = out.config /\ out.config \in promised
    BY <1>2, <2>1 DEF Chosen
  <2>4. file' # Torn /\ ConfigOf(file') \in promised /\ promised' = promised
    BY <1>10, <1>11, <2>3, NoneIsNoDocument DEF CommitMigration, storeHistory
  <2> QED
    BY <1>2, <2>2, <2>3, <2>4, LoadedIsChosen
<1>12. ASSUME CommitSave PROVE Chosen'
  <2>1. stage \in Writing /\ call.method = "save" /\ promised' = {held.config}
        /\ answer' = held /\ Ends
    BY <1>12 DEF CommitSave, Commit, Writing
  <2>2. held.config = out.config
    BY <1>2, <2>1 DEF Chosen
  <2>3. file' # Torn /\ ConfigOf(file') = out.config
    BY <1>10, <1>12, NoneIsNoDocument DEF CommitSave
  <2> QED
    BY <2>1, <2>2, <2>3 DEF Ends, NoCall, Chosen, Writing, ConfigOf
<1>13. ASSUME CommitPatch PROVE Chosen'
  <2>1. stage \in Writing /\ Ends /\ UNCHANGED <<answer, promised>>
    BY <1>13 DEF CommitPatch, Commit, Writing, storeHistory
  <2>2. file' # Torn /\ ConfigOf(file') \in promised
    BY <1>2, <1>10, <1>13, <2>1, NoneIsNoDocument DEF CommitPatch, Chosen
  <2> QED
    BY <1>2, <2>1, <2>2 DEF Ends, NoCall, Chosen, Writing, ConfigOf
<1>14. ASSUME MigrationFails PROVE Chosen'
  <2>1. call.method # "patch" /\ held \in Logical /\ stage \in Writing
    BY <1>14 DEF MigrationFails, LoadGives, StoreTypeInv, Writing
  <2>2. (IF held.password # None THEN held.password ELSE sessionPassword) \in Secret
    BY <1>3, <2>1 DEF Logical, SettingsTypeOK, Secret
  <2>3. LoadResult(held.config)
    BY <1>3, <1>14, <2>1, <2>2, LoadGivesType DEF MigrationFails
  <2>4. held.config \in promised
    BY <1>2, <2>1 DEF Chosen
  <2> QED
    BY <1>2, <1>14, <2>3, <2>4, LoadedIsChosen
       DEF MigrationFails, Damage, storeHistory, Chosen, ConfigOf
<1>15. ASSUME Restart PROVE Chosen'
  <2>1. UNCHANGED <<file, promised>> /\ answer' = None /\ Ends
    BY <1>15 DEF Restart, Damage, disk
  <2> QED
    BY <1>2, <2>1 DEF Ends, NoCall, Chosen, Writing, ConfigOf
<1>16. ~Corrupt
  BY DEF Corrupt
<1>17. ASSUME UNCHANGED storeVars PROVE Chosen'
  BY <1>2, <1>17 DEF storeVars, disk, task, storeHistory, Chosen, Writing, ConfigOf
<1> QED
  BY <1>4, <1>5, <1>6, <1>7, <1>8, <1>9, <1>11, <1>12, <1>13, <1>14, <1>15, <1>16, <1>17
     DEF StoreNext, StoreCalls, StoreSteps, Load, Save, PatchTelemetrySource

\* A first document has no backup yet; a migration and a patch rewrite the choices
\* they found; the backup a write leaves is of the document it replaces.
Answered ==
    /\ bak \in Document /\ file \in Document => file.config \in promised \cup {bak.config}
    /\ bak \in Document /\ file = Absent => stage \in {"restore", "restore-rename"}
    /\ bak \in Document /\ answer # None => answer.config \in promised \cup {bak.config}
    /\ file \in Document /\ answer # None => answer.config \in promised \cup {file.config}
    /\ stage \in Writing /\ file \notin Document => bak \notin Document
    /\ stage \in Writing /\ (migrating \/ call.method = "patch") =>
          file \in Document /\ out.config = file.config
    /\ stage \in Writing /\ call.method # "patch" => held.config = out.config
    /\ stage = "rename" /\ file \in Document => bak \in Document /\ bak.config = file.config
    /\ stage \in {"restore", "restore-rename"} => file \in {Absent, Torn}
    /\ stage = "restore-rename" => tmp = bak
    /\ call.change[1] = "config" => call.change[2] \in promised

\* No document at hand is older than the choices the last write replaced.
Recent ==
    /\ file \in Document => file.config \in promised \cup {kept}
    /\ bak \in Document => bak.config \in promised \cup {kept}

AnsweredInv == "recovery" \notin mishaps => Answered /\ Recent

\* The end of load() shows the choices of the document it leaves behind, or the
\* defaults where there is neither a document nor a backup.
LEMMA LoadedIsAnswered ==
    ASSUME Answered, call.method # "patch", NEW c, LoadResult(c), UNCHANGED promised,
           bak' = bak \/ bak' \notin Document,
           \/ file' \in Document /\ file'.config = c
           \/ file' \notin Document /\ bak' \notin Document /\ migrating' = FALSE,
           file' \in Document /\ answer # None => answer.config \in promised \cup {c},
           bak' \in Document => c \in promised \cup {bak'.config}
    PROVE  Answered'
<1>1. CASE Ends /\ answer' \in Logical /\ answer'.config = c
  BY <1>1, NoneIsNoDocument DEF Ends, NoCall, Answered, Writing
<1>2. CASE /\ stage' = "tmp" /\ out' \in Document
           /\ held' \in Logical /\ held'.config = out'.config
           /\ held'.config = c \/ call.change = <<"config", held'.config>>
           /\ migrating' = FALSE \/ (migrating' = TRUE /\ held'.config = c)
           /\ UNCHANGED <<call, answer>>
  <2>1. stage' \in Writing /\ stage' \notin {"rename", "restore", "restore-rename"}
        /\ call'.method # "patch"
    BY <1>2 DEF Writing
  <2>2. file' \notin Document => bak' \notin Document
    OBVIOUS
  <2>3. migrating' => file' \in Document /\ out'.config = (file').config
    BY <1>2
  <2>4. /\ bak' \in Document /\ file' \in Document => (file').config \in promised' \cup {(bak').config}
        /\ bak' \in Document => file' # Absent
        /\ bak' \in Document /\ answer' # None => (answer').config \in promised' \cup {(bak').config}
        /\ file' \in Document /\ answer' # None => (answer').config \in promised' \cup {(file').config}
    BY <1>2, NoneIsNoDocument DEF Answered
  <2>5. (call'.change)[1] = "config" => (call'.change)[2] \in promised'
    BY <1>2 DEF Answered
  <2> QED
    BY <1>2, <2>1, <2>2, <2>3, <2>4, <2>5 DEF Answered
<1> QED
  BY <1>1, <1>2 DEF LoadResult

LEMMA StoreKeepsAnswers ==
    StoreTypeInv /\ WriteInv /\ AnsweredInv /\ [StoreNext]_storeVars => AnsweredInv'
<1> SUFFICES ASSUME StoreTypeInv, WriteInv, AnsweredInv, [StoreNext]_storeVars,
                    "recovery" \notin mishaps'
             PROVE  Answered' /\ Recent'
  BY DEF AnsweredInv
<1>1. /\ "recovery" \notin mishaps
      /\ ~(RestoreWriteFails \/ RestoreRenameFails)
      /\ Restart => stage \notin {"restore", "restore-rename"}
  BY DEF StoreNext, StoreCalls, StoreSteps, Load, Save, PatchTelemetrySource, Begin, ReadUsable,
         Quarantine, RestoreNothing, RestoreWrite, RestoreWriteFails, RestoreRename,
         RestoreRenameFails, PatchReads, PatchDeclines, WriteTmp, BackupCurrent,
         CommitMigration, CommitSave, CommitPatch, MigrationFails, WriteThrows, Restart,
         Corrupt, storeHistory, storeVars
<1>2. Answered /\ Recent
  BY <1>1 DEF AnsweredInv
<1>3. SettingsTypeOK
  BY DEF StoreTypeInv
<1>4. ASSUME NEW method, NEW change, Begin(method, change) PROVE Answered'
  BY <1>2, <1>4 DEF Begin, disk, Answered, Writing
<1>5. ASSUME NEW doc \in Document \cup {Absent}, LoadOn(doc), call.method # "patch"
      PROVE  LoadResult(ConfigOf(doc)) /\ (doc = Absent => migrating' = FALSE)
  BY <1>3, <1>5, LoadOnType DEF LoadOn, LoadGives, Ends
<1>6. ASSUME ReadUsable PROVE Answered'
  <2>1. file \in Document \cup {Absent}
    BY <1>3, <1>6 DEF ReadUsable, SettingsTypeOK, Content
  <2>2. LoadResult(ConfigOf(file)) /\ (file = Absent => migrating' = FALSE)
    BY <1>5, <1>6, <2>1 DEF ReadUsable
  <2>3. stage = "read" /\ call.method # "patch" /\ UNCHANGED <<file, bak, promised>>
    BY <1>6 DEF ReadUsable, disk, storeHistory
  <2>4. CASE file = Absent
    <3>1. bak \notin Document
      BY <1>2, <2>3, <2>4 DEF Answered
    <3> QED
      BY <1>2, <2>2, <2>3, <2>4, <3>1, LoadedIsAnswered, NoneIsNoDocument
  <2>5. CASE file \in Document
    <3>1. ConfigOf(file) = file.config
      BY <2>5, NoneIsNoDocument DEF ConfigOf
    <3> QED
      BY <1>2, <2>2, <2>3, <2>5, <3>1, LoadedIsAnswered DEF Answered
  <2> QED
    BY <2>1, <2>4, <2>5
<1>7. ASSUME Quarantine PROVE Answered'
  BY <1>2, <1>7, NoneIsNoDocument DEF Quarantine, storeHistory, Answered, Writing
<1>8. ASSUME RestoreNothing PROVE Answered'
  <2>1. stage = "restore" /\ bak \notin Document /\ UNCHANGED <<file, bak, promised>>
    BY <1>8 DEF RestoreNothing, disk, storeHistory
  <2>2. call.method # "patch" /\ file \in {Absent, Torn}
    BY <1>2, <2>1 DEF Answered, StoreTypeInv
  <2>3. LoadResult(ConfigOf(Absent)) /\ migrating' = FALSE
    BY <1>5, <1>8, <2>2 DEF RestoreNothing
  <2> QED
    BY <1>2, <2>1, <2>2, <2>3, LoadedIsAnswered, NoneIsNoDocument
<1>9. ASSUME RestoreWrite PROVE Answered'
  BY <1>2, <1>9 DEF RestoreWrite, Answered, Writing, storeHistory
<1>10. ASSUME RestoreRename PROVE Answered'
  <2>1. stage = "restore-rename" /\ file' = tmp /\ UNCHANGED <<bak, promised>>
    BY <1>10 DEF RestoreRename, storeHistory
  <2>2. call.method # "patch" /\ tmp = bak /\ bak \in Document
    BY <1>2, <2>1 DEF Answered, StoreTypeInv
  <2>3. LoadResult(ConfigOf(bak)) /\ ConfigOf(bak) = bak.config
    BY <1>5, <1>10, <2>2, NoneIsNoDocument DEF RestoreRename, ConfigOf
  <2>4. answer # None => answer.config \in promised \cup {bak.config}
    BY <1>2, <2>2 DEF Answered
  <2> QED
    BY <1>2, <2>1, <2>2, <2>3, <2>4, LoadedIsAnswered
<1>11. ASSUME PatchReads PROVE Answered'
  <2>1. /\ file \in Document /\ stage' = "tmp" /\ call.method = "patch"
        /\ out' = [file EXCEPT !.source = call.change[2]]
        /\ UNCHANGED <<file, bak, tmp, call, answer, promised>>
    BY <1>11 DEF PatchReads, disk, storeHistory
  <2>2. out'.config = file.config
    BY <2>1 DEF Document
  <2> QED
    BY <1>2, <2>1, <2>2, NoneIsNoDocument DEF Answered, Writing
<1>12. ASSUME PatchDeclines PROVE Answered'
  <2>1. stage = "read" /\ Ends /\ UNCHANGED <<file, bak, tmp, answer, promised>>
    BY <1>12 DEF PatchDeclines, disk, storeHistory
  <2> QED
    BY <1>2, <2>1 DEF Ends, NoCall, Answered, Writing
<1>13. ASSUME WriteTmp PROVE Answered'
  BY <1>2, <1>13 DEF WriteTmp, Answered, Writing, storeHistory
<1>14. ASSUME BackupCurrent PROVE Answered'
  <2>1. /\ stage = "backup" /\ stage' = "rename"
        /\ bak' = IF file \in Document THEN [file EXCEPT !.plain = None] ELSE bak
        /\ UNCHANGED <<file, tmp, call, migrating, held, out, answer, promised>>
    BY <1>14 DEF BackupCurrent, storeHistory
  <2>2. CASE file \in Document
    <3>1. bak' \in Document /\ (bak').config = file.config
      BY <2>1, <2>2 DEF Document
    <3> QED
      BY <1>2, <2>1, <2>2, <3>1, NoneIsNoDocument DEF Answered, Writing
  <2>3. CASE file \notin Document
    <3>1. bak' = bak /\ bak \notin Document
      BY <1>2, <2>1, <2>3 DEF Answered, Writing
    <3> QED
      BY <1>2, <2>1, <2>3, <3>1, NoneIsNoDocument DEF Answered, Writing
  <2> QED
    BY <2>2, <2>3
<1>15. ASSUME Commit PROVE stage \in Writing /\ stage = "rename" /\ bak' = bak
                           /\ file' = out /\ file' \in Document /\ file' # Absent
  BY <1>15, NoneIsNoDocument DEF Commit, WriteInv, StoreTypeInv, Writing
<1>16. ASSUME CommitMigration PROVE Answered'
  <2>1. call.method # "patch" /\ held \in Logical /\ Commit /\ migrating /\ promised' = promised
    BY <1>16 DEF CommitMigration, Commit, LoadGives, StoreTypeInv, Writing, storeHistory
  <2>2. LoadResult(held.config)
    BY <1>3, <1>16, <2>1, LoadGivesType DEF CommitMigration, SettingsTypeOK, Secret
  <2>3. /\ file \in Document /\ out.config = file.config /\ held.config = out.config
        /\ bak \in Document /\ bak.config = file.config
    BY <1>2, <1>15, <2>1 DEF Answered
  <2>4. answer # None => answer.config \in promised \cup {held.config}
    BY <1>2, <2>3 DEF Answered
  <2> QED
    BY <1>2, <1>15, <2>1, <2>2, <2>3, <2>4, LoadedIsAnswered
<1>17. ASSUME CommitSave PROVE Answered'
  <2>1. Commit /\ call.method = "save" /\ promised' = {held.config} /\ answer' = held /\ Ends
    BY <1>17 DEF CommitSave
  <2>2. held.config = out.config
    BY <1>2, <1>15, <2>1 DEF Answered
  <2> QED
    BY <1>15, <2>1, <2>2 DEF Ends, NoCall, Answered, Writing
<1>18. ASSUME CommitPatch PROVE Answered'
  <2>1. Commit /\ call.method = "patch" /\ Ends /\ UNCHANGED <<answer, promised>>
    BY <1>18 DEF CommitPatch, storeHistory
  <2>2. /\ file \in Document /\ out.config = file.config
        /\ bak \in Document /\ bak.config = file.config
    BY <1>2, <1>15, <2>1 DEF Answered
  <2> QED
    BY <1>2, <1>15, <2>1, <2>2 DEF Ends, NoCall, Answered, Writing
<1>19. ASSUME Damage \/ UNCHANGED disk
       PROVE  file' = file /\ (bak' = bak \/ bak' \notin Document)
  BY <1>19, NoneIsNoDocument DEF Damage, disk
<1>20. ASSUME Restart \/ WriteThrows PROVE Answered'
  <2>1. /\ Damage \/ UNCHANGED disk
        /\ promised' = promised /\ answer' \in {None, answer} /\ Ends
        /\ stage \notin {"restore", "restore-rename"}
    BY <1>1, <1>20 DEF Restart, WriteThrows
  <2> QED
    BY <1>2, <1>19, <2>1 DEF Ends, NoCall, Answered, Writing
<1>21. ASSUME MigrationFails PROVE Answered'
  <2>1. call.method # "patch" /\ held \in Logical /\ stage \in Writing /\ migrating
        /\ Damage /\ promised' = promised
    BY <1>21 DEF MigrationFails, LoadGives, StoreTypeInv, Writing, storeHistory
  <2>2. (IF held.password # None THEN held.password ELSE sessionPassword) \in Secret
    BY <1>3, <2>1 DEF Logical, SettingsTypeOK, Secret
  <2>3. LoadResult(held.config)
    BY <1>3, <1>21, <2>1, <2>2, LoadGivesType DEF MigrationFails
  <2>4. /\ file \in Document /\ held.config = file.config
        /\ bak \in Document => held.config \in promised \cup {bak.config}
        /\ answer # None => answer.config \in promised \cup {held.config}
    BY <1>2, <2>1 DEF Answered
  <2> QED
    BY <1>2, <1>19, <2>1, <2>3, <2>4, LoadedIsAnswered
<1>22. ASSUME Corrupt PROVE Answered'
  <2>1. stage = "idle" /\ file' = Torn /\ UNCHANGED <<bak, stage, call, answer, promised>>
    BY <1>22 DEF Corrupt, task
  <2> QED
    BY <1>2, <2>1, NoneIsNoDocument DEF Answered, Writing
<1>23. ASSUME UNCHANGED storeVars PROVE Answered'
  BY <1>2, <1>23 DEF storeVars, disk, task, storeHistory, Answered, Writing
<1>24. Answered'
  BY <1>1, <1>4, <1>6, <1>7, <1>8, <1>9, <1>10, <1>11, <1>12, <1>13, <1>14, <1>16, <1>17,
     <1>18, <1>20, <1>21, <1>22, <1>23
     DEF StoreNext, StoreCalls, StoreSteps, Load, Save, PatchTelemetrySource
<1>25. ASSUME NEW method, NEW change, Begin(method, change) PROVE Recent'
  BY <1>2, <1>25 DEF Begin, disk, Recent
<1>26. ASSUME CommitMigration \/ CommitPatch PROVE Recent'
  <2>1. Commit /\ promised' = promised /\ (migrating \/ call.method = "patch")
    BY <1>26 DEF CommitMigration, CommitPatch
  <2>2. /\ file \in Document /\ out.config = file.config /\ kept' = file.config
        /\ bak \in Document /\ bak.config = file.config
    BY <1>2, <1>15, <2>1 DEF Answered, Commit
  <2> QED
    BY <1>15, <2>1, <2>2 DEF Recent
<1>27. ASSUME CommitSave PROVE Recent'
  <2>1. Commit /\ call.method = "save" /\ promised' = {held.config}
    BY <1>27 DEF CommitSave
  <2>2. held.config = out.config
    BY <1>2, <1>15, <2>1 DEF Answered
  <2>3. bak \in Document => file \in Document /\ bak.config = file.config
    BY <1>2, <1>15 , <2>1 DEF Answered
  <2>4. bak \in Document => kept' = bak.config
    BY <2>1, <2>3 DEF Commit
  <2> QED
    BY <1>15, <2>1, <2>2, <2>4 DEF Recent
<1>28. ASSUME BackupCurrent PROVE Recent'
  <2>1. file \in Document => [file EXCEPT !.plain = None].config = file.config
    BY DEF Document
  <2> QED
    BY <1>2, <1>28, <2>1 DEF BackupCurrent, storeHistory, Recent
<1>29. ASSUME RestoreRename PROVE Recent'
  BY <1>2, <1>29 DEF RestoreRename, storeHistory, Recent, Answered
<1>30. ASSUME \/ ReadUsable \/ Quarantine \/ RestoreNothing \/ RestoreWrite \/ PatchReads
              \/ PatchDeclines \/ WriteTmp \/ MigrationFails \/ WriteThrows \/ Restart
              \/ Corrupt \/ UNCHANGED storeVars
       PROVE  Recent'
  <2>1. /\ file' = file \/ file' \notin Document
        /\ bak' = bak \/ bak' \notin Document
    BY <1>30, NoneIsNoDocument
       DEF ReadUsable, Quarantine, RestoreNothing, RestoreWrite, PatchReads, PatchDeclines,
           WriteTmp, MigrationFails, WriteThrows, Restart, Corrupt, Damage, storeVars, disk
  <2>2. promised' = promised /\ kept' = kept
    BY <1>30
       DEF ReadUsable, Quarantine, RestoreNothing, RestoreWrite, PatchReads, PatchDeclines,
           WriteTmp, MigrationFails, WriteThrows, Restart, Corrupt, storeVars, storeHistory
  <2> QED
    BY <1>2, <2>1, <2>2 DEF Recent
<1>31. Recent'
  BY <1>1, <1>25, <1>26, <1>27, <1>28, <1>29, <1>30
     DEF StoreNext, StoreCalls, StoreSteps, Load, Save, PatchTelemetrySource
<1> QED
  BY <1>24, <1>31

\* What is at rest, with what the session remembers, is the password in use: of the
\* file between writes, of the document being written by a save.
Remembered ==
    /\ typed # None => file \in Document /\ file.plain = None
    /\ typed # None /\ answer # None => answer.password = typed
    /\ typed # None /\ (stage \notin Writing \/ call.method = "patch") => Plaintext(file) = typed
    /\ stage \in Writing /\ migrating => typed = None /\ call.method # "patch"
    /\ stage \in Writing /\ ~migrating /\ call.method = "save" =>
          /\ Plaintext(out) = held.password
          /\ call.change[1] = "password" => held.password = call.change[2]
          /\ call.change[1] # "password" /\ typed # None => held.password = typed
    /\ stage \notin Writing => migrating = FALSE
    /\ stage \in Writing /\ ~migrating => call.method \in {"save", "patch"}
    /\ typed # None /\ Reveals(file.token) => file.token[1] = typed

RememberedInv == mishaps \cap {"corrupt", "session"} = {} => Remembered

LEMMA SerializeRemembers ==
    ASSUME SettingsTypeOK, NEW l \in Logical, Serialize(l), UNCHANGED machine
    PROVE  Plaintext(out)' = l.password /\ (held').password = l.password
<1>1. PICK ok \in IF l.password # None /\ available THEN BOOLEAN ELSE {FALSE} :
        /\ out' = [config |-> l.config, source |-> l.source, plain |-> None,
                   token |-> IF ok THEN <<l.password, account>> ELSE None]
        /\ sessionPassword' = IF ok THEN None ELSE l.password
        /\ held' = l
  BY DEF Serialize
<1>2. l.password \in Secret /\ account \in Account /\ account' = account
      /\ (available' <=> available)
  BY DEF Logical, SettingsTypeOK, Secret, machine
<1>3. CASE ok = TRUE
  <2>1. l.password # None /\ available
    BY <1>1, <1>3
  <2>2. <<l.password, account>> # None
    BY <1>2, <2>1, StoreAssumption DEF Secret
  <2> QED
    BY <1>1, <1>2, <1>3, <2>1, <2>2 DEF Plaintext, Reveals
<1>4. CASE ok = FALSE
  BY <1>1, <1>2, <1>4 DEF Plaintext, Reveals
<1> QED
  BY <1>1, <1>3, <1>4

\* The merge touches the password only when the change is the password.
LEMMA MergedSecret ==
    ASSUME NEW l \in Logical, NEW change \in Change
    PROVE  Merged(l, change).password = IF change[1] = "password" THEN change[2] ELSE l.password
<1>1. CASE change = <<"nothing", None>>
  BY <1>1 DEF Merged, Logical
<1>2. CASE change \in {"config"} \X Config
  BY <1>2 DEF Merged, Logical
<1>3. CASE change \in {"password"} \X (Password \cup {None})
  BY <1>3 DEF Merged, Logical
<1>4. CASE change \in {<<"source", "mapper-grpc">>}
  BY <1>4 DEF Merged, Logical
<1> QED
  BY <1>1, <1>2, <1>3, <1>4 DEF Change

LEMMA LoadedRemembers ==
    ASSUME SettingsTypeOK, Remembered, NEW l \in Logical, NEW session, LoadGives(l, session),
           UNCHANGED <<machine, typed>>,
           typed # None => /\ file' \in Document /\ (file').plain = None
                           /\ l.password = typed
                           /\ call.method = "load" => Plaintext(file)' = typed
                           /\ Reveals(file.token)' => (file').token[1] = typed
    PROVE  Remembered'
<1>1. CASE /\ call.method = "save"
           /\ Serialize(Merged(l, call.change))
           /\ migrating' = FALSE
           /\ UNCHANGED <<call, answer>>
  <2>1. call.change \in Change
    BY DEF SettingsTypeOK
  <2>2. Merged(l, call.change) \in Logical
    BY <2>1, MergedType
  <2>3. Plaintext(out)' = Merged(l, call.change).password
        /\ (held').password = Merged(l, call.change).password
    BY <1>1, <2>2, SerializeRemembers
  <2>4. Merged(l, call.change).password
          = IF call.change[1] = "password" THEN call.change[2] ELSE l.password
    BY <2>1, MergedSecret
  <2>5. stage' = "tmp"
    BY <1>1 DEF Serialize
  <2> QED
    BY <1>1, <2>3, <2>4, <2>5 DEF Remembered, Writing
<1>2. CASE /\ call.method = "load"
           /\ Ends
           /\ answer' = l
           /\ sessionPassword' = session
  BY <1>2 DEF Ends, NoCall, Remembered, Writing
<1> QED
  BY <1>1, <1>2 DEF LoadGives

LEMMA StoreRemembers ==
    StoreTypeInv /\ WriteInv /\ ChosenInv /\ RememberedInv /\ [StoreNext]_storeVars
        => RememberedInv'
<1> SUFFICES ASSUME StoreTypeInv, WriteInv, ChosenInv, RememberedInv, [StoreNext]_storeVars,
                    mishaps' \cap {"corrupt", "session"} = {}
             PROVE  Remembered'
  BY DEF RememberedInv
<1>1. /\ mishaps \cap {"corrupt", "session"} = {}
      /\ ~Corrupt
      /\ WriteThrows => call.method # "save" \/ PasswordIsOnDisk
  BY DEF StoreNext, StoreCalls, StoreSteps, Load, Save, PatchTelemetrySource, Begin, ReadUsable,
         Quarantine, RestoreNothing, RestoreWrite, RestoreWriteFails, RestoreRename,
         RestoreRenameFails, PatchReads, PatchDeclines, WriteTmp, BackupCurrent,
         CommitMigration, CommitSave, CommitPatch, MigrationFails, WriteThrows, Restart,
         Corrupt, storeHistory, storeVars
<1>2. Remembered /\ Chosen
  BY <1>1 DEF RememberedInv, ChosenInv
<1>3. SettingsTypeOK
  BY DEF StoreTypeInv
<1>4. ~(\/ Quarantine \/ RestoreNothing \/ RestoreWrite \/ RestoreWriteFails
        \/ RestoreRename \/ RestoreRenameFails)
  BY <1>2 DEF Quarantine, RestoreNothing, RestoreWrite, RestoreWriteFails, RestoreRename,
              RestoreRenameFails, Chosen
<1>6. ASSUME UNCHANGED <<machine, sessionPassword, file>>
      PROVE  Plaintext(file)' = Plaintext(file) /\ (Reveals(file.token)' <=> Reveals(file.token))
  BY <1>6 DEF machine, Plaintext, Reveals
<1>7. ASSUME UNCHANGED <<machine, sessionPassword, out>> PROVE Plaintext(out)' = Plaintext(out)
  BY <1>7 DEF machine, Plaintext, Reveals
<1>8. ASSUME NEW method, NEW change, Begin(method, change) PROVE Remembered'
  <2>1. /\ stage = "idle" /\ stage' = "read"
        /\ UNCHANGED <<machine, sessionPassword, file, migrating, answer, typed>>
    BY <1>8 DEF Begin, memory, disk
  <2> QED
    BY <1>2, <1>6, <1>8, <2>1 DEF Begin, Remembered, Writing
<1>9. ASSUME ReadUsable PROVE Remembered'
  <2>1. /\ stage = "read" /\ call.method # "patch" /\ LoadOn(file)
        /\ UNCHANGED <<file, machine, typed>>
    BY <1>9 DEF ReadUsable, disk, storeHistory
  <2>2. file \in Document \cup {Absent}
    BY <1>3, <1>9 DEF ReadUsable, SettingsTypeOK, Content
  <2>3. LogicalOf(file) \in Logical
    BY <1>3, <2>2, LogicalType
  <2>4. CASE typed # None
    <3>1. file \in Document /\ file.plain = None /\ Plaintext(file) = typed /\ file # Absent
      BY <1>2, <2>1, <2>4, NoneIsNoDocument DEF Remembered, Writing
    <3>2. LoadGives(LogicalOf(file), SessionAfter(file)) /\ LogicalOf(file).password = typed
      BY <2>1, <3>1 DEF LoadOn, LogicalOf
    <3>3. call.method = "load" => Plaintext(file)' = typed
      <4>1. call.method = "load" => sessionPassword' = SessionAfter(file)
        BY <3>2 DEF LoadGives
      <4>2. call.method = "load" => Plaintext(file)' = Plaintext(file)
        BY <1>3, <2>1, <3>1, <4>1 DEF machine, Plaintext, Reveals, SessionAfter
      <4> QED
        BY <3>1, <4>2
    <3>4. Reveals(file.token)' => (file').token[1] = typed
      BY <1>2, <2>1, <2>4 DEF machine, Reveals, Remembered
    <3> QED
      BY <1>2, <1>3, <2>1, <2>3, <2>4, <3>1, <3>2, <3>3, <3>4, LoadedRemembers
  <2>5. CASE typed = None /\ Serialize(LogicalOf(file)) /\ migrating' = TRUE /\ UNCHANGED <<call, answer>>
    BY <2>1, <2>5 DEF Serialize, Remembered, Writing
  <2>6. ASSUME typed = None, NEW session, LoadGives(LogicalOf(file), session) PROVE Remembered'
    BY <1>2, <1>3, <2>1, <2>3, <2>6, LoadedRemembers
  <2> QED
    BY <2>1, <2>4, <2>5, <2>6 DEF LoadOn
<1>10. ASSUME PatchReads PROVE Remembered'
  <2>1. /\ stage = "read" /\ stage' = "tmp" /\ call.method = "patch"
        /\ UNCHANGED <<machine, sessionPassword, file, call, migrating, answer, typed>>
    BY <1>10 DEF PatchReads, memory, disk, storeHistory
  <2> QED
    BY <1>2, <1>6, <2>1 DEF Remembered, Writing
<1>11. ASSUME PatchDeclines PROVE Remembered'
  <2>1. /\ stage = "read" /\ Ends
        /\ UNCHANGED <<machine, sessionPassword, file, answer, typed>>
    BY <1>11 DEF PatchDeclines, memory, disk, storeHistory
  <2> QED
    BY <1>2, <1>6, <2>1 DEF Ends, NoCall, Remembered, Writing
<1>12. ASSUME WriteTmp \/ BackupCurrent PROVE Remembered'
  <2>1. /\ stage \in Writing /\ stage' \in Writing
        /\ UNCHANGED <<machine, sessionPassword, file, call, migrating, held, out, answer, typed>>
    BY <1>12 DEF WriteTmp, BackupCurrent, memory, Writing, storeHistory
  <2> QED
    BY <1>2, <1>6, <1>7, <2>1 DEF Remembered
<1>13. ASSUME Commit
       PROVE  /\ stage \in Writing /\ file' = out /\ file' \in Document /\ (file').plain = None
              /\ UNCHANGED machine
  BY <1>13 DEF Commit, WriteInv, StoreTypeInv, Writing
<1>14. ASSUME CommitMigration PROVE Remembered'
  <2>1. Commit /\ migrating /\ LoadGives(held, sessionPassword) /\ typed' = typed
    BY <1>14 DEF CommitMigration, storeHistory
  <2>2. call.method # "patch" /\ held \in Logical /\ typed = None
    BY <1>2, <1>13, <2>1 DEF LoadGives, StoreTypeInv, Remembered
  <2> QED
    BY <1>2, <1>3, <1>13, <2>1, <2>2, LoadedRemembers
<1>15. ASSUME CommitSave PROVE Remembered'
  <2>1. /\ Commit /\ ~migrating /\ call.method = "save" /\ Ends /\ answer' = held
        /\ typed' = IF call.change[1] = "password" THEN call.change[2] ELSE typed
        /\ sessionPassword' = sessionPassword
    BY <1>15 DEF CommitSave
  <2>2. /\ Plaintext(out) = held.password
        /\ typed' # None => held.password = typed'
    BY <1>2, <1>13, <2>1 DEF Remembered
  <2>3. Plaintext(file)' = Plaintext(out)
    BY <1>13, <2>1 DEF machine, Plaintext, Reveals
  <2>4. Reveals(file.token)' => Plaintext(file)' = (file').token[1]
    BY DEF Plaintext, Reveals
  <2> QED
    BY <1>13, <2>1, <2>2, <2>3, <2>4 DEF Ends, NoCall, Remembered, Writing
<1>16. ASSUME CommitPatch PROVE Remembered'
  <2>1. /\ Commit /\ call.method = "patch" /\ Ends
        /\ UNCHANGED <<sessionPassword, answer, typed>>
    BY <1>16 DEF CommitPatch, storeHistory
  <2>2. out.token = file.token /\ out.plain = None
    BY <1>13, <2>1 DEF WriteInv
  <2>3. typed # None => Plaintext(file)' = Plaintext(file)
    BY <1>2, <1>13, <2>1, <2>2 DEF machine, Plaintext, Reveals, Remembered
  <2>4. Reveals(file.token)' => Plaintext(file)' = (file').token[1]
    BY DEF Plaintext, Reveals
  <2>5. typed # None => Plaintext(file) = typed
    BY <1>2, <2>1 DEF Remembered
  <2> QED
    BY <1>2, <1>13, <2>1, <2>3, <2>4, <2>5 DEF Ends, NoCall, Remembered, Writing
<1>17. ASSUME WriteThrows PROVE Remembered'
  <2>1. /\ stage \in Writing /\ ~migrating /\ Ends
        /\ UNCHANGED <<machine, sessionPassword, file, answer, typed>>
    BY <1>17 DEF WriteThrows, Damage, memory, Writing
  <2>2. call.method \in {"save", "patch"}
    BY <1>2, <2>1 DEF Remembered
  <2>3. typed # None => Plaintext(file) = typed
    BY <1>1, <1>2, <1>17, <2>1, <2>2 DEF Remembered, PasswordIsOnDisk, Plaintext
  <2> QED
    BY <1>2, <1>6, <2>1, <2>3 DEF Ends, NoCall, Remembered, Writing
<1>18. ASSUME MigrationFails PROVE Remembered'
  <2>1. call.method # "patch" /\ held \in Logical /\ typed = None /\ UNCHANGED <<machine, typed>>
    BY <1>2, <1>18 DEF MigrationFails, LoadGives, StoreTypeInv, Writing, Remembered, storeHistory
  <2>2. PICK session : LoadGives(held, session)
    BY <1>18 DEF MigrationFails
  <2> QED
    BY <1>2, <1>3, <2>1, <2>2, LoadedRemembers
<1>19. ASSUME Restart PROVE Remembered'
  BY <1>19 DEF Restart, Ends, NoCall, Remembered, Writing
<1>20. ASSUME UNCHANGED storeVars PROVE Remembered'
  <2>1. UNCHANGED <<machine, sessionPassword, file, stage, call, migrating, held, out, answer, typed>>
    BY <1>20 DEF storeVars, disk, memory, task, storeHistory
  <2> QED
    BY <1>2, <1>6, <1>7, <2>1 DEF Remembered
<1> QED
  BY <1>1, <1>4, <1>8, <1>9, <1>10, <1>11, <1>12, <1>14, <1>15, <1>16, <1>17, <1>18, <1>19, <1>20
     DEF StoreNext, StoreCalls, StoreSteps, Load, Save, PatchTelemetrySource

StoreInv == StoreTypeInv /\ WriteInv /\ ChosenInv /\ AnsweredInv /\ RememberedInv

LEMMA StoreStarts == StoreInit => StoreInv
<1> SUFFICES ASSUME StoreInit PROVE StoreInv
  OBVIOUS
<1>1. SettingsTypeOK
  <2>1. file \in Content
    <3>1. ASSUME NEW c \in Config, NEW p \in Password,
                 file = [config |-> c, source |-> "none", token |-> None, plain |-> p]
          PROVE  file \in Document
      BY <3>1 DEF Document, TelemetrySource, Token
    <3> QED
      BY <3>1 DEF StoreInit, Content
  <2> QED
    BY <2>1 DEF StoreInit, SettingsTypeOK, Content, NoCall, Change, Stages
<1>2. StoreTypeInv /\ WriteInv
  BY <1>1 DEF StoreInit, NoCall, StoreTypeInv, WriteInv, Writing
<1>3. file # Torn /\ ConfigOf(file) \in promised
  <2>1. CASE file = Absent /\ promised = {Default}
    BY <2>1, NoneIsNoDocument DEF ConfigOf
  <2>2. ASSUME NEW c \in Config, NEW p \in Password,
               file = [config |-> c, source |-> "none", token |-> None, plain |-> p],
               promised = {c}
        PROVE  file # Torn /\ ConfigOf(file) \in promised
    <3>1. file \in Document
      BY <2>2 DEF Document, TelemetrySource, Token
    <3> QED
      BY <2>2, <3>1, NoneIsNoDocument DEF ConfigOf
  <2> QED
    BY <2>1, <2>2 DEF StoreInit
<1>4. ChosenInv
  BY <1>3 DEF StoreInit, NoCall, ChosenInv, Chosen, Writing
<1>5. AnsweredInv
  <2>1. bak \notin Document /\ file \in Document => file.config \in promised
    BY <1>3, NoneIsNoDocument DEF StoreInit, ConfigOf
  <2> QED
    BY <2>1, NoneIsNoDocument DEF StoreInit, NoCall, AnsweredInv, Answered, Recent, Writing
<1>6. RememberedInv
  BY DEF StoreInit, NoCall, RememberedInv, Remembered, Writing
<1> QED
  BY <1>2, <1>4, <1>5, <1>6 DEF StoreInv

LEMMA StoreKeeps == StoreSpec => []StoreInv
<1>1. StoreInv /\ [StoreNext]_storeVars => StoreInv'
  BY StoreTypes, StoreKeepsSecrets, StoreKeepsChosen, StoreKeepsAnswers, StoreRemembers
     DEF StoreInv
<1> QED
  BY <1>1, StoreStarts, PTL DEF StoreSpec

\* ChoicesSurvive: wherever a write fails or the app is cut short, the next load
\* shows choices the operator saved.  (settingsStore.js:92-134, 240-248)
THEOREM ChoicesStay == StoreSpec => []ChoicesSurvive
<1>1. StoreInv => ChoicesSurvive
  BY DEF StoreInv, ChosenInv, Chosen, ChoicesSurvive
<1> QED
  BY <1>1, StoreKeeps, PTL

\* BackupAnswers: a file that is spoilt, whenever and however often, costs one save
\* at most while there is a backup, whatever writes fail, unless a recovery was cut
\* short.  (settingsStore.js:130-170, 240-266)
THEOREM TheBackupAnswers == StoreSpec => []BackupAnswers
<1>1. StoreInv => BackupAnswers
  BY DEF StoreInv, AnsweredInv, Answered, Recent, BackupAnswers
<1> QED
  BY <1>1, StoreKeeps, PTL

\* TypedPasswordHolds: a password the operator typed is the one every later load of
\* the session gives back, whether or not it could be protected and whatever fails,
\* unless a save failed to write while the password was in memory only.  (settingsStore.js:195-238, credentialStore.js:47-84)
THEOREM TypedPasswordStays == StoreSpec => []TypedPasswordHolds
<1>1. StoreInv => TypedPasswordHolds
  BY DEF StoreInv, RememberedInv, Remembered, TypedPasswordHolds
<1> QED
  BY <1>1, StoreKeeps, PTL

-----------------------------------------------------------------------------
(* The store implements the atomic settings.                               *)

\* A call is under way between its read and its end; the writes are a migration's
\* only on the way of a load or a save, and otherwise a save's or a patch's.
CallInv ==
    /\ stage = "idle" => call = NoCall
    /\ migrating => stage \in Writing /\ call.method # "patch"
    /\ stage \in Writing /\ ~migrating => call.method \in {"save", "patch"}
    /\ call.method = "patch" => call.change[1] = "source"

\* Until it is renamed, a document that is being written stands beside the one it
\* replaces: with the same choices if it only loses a plaintext, and otherwise
\* with the change of the call.
Written ==
    /\ stage \in Writing =>
          Choices(out) = IF migrating THEN ChoicesIn(file)
                         ELSE Durable!Applied(ChoicesIn(file), call.change)
    /\ stage \in Writing /\ call.method # "patch" => Choices(held) = Choices(out)

WrittenInv == CallInv /\ ("corrupt" \notin mishaps => Written)

\* save()'s merge is the change the settings see.
LEMMA MergedIsApplied ==
    ASSUME NEW l \in Logical, NEW change \in Change
    PROVE  Choices(Merged(l, change)) = Durable!Applied(Choices(l), change)
<1> USE DEF Merged, Choices, Durable!Applied, Logical
<1>1. CASE change = <<"nothing", None>>
  BY <1>1
<1>2. CASE change \in {"config"} \X Config
  BY <1>2
<1>3. CASE change \in {"password"} \X (Password \cup {None})
  BY <1>3
<1>4. CASE change \in {<<"source", "mapper-grpc">>}
  BY <1>4
<1> QED
  BY <1>1, <1>2, <1>3, <1>4 DEF Change

LEMMA LogicalHasTheChoices ==
    ASSUME NEW doc \in Document \cup {Absent}
    PROVE  Choices(LogicalOf(doc)) = ChoicesIn(doc)
BY NoneIsNoDocument DEF Choices, ChoicesIn, LogicalOf

\* What the end of load() does with the choices v that it read: it migrates them,
\* it begins the write of a save, or it shows them.
LoadedChoices(v) ==
    \/ /\ stage' = "tmp" /\ call.method # "patch" /\ UNCHANGED <<call, answer>>
       /\ Choices(held') = Choices(out')
       /\ \/ migrating' /\ Choices(out') = v
          \/ /\ migrating' = FALSE /\ call.method = "save"
             /\ Choices(out') = Durable!Applied(v, call.change)
    \/ call.method = "load" /\ Ends /\ answer' \in Logical /\ Choices(answer') = v

LEMMA SerializeHasTheChoices ==
    ASSUME NEW l, Serialize(l)
    PROVE  stage' = "tmp" /\ held' = l /\ Choices(out') = Choices(l)
BY DEF Serialize, Choices

LEMMA LoadGivesTheChoices ==
    ASSUME SettingsTypeOK, NEW l \in Logical, NEW session, LoadGives(l, session)
    PROVE  LoadedChoices(Choices(l))
<1>1. CASE /\ call.method = "save" /\ Serialize(Merged(l, call.change))
           /\ migrating' = FALSE /\ UNCHANGED <<call, answer>>
  <2>1. Choices(Merged(l, call.change)) = Durable!Applied(Choices(l), call.change)
    BY MergedIsApplied DEF SettingsTypeOK
  <2> QED
    BY <1>1, <2>1, SerializeHasTheChoices DEF LoadedChoices
<1>2. CASE call.method = "load" /\ Ends /\ answer' = l
  BY <1>2 DEF LoadedChoices
<1> QED
  BY <1>1, <1>2 DEF LoadGives

LEMMA LoadOnHasTheChoices ==
    ASSUME SettingsTypeOK, NEW doc \in Document \cup {Absent}, LoadOn(doc),
           call.method # "patch"
    PROVE  LoadedChoices(ChoicesIn(doc))
<1>1. LogicalOf(doc) \in Logical /\ Choices(LogicalOf(doc)) = ChoicesIn(doc)
  BY LogicalType, LogicalHasTheChoices
<1>2. CASE Serialize(LogicalOf(doc)) /\ migrating' = TRUE /\ UNCHANGED <<call, answer>>
  BY <1>1, <1>2, SerializeHasTheChoices DEF LoadedChoices
<1>3. ASSUME NEW session, LoadGives(LogicalOf(doc), session)
      PROVE  LoadedChoices(ChoicesIn(doc))
  BY <1>1, <1>3, LoadGivesTheChoices
<1> QED
  BY <1>2, <1>3 DEF LoadOn

\* The end of load() leaves a call that is over or a write of the choices read.
LEMMA LoadedKeepsWritten ==
    ASSUME NEW v, LoadedChoices(v)
    PROVE  CallInv' /\ (v = ChoicesIn(file)' => Written')
<1>1. CASE Ends
  BY <1>1 DEF Ends, NoCall, CallInv, Written, Writing
<1>2. CASE stage' = "tmp" /\ UNCHANGED call
  BY <1>2 DEF LoadedChoices, Ends, CallInv, Written, Writing
<1> QED
  BY <1>1, <1>2 DEF LoadedChoices

LEMMA StoreKeepsCalls ==
    StoreTypeInv /\ CallInv /\ [StoreNext]_storeVars => CallInv'
<1> SUFFICES ASSUME StoreTypeInv, CallInv, [StoreNext]_storeVars PROVE CallInv'
  OBVIOUS
<1>1. SettingsTypeOK
  BY DEF StoreTypeInv
<1>2. ASSUME NEW doc \in Document \cup {Absent}, LoadOn(doc), call.method # "patch"
      PROVE  CallInv'
  BY <1>1, <1>2, LoadOnHasTheChoices, LoadedKeepsWritten
<1>3. ASSUME NEW method, NEW change, Begin(method, change),
             method = "patch" => change[1] = "source"
      PROVE  CallInv'
  BY <1>3 DEF Begin, CallInv, Writing
<1>4. ASSUME ReadUsable PROVE CallInv'
  BY <1>1, <1>2, <1>4 DEF ReadUsable, SettingsTypeOK, Content
<1>5. ASSUME Quarantine \/ RestoreWrite PROVE CallInv'
  BY <1>5 DEF Quarantine, RestoreWrite, CallInv, Writing
<1>6. ASSUME RestoreNothing \/ RestoreWriteFails \/ RestoreRename \/ RestoreRenameFails
      PROVE  CallInv'
  BY <1>2, <1>6 DEF RestoreNothing, RestoreWriteFails, RestoreRename, RestoreRenameFails,
                    StoreTypeInv
<1>7. ASSUME PatchReads PROVE CallInv'
  BY <1>7 DEF PatchReads, CallInv, Writing
<1>8. ASSUME Ends PROVE CallInv'
  BY <1>8 DEF Ends, NoCall, CallInv, Writing
<1>9. ASSUME WriteTmp \/ BackupCurrent PROVE CallInv'
  BY <1>9 DEF WriteTmp, BackupCurrent, CallInv, Writing
<1>10. ASSUME CommitMigration \/ MigrationFails PROVE CallInv'
  <2>1. PICK session : LoadGives(held, session)
    BY <1>10 DEF CommitMigration, MigrationFails
  <2>2. held \in Logical
    BY <1>10, <2>1 DEF CommitMigration, MigrationFails, Commit, LoadGives, StoreTypeInv, Writing
  <2> QED
    BY <1>1, <2>1, <2>2, LoadGivesTheChoices, LoadedKeepsWritten
<1>11. ASSUME Corrupt \/ UNCHANGED storeVars PROVE CallInv'
  BY <1>11 DEF Corrupt, storeVars, task, CallInv, Writing
<1> QED
  BY <1>3, <1>4, <1>5, <1>6, <1>7, <1>8, <1>9, <1>10, <1>11
     DEF StoreNext, StoreCalls, StoreSteps, Load, Save, PatchTelemetrySource, PatchDeclines,
         CommitSave, CommitPatch, WriteThrows, Restart

\* What the app was last shown, as the settings see it.
ChoicesShown == IF answer = None THEN None ELSE Choices(answer)

\* The end of load(), seen from the settings: nothing of a save, all of a load.
LEMMA LoadedIsOneStep ==
    ASSUME LoadedChoices(ChoicesIn(file)), ChoicesIn(file)' = ChoicesIn(file),
           ("corrupt" \in mishaps)' = ("corrupt" \in mishaps)
    PROVE  Durable!ShowSaved \/ UNCHANGED Durable!durableVars
<1>1. CASE UNCHANGED <<call, answer>>
  BY <1>1 DEF Durable!durableVars
<1>2. CASE call.method = "load" /\ Ends /\ answer' \in Logical /\ Choices(answer)' = ChoicesIn(file)
  <2>1. answer' # None
    BY <1>2, ContentAssumption
  <2> QED
    BY <1>2, <2>1 DEF Ends, NoCall, Durable!ShowSaved, Durable!NoRequest
<1> QED
  BY <1>1, <1>2 DEF LoadedChoices, Choices

\* Each access to the disk is one step of the settings, or none.
LEMMA StoreStepIsDurable ==
    ASSUME StoreTypeInv, WriteInv, ChosenInv, WrittenInv, [StoreNext]_storeVars,
           "corrupt" \notin mishaps'
    PROVE  Written' /\ [Durable!DurableNext]_Durable!durableVars
<1> DEFINE Step == [Durable!DurableNext]_Durable!durableVars
           Clean == ("corrupt" \in mishaps)' = ("corrupt" \in mishaps)
<1>1. "corrupt" \notin mishaps /\ Clean
  BY DEF StoreNext, StoreCalls, StoreSteps, Load, Save, PatchTelemetrySource, Begin, ReadUsable,
         Quarantine, RestoreNothing, RestoreWrite, RestoreWriteFails, RestoreRename,
         RestoreRenameFails, PatchReads, PatchDeclines, WriteTmp, BackupCurrent,
         CommitMigration, CommitSave, CommitPatch, MigrationFails, WriteThrows, Restart,
         Corrupt, storeHistory, storeVars
<1>2. SettingsTypeOK /\ Chosen /\ CallInv /\ Written
  BY <1>1 DEF StoreTypeInv, ChosenInv, WrittenInv
<1>3. file \in Document \cup {Absent}
  BY <1>2 DEF SettingsTypeOK, Content, Chosen
<1>4. ASSUME LoadedChoices(ChoicesIn(file)), file' = file PROVE Written' /\ Step
  <2>1. ChoicesIn(file)' = ChoicesIn(file)
    BY <1>4 DEF ChoicesIn, Choices
  <2>2. Written'
    BY <1>4, <2>1, LoadedKeepsWritten
  <2>3. Durable!ShowSaved \/ UNCHANGED Durable!durableVars
    BY <1>1, <1>4, <2>1, LoadedIsOneStep
  <2> QED
    BY <2>2, <2>3 DEF Durable!DurableNext
<1>5. ASSUME NEW method \in {"load", "save", "patch"}, NEW change \in Change,
             Begin(method, change)
      PROVE  Written' /\ Step
  <2>1. UNCHANGED <<file, answer>> /\ stage' = "read" /\ call = NoCall
        /\ call' = [method |-> method, change |-> change]
    BY <1>2, <1>5 DEF Begin, disk, CallInv
  <2>2. Durable!Ask
    BY <1>1, <2>1 DEF Durable!Ask, Durable!Request, Durable!NoRequest, NoCall
  <2> QED
    BY <2>1, <2>2 DEF Durable!DurableNext, Written, Writing
<1>6. ASSUME ReadUsable PROVE Written' /\ Step
  BY <1>2, <1>3, <1>4, <1>6, LoadOnHasTheChoices DEF ReadUsable, disk
<1>7. ~(\/ Quarantine \/ RestoreNothing \/ RestoreWrite \/ RestoreWriteFails
        \/ RestoreRename \/ RestoreRenameFails)
  BY <1>2 DEF Quarantine, RestoreNothing, RestoreWrite, RestoreWriteFails, RestoreRename,
              RestoreRenameFails, Chosen
<1>8. ASSUME PatchReads PROVE Written' /\ Step
  <2>1. /\ file \in Document /\ stage' = "tmp" /\ call.method = "patch" /\ ~migrating'
        /\ out' = [file EXCEPT !.source = call.change[2]]
        /\ UNCHANGED <<file, call, answer>>
    BY <1>2, <1>8 DEF PatchReads, disk, CallInv, Writing
  <2>2. call.change[1] = "source"
    BY <1>2, <2>1 DEF CallInv
  <2>3. Choices(out') = Durable!Applied(ChoicesIn(file), call.change)
    BY <2>1, <2>2, NoneIsNoDocument DEF Choices, ChoicesIn, Document, Durable!Applied
  <2>4. UNCHANGED Durable!durableVars
    BY <1>1, <2>1 DEF Durable!durableVars
  <2> QED
    BY <2>1, <2>3, <2>4 DEF Written, Choices, ChoicesIn
<1>9. ASSUME PatchDeclines \/ WriteThrows PROVE Written' /\ Step
  <2>1. Ends /\ UNCHANGED <<file, answer>> /\ call.method \in {"save", "patch"}
    BY <1>2, <1>9 DEF PatchDeclines, WriteThrows, Damage, disk, CallInv, Writing
  <2>2. Durable!Decline
    BY <1>1, <2>1 DEF Durable!Decline, Durable!NoRequest, Ends, NoCall
  <2> QED
    BY <2>1, <2>2 DEF Durable!DurableNext, Ends, Written, Writing
<1>10. ASSUME WriteTmp \/ BackupCurrent PROVE Written' /\ Step
  <2>1. stage \in Writing /\ UNCHANGED <<file, call, migrating, held, out, answer>>
    BY <1>10 DEF WriteTmp, BackupCurrent, Writing
  <2>2. UNCHANGED Durable!durableVars
    BY <1>1, <2>1 DEF Durable!durableVars
  <2> QED
    BY <1>2, <2>1, <2>2 DEF Written, Choices, ChoicesIn
<1>11. ASSUME Commit
       PROVE  stage \in Writing /\ ChoicesIn(file)' = Choices(out)
  <2>1. stage \in Writing /\ file' = out /\ out \in Document
    BY <1>11 DEF Commit, WriteInv, StoreTypeInv, Writing
  <2> QED
    BY <2>1, NoneIsNoDocument DEF ChoicesIn, Choices
<1>12. ASSUME CommitMigration \/ MigrationFails PROVE Written' /\ Step
  <2>1. PICK session : LoadGives(held, session)
    BY <1>12 DEF CommitMigration, MigrationFails
  <2>2. stage \in Writing /\ migrating /\ call.method # "patch" /\ held \in Logical
    BY <1>12, <2>1 DEF CommitMigration, MigrationFails, Commit, LoadGives, StoreTypeInv, Writing
  <2>3. Choices(held) = ChoicesIn(file) /\ Choices(out) = ChoicesIn(file)
    BY <1>2, <2>2 DEF Written
  <2>4. LoadedChoices(ChoicesIn(file))
    BY <1>2, <2>1, <2>2, <2>3, LoadGivesTheChoices
  <2>5. ChoicesIn(file)' = ChoicesIn(file)
    BY <1>11, <1>12, <2>3 DEF CommitMigration, MigrationFails, Damage, ChoicesIn, Choices
  <2>6. Written'
    BY <2>4, <2>5, LoadedKeepsWritten
  <2>7. Durable!ShowSaved \/ UNCHANGED Durable!durableVars
    BY <1>1, <2>4, <2>5, LoadedIsOneStep
  <2> QED
    BY <2>6, <2>7 DEF Durable!DurableNext
<1>13. ASSUME CommitSave PROVE Written' /\ Step
  <2>1. /\ stage \in Writing /\ ~migrating /\ call.method = "save" /\ Ends /\ answer' = held
        /\ ChoicesIn(file)' = Choices(out)
    BY <1>11, <1>13 DEF CommitSave
  <2>2. held \in Logical /\ Choices(held) = Choices(out)
        /\ Choices(out) = Durable!Applied(ChoicesIn(file), call.change)
    BY <1>2, <2>1 DEF Written, StoreTypeInv
  <2>3. answer' # None /\ Choices(answer)' = Choices(out)
    BY <2>1, <2>2, ContentAssumption DEF Choices
  <2>4. Durable!ApplySave
    BY <1>1, <2>1, <2>2, <2>3 DEF Durable!ApplySave, Durable!NoRequest, Ends, NoCall
  <2> QED
    BY <2>1, <2>4 DEF Durable!DurableNext, Ends, Written, Writing
<1>14. ASSUME CommitPatch PROVE Written' /\ Step
  <2>1. /\ stage \in Writing /\ ~migrating /\ call.method = "patch" /\ Ends /\ UNCHANGED answer
        /\ ChoicesIn(file)' = Choices(out)
    BY <1>11, <1>14 DEF CommitPatch
  <2>2. Choices(out) = Durable!Applied(ChoicesIn(file), call.change)
    BY <1>2, <2>1 DEF Written
  <2>3. Durable!ApplyPatch
    BY <1>1, <2>1, <2>2 DEF Durable!ApplyPatch, Durable!NoRequest, Ends, NoCall, Choices
  <2> QED
    BY <2>1, <2>3 DEF Durable!DurableNext, Ends, Written, Writing
<1>15. ASSUME Restart PROVE Written' /\ Step
  <2>1. UNCHANGED file /\ answer' = None /\ Ends
    BY <1>15 DEF Restart, Damage, disk
  <2>2. Durable!NextLife
    BY <1>1, <2>1 DEF Durable!NextLife, Durable!NoRequest, Ends, NoCall
  <2> QED
    BY <2>1, <2>2 DEF Durable!DurableNext, Ends, Written, Writing
<1>16. ~Corrupt
  BY DEF Corrupt
<1>17. ASSUME UNCHANGED storeVars PROVE Written' /\ Step
  <2>1. UNCHANGED <<file, stage, call, migrating, held, out, answer>>
    BY <1>17 DEF storeVars, disk, task
  <2>2. UNCHANGED Durable!durableVars
    BY <1>1, <2>1 DEF Durable!durableVars
  <2> QED
    BY <1>2, <2>1, <2>2 DEF Written, Choices, ChoicesIn
<1>18. StoreCalls => Written' /\ Step
  <2>1. <<"nothing", None>> \in Change /\ <<"source", "mapper-grpc">> \in Change
    BY DEF Change
  <2> QED
    BY <1>5, <2>1 DEF StoreCalls, Load, Save, PatchTelemetrySource
<1> QED
  BY <1>6, <1>7, <1>8, <1>9, <1>10, <1>12, <1>13, <1>14, <1>15, <1>16, <1>17, <1>18
     DEF StoreNext, StoreSteps

\* ImplementsDurableSettings: for every set of settings, passwords and accounts the
\* store is the atomic one until its file is spoilt from outside: no failed or
\* interrupted write, no migration and no change of account tears a save apart,
\* loses one, or shows one that did not take place.
\* (settingsStore.js:261-306, 312-378)
THEOREM ImplementsTheDurableSettings == StoreSpec => ImplementsDurableSettings
<1>1. StoreInit => Durable!DurableInit /\ WrittenInv
  <2> SUFFICES ASSUME StoreInit PROVE Durable!DurableInit /\ WrittenInv
    OBVIOUS
  <2>1. ChoicesIn(file) \in Durable!Settings
    <3>1. CASE file = Absent
      BY <3>1 DEF ChoicesIn, Durable!Settings, TelemetrySource
    <3>2. ASSUME NEW c \in Config, NEW p \in Password,
                 file = [config |-> c, source |-> "none", token |-> None, plain |-> p]
          PROVE  ChoicesIn(file) \in Durable!Settings
      BY <3>2 DEF ChoicesIn, Choices, Durable!Settings, TelemetrySource
    <3> QED
      BY <3>1, <3>2 DEF StoreInit
  <2>2. Durable!DurableInit
    BY <2>1 DEF StoreInit, NoCall, Durable!DurableInit, Durable!NoRequest
  <2> QED
    BY <2>2 DEF StoreInit, NoCall, WrittenInv, CallInv, Written, Writing
<1>2. StoreInv /\ WrittenInv /\ [StoreNext]_storeVars
      => WrittenInv' /\ [Durable!DurableNext]_Durable!durableVars
  <2> SUFFICES ASSUME StoreInv, WrittenInv, [StoreNext]_storeVars
               PROVE  WrittenInv' /\ [Durable!DurableNext]_Durable!durableVars
    OBVIOUS
  <2>1. StoreTypeInv /\ WriteInv /\ ChosenInv /\ CallInv
    BY DEF StoreInv, WrittenInv
  <2>2. CallInv'
    BY <2>1, StoreKeepsCalls
  <2>3. CASE "corrupt" \in mishaps'
    BY <2>2, <2>3 DEF WrittenInv, Durable!DurableNext, Durable!Spoilt
  <2>4. CASE "corrupt" \notin mishaps'
    BY <2>1, <2>2, <2>4, StoreStepIsDurable DEF WrittenInv
  <2> QED
    BY <2>3, <2>4
<1> QED
  BY <1>1, <1>2, StoreKeeps, PTL
     DEF StoreSpec, ImplementsDurableSettings, Durable!DurableSpec

-----------------------------------------------------------------------------
(* The session.                                                            *)

\* The bridge in force is labelled after the source in force.
BridgeIsOfSource == bridge # "none" => bridge = Origin(src)

LabelInv == BridgeIsOfSource /\ DemoIsLabelled

\* Applying the settings moves the source and the bridge together, and the
\* bridge that stays keeps readings of its own label only.
LEMMA ApplyKeepsLabels == LabelInv /\ ApplyConfig => LabelInv'
<1> SUFFICES ASSUME LabelInv, ApplyConfig PROVE LabelInv'
  OBVIOUS
<1> USE DEF LabelInv, BridgeIsOfSource, DemoIsLabelled, Origin
<1>1. src' = wanted.source
  BY DEF ApplyConfig, SwapSource
<1>2. bridge' = IF wanted.bridge THEN Origin(wanted.source) ELSE "none"
  BY DEF ApplyConfig, Rekeyed
<1>3. BridgeIsOfSource'
  BY <1>1, <1>2
<1>4. CASE bridge' = bridge
  BY <1>4, <1>3 DEF ApplyConfig
<1>5. CASE bridge' # bridge
  BY <1>5, <1>3 DEF ApplyConfig
<1> QED
  BY <1>4, <1>5

\* What the bridge sends of the replay is tagged as a demo, and nothing else is,
\* through every change of the source and of the bridge.  (sessionRuntime.js:85-96)
THEOREM TheDemoIsLabelled == SessionSpec => []DemoIsLabelled
<1>1. SessionInit => LabelInv
  BY DEF SessionInit, LabelInv, BridgeIsOfSource, DemoIsLabelled
<1>2. LabelInv /\ [SessionNext]_sessionVars => LabelInv'
  <2> SUFFICES ASSUME LabelInv, [SessionNext]_sessionVars PROVE LabelInv'
    OBVIOUS
  <2>1. ASSUME ApplySession \/ ApplyUnheard PROVE LabelInv'
    BY <2>1, ApplyKeepsLabels DEF ApplySession, ApplyUnheard
  <2>2. ASSUME NEW b \in Battery \cup {0}, Reads(b) PROVE LabelInv'
    BY <2>2 DEF Reads, LabelInv, BridgeIsOfSource, DemoIsLabelled
  <2>3. ASSUME UNCHANGED <<src, bridge, latest>> PROVE LabelInv'
    BY <2>3 DEF LabelInv, BridgeIsOfSource, DemoIsLabelled, Origin
  <2>4. ASSUME \/ ChangeSettings \/ PortOpens \/ StrayOpens \/ PortFails \/ PortCloses
               \/ Reopen \/ SecondPasses \/ Render \/ UNCHANGED sessionVars
        PROVE  UNCHANGED <<src, bridge, latest>>
    BY <2>4 DEF ChangeSettings, PortOpens, StrayOpens, PortFails, PortCloses,
                Reopen, SecondPasses, Render, sessionVars
  <2> QED
    BY <2>1, <2>2, <2>3, <2>4 DEF SessionNext
<1>3. LabelInv => DemoIsLabelled
  BY DEF LabelInv
<1> QED
  BY <1>1, <1>2, <1>3, PTL DEF SessionSpec

-----------------------------------------------------------------------------
\* A serial source never ends up without a port and without a timer: through
\* failed opens, pulled dongles and changes of the source it will try again.
\* (CrsfSerialSource.js:47-53, 72-76)
THEOREM SerialPortIsRetried == SessionSpec => []SerialIsRetried
<1> USE DEF SerialIsRetried, serialVars
<1>1. SessionInit => SerialIsRetried
  BY DEF SessionInit
<1>2. SerialIsRetried /\ [SessionNext]_sessionVars => SerialIsRetried'
  <2> SUFFICES ASSUME SerialIsRetried, [SessionNext]_sessionVars PROVE SerialIsRetried'
    OBVIOUS
  <2>1. ASSUME ApplyConfig, UNCHANGED native PROVE SerialIsRetried'
    BY <2>1 DEF ApplyConfig, SwapSource
  <2>2. ASSUME ApplySession \/ ApplyUnheard PROVE SerialIsRetried'
    BY <2>1, <2>2 DEF ApplySession, ApplyUnheard, ApplyConfig
  <2>3. ASSUME PortOpens \/ PortFails \/ PortCloses \/ Reopen PROVE SerialIsRetried'
    BY <2>3 DEF PortOpens, PortFails, PortCloses, Reopen, ScheduleReopen
  <2>4. ASSUME ChangeSettings \/ StrayOpens \/ SecondPasses \/ Render \/ UNCHANGED sessionVars
        PROVE  SerialIsRetried'
    BY <2>4 DEF ChangeSettings, StrayOpens, SecondPasses, Render, sessionVars
  <2>5. ASSUME NEW b \in Battery \cup {0}, Reads(b) PROVE SerialIsRetried'
    BY <2>5 DEF Reads
  <2> QED
    BY <2>2, <2>3, <2>4, <2>5 DEF SessionNext
<1> QED
  BY <1>1, <1>2, PTL DEF SessionSpec

-----------------------------------------------------------------------------
\* The lookup's variables have their types.
LookupTypeOK ==
    /\ socket \in {"none", "binding", "ready"}
    /\ idle \in 0 .. Off

LookupInv == LookupTypeOK /\ LookupIsClocked

LEMMA BoundsAreNaturals == IdleClose \in Nat /\ IdleClose > 0 /\ Ttl \in Nat /\ Ttl > 0
  BY PhoneAssumption

\* An open socket is always on the idle timer's clock, and the lookup asks only
\* through the socket that is bound.  (HudDiscovery.js:13-19, 155-158, 169-175)
THEOREM TheLookupIsClocked == PhoneSpec => []LookupIsClocked
<1> USE BoundsAreNaturals DEF LookupInv, LookupTypeOK, LookupIsClocked, Off, lookupVars
<1>1. PhoneInit => LookupInv
  BY DEF PhoneInit
<1>2. LookupInv /\ [PhoneNext]_phoneVars => LookupInv'
  <2> SUFFICES ASSUME LookupInv, [PhoneNext]_phoneVars PROVE LookupInv'
    OBVIOUS
  <2>1. ASSUME CloseSocket PROVE LookupInv'
    BY <2>1 DEF CloseSocket
  <2>2. ASSUME UNCHANGED lookupVars PROVE LookupInv'
    BY <2>2
  <2>3. ASSUME BindCompletes \/ LateBind PROVE LookupInv'
    BY <2>3 DEF BindCompletes, LateBind
  <2>4. ASSUME SocketError \/ StopLookup PROVE LookupInv'
    BY <2>1, <2>4 DEF SocketError, StopLookup
  <2>5. ASSUME Poll PROVE LookupInv'
    <3>1. socket' \in IF socket = "none" THEN {"none", "binding"} ELSE {socket}
      BY <2>5 DEF Poll
    <3>2. idle' = IdleClose /\ bound' = bound
      BY <2>5 DEF Poll
    <3> QED
      BY <3>1, <3>2
  <2>6. ASSUME Pass PROVE LookupInv'
    <3>1. CASE idle = 0
      BY <2>1, <2>6, <3>1 DEF Pass
    <3>2. CASE idle # 0
      <4>1. idle' = (IF idle = Off THEN Off ELSE idle - 1) /\ UNCHANGED <<socket, bound>>
        BY <2>6, <3>2 DEF Pass
      <4> QED
        BY <3>2, <4>1
    <3> QED
      BY <3>1, <3>2
  <2>7. ASSUME \/ \E ad \in Advert, from \in Addr : Hear(ad, from)
               \/ TogglePolling \/ ApplyW3 \/ W3Fails \/ UNCHANGED phoneVars
               \/ \E from \in Addr, kind \in {"invalid", "inactive", "uncentered", "active"} :
                     Packet(from, kind)
        PROVE  UNCHANGED lookupVars
    BY <2>7 DEF Hear, TogglePolling, ApplyW3, W3Fails, Packet, phoneVars
  <2> QED
    BY <2>2, <2>3, <2>4, <2>5, <2>6, <2>7 DEF PhoneNext
<1>3. LookupInv => LookupIsClocked
  OBVIOUS
<1> QED
  BY <1>1, <1>2, <1>3, PTL DEF PhoneSpec

-----------------------------------------------------------------------------
CacheTypeOK == cache \in [Addr -> Age] /\ silence \in [Addr -> Age]

\* A candidate is at least as old as its HUD has been silent.
HeardSince == \A a \in Addr : cache[a] < Never => silence[a] <= cache[a]

CacheInv == CacheTypeOK /\ HeardSince

\* One acceptable announcement, whichever way the cache takes it.
LEMMA RememberKeepsCache ==
    ASSUME CacheInv, NEW ad \in Advert, NEW from \in Addr, Remember(ad, from), Acceptable(ad),
           silence' = IF ad.addr = from
                      THEN [silence EXCEPT ![from] = IF ad.gone THEN Never ELSE 0]
                      ELSE silence
    PROVE  CacheInv'
<1> USE BoundsAreNaturals DEF CacheInv, CacheTypeOK, HeardSince, Never, Age
<1>1. ad.addr \in Addr
  BY DEF Acceptable, Advert
<1>2. CASE ad.gone
  BY <1>1, <1>2 DEF Remember
<1>3. CASE ~ad.gone /\ ad.addr # from
  BY <1>1, <1>3 DEF Remember
<1>4. CASE ~ad.gone /\ ad.addr = from
  <2>1. CASE cache' = [cache EXCEPT ![ad.addr] = 0]
    BY <1>1, <1>4, <2>1
  <2>2. ASSUME NEW old \in Addr, cache' = [cache EXCEPT ![old] = Never, ![ad.addr] = 0]
        PROVE  CacheInv'
    BY <1>1, <1>4, <2>2
  <2> QED
    BY <1>4, <2>1, <2>2 DEF Remember
<1> QED
  BY <1>2, <1>3, <1>4

\* A unit of time ages a candidate and its silence alike.
LEMMA PassKeepsCache == CacheInv /\ Pass => CacheInv'
<1> SUFFICES ASSUME CacheInv, Pass PROVE CacheInv'
  OBVIOUS
<1> USE BoundsAreNaturals DEF CacheInv, CacheTypeOK, HeardSince, Never, Age
<1>1. /\ cache' = [a \in Addr |-> Older(cache[a])]
      /\ silence' = [a \in Addr |-> Older(silence[a])]
  BY DEF Pass
<1>2. CacheTypeOK'
  BY <1>1 DEF Older
<1>3. ASSUME NEW a \in Addr, cache'[a] < Never PROVE silence'[a] <= cache'[a]
  <2>1. cache[a] < Never /\ cache'[a] = cache[a] + 1
    BY <1>1, <1>3 DEF Older
  <2>2. silence[a] <= cache[a]
    BY <2>1
  <2> QED
    BY <1>1, <2>1, <2>2 DEF Older
<1> QED
  BY <1>2, <1>3

\* A HUD that took leave, or was not heard for the time an entry is offered, is
\* not a candidate: through goodbyes of anyone and evictions from a full cache.
\* (HudDiscovery.js:45-49, 121-127, 146-155)
THEOREM CacheIsAlive == PhoneSpec => []CandidatesAreAlive
<1>1. PhoneInit => CacheInv
  BY BoundsAreNaturals DEF PhoneInit, CacheInv, CacheTypeOK, HeardSince, Never, Age
<1>2. CacheInv /\ [PhoneNext]_phoneVars => CacheInv'
  <2> SUFFICES ASSUME CacheInv, [PhoneNext]_phoneVars PROVE CacheInv'
    OBVIOUS
  <2>1. ASSUME UNCHANGED <<cache, silence>> PROVE CacheInv'
    BY <2>1 DEF CacheInv, CacheTypeOK, HeardSince
  <2>2. ASSUME NEW ad \in Advert, NEW from \in Addr, Hear(ad, from) PROVE CacheInv'
    <3>1. CASE Acceptable(ad)
      BY <2>2, <3>1, RememberKeepsCache DEF Hear
    <3>2. CASE ~Acceptable(ad)
      BY <2>1, <2>2, <3>2 DEF Hear
    <3> QED
      BY <3>1, <3>2
  <2>3. ASSUME StopLookup PROVE CacheInv'
    BY <2>3, BoundsAreNaturals
       DEF StopLookup, CacheInv, CacheTypeOK, HeardSince, Never, Age
  <2>4. ASSUME Pass PROVE CacheInv'
    BY <2>4, PassKeepsCache
  <2>5. ASSUME \/ BindCompletes \/ LateBind \/ SocketError \/ Poll \/ TogglePolling
               \/ ApplyW3 \/ W3Fails \/ UNCHANGED phoneVars
               \/ \E from \in Addr, kind \in {"invalid", "inactive", "uncentered", "active"} :
                     Packet(from, kind)
        PROVE  UNCHANGED <<cache, silence>>
    BY <2>5 DEF BindCompletes, LateBind, SocketError, Poll, TogglePolling, ApplyW3,
                W3Fails, Packet, phoneVars
  <2> QED
    BY <2>1, <2>2, <2>3, <2>4, <2>5 DEF PhoneNext
<1>3. CacheInv => CandidatesAreAlive
  BY BoundsAreNaturals
     DEF CacheInv, CacheTypeOK, HeardSince, CandidatesAreAlive, Candidates, Never, Age
<1> QED
  BY <1>1, <1>2, <1>3, PTL DEF PhoneSpec

\* LookupIsSound: the clock and the cache together.
THEOREM TheLookupIsSound == PhoneSpec => []LookupIsSound
BY TheLookupIsClocked, CacheIsAlive, PTL DEF LookupIsSound

-----------------------------------------------------------------------------
ReceiverTypeOK ==
    /\ w3 \in {"off", "on", "fault"}
    /\ packet \in {"none", "inactive", "uncentered", "active"}

LEMMA ReceiverTypeCorrect == PhoneSpec => []ReceiverTypeOK
<1>1. PhoneInit => ReceiverTypeOK
  BY DEF PhoneInit, ReceiverTypeOK
<1>2. ReceiverTypeOK /\ [PhoneNext]_phoneVars => ReceiverTypeOK'
  <2> SUFFICES ASSUME ReceiverTypeOK, [PhoneNext]_phoneVars PROVE ReceiverTypeOK'
    OBVIOUS
  <2>1. ASSUME UNCHANGED w3Vars PROVE ReceiverTypeOK'
    BY <2>1 DEF w3Vars, ReceiverTypeOK
  <2>2. ASSUME \/ \E ad \in Advert, from \in Addr : Hear(ad, from)
               \/ BindCompletes \/ LateBind \/ SocketError \/ StopLookup \/ Poll
               \/ TogglePolling \/ UNCHANGED phoneVars
        PROVE  UNCHANGED w3Vars
    BY <2>2 DEF Hear, BindCompletes, LateBind, SocketError, StopLookup, Poll,
                TogglePolling, phoneVars, w3Vars
  <2>3. ASSUME Pass \/ ApplyW3 \/ W3Fails PROVE ReceiverTypeOK'
    BY <2>3 DEF Pass, ApplyW3, W3Fails, ReceiverTypeOK
  <2>4. ASSUME NEW from \in Addr, NEW kind \in {"invalid", "inactive", "uncentered", "active"},
               Packet(from, kind)
        PROVE  ReceiverTypeOK'
    BY <2>4 DEF Packet, ReceiverTypeOK
  <2> QED
    BY <2>1, <2>2, <2>3, <2>4 DEF PhoneNext
<1> QED
  BY <1>1, <1>2, PTL DEF PhoneSpec

\* An invalid packet never replaces the last valid state, nor the sender that is
\* suggested.  (headTracking.js:130-131)
THEOREM GarbageIsCounted == PhoneSpec => GarbageChangesNothing
<1> DEFINE Counted == garbage' # garbage /\ w3' = w3
                          => W3State' \in {W3State, "invalid"} /\ hint' = hint
<1>1. ReceiverTypeOK /\ [PhoneNext]_phoneVars => [Counted]_phoneVars
  <2> SUFFICES ASSUME ReceiverTypeOK, PhoneNext, garbage' # garbage, w3' = w3
               PROVE  W3State' \in {W3State, "invalid"} /\ hint' = hint
    OBVIOUS
  <2>1. ASSUME NEW from \in Addr, NEW kind \in {"invalid", "inactive", "uncentered", "active"},
               Packet(from, kind)
        PROVE  W3State' \in {W3State, "invalid"} /\ hint' = hint
    <3>1. kind = "invalid" /\ garbage' /\ UNCHANGED <<w3, packet, fresh, hint>> /\ w3 # "off"
      BY <2>1 DEF Packet
    <3> QED
      BY <3>1 DEF W3State, ReceiverTypeOK
  <2>2. ASSUME ApplyW3 PROVE FALSE
    BY <2>2 DEF ApplyW3, ReceiverTypeOK
  <2>3. ASSUME \/ \E ad \in Advert, from \in Addr : Hear(ad, from)
               \/ BindCompletes \/ LateBind \/ SocketError \/ StopLookup \/ Poll
               \/ TogglePolling \/ Pass \/ W3Fails
        PROVE  UNCHANGED garbage
    BY <2>3 DEF Hear, BindCompletes, LateBind, SocketError, StopLookup, Poll,
                TogglePolling, Pass, W3Fails, w3Vars
  <2> QED
    BY <2>1, <2>2, <2>3 DEF PhoneNext
<1> QED
  BY <1>1, ReceiverTypeCorrect, PTL DEF PhoneSpec, GarbageChangesNothing
-----------------------------------------------------------------------------
(* The composition.                                                        *)

\* The store's files, its call and what it remembers have their types.
THEOREM SettingsTypeCorrect == StoreSpec => []SettingsTypeOK
<1>1. StoreInv => SettingsTypeOK
  BY DEF StoreInv, StoreTypeInv
<1> QED
  BY <1>1, StoreKeeps, PTL

\* The source, its port, the bridge and the page keep their types.
THEOREM SessionTypeCorrect == SessionSpec => []SessionTypeOK
<1> USE DEF SessionTypeOK, Source, Battery, Origin
<1>1. ASSUME SessionInit PROVE SessionTypeOK
  BY <1>1 DEF SessionInit
<1>2. SessionTypeOK /\ [SessionNext]_sessionVars => SessionTypeOK'
  <2> SUFFICES ASSUME SessionTypeOK, [SessionNext]_sessionVars PROVE SessionTypeOK'
    OBVIOUS
  <2>1. ASSUME ApplyConfig, chip' \in BOOLEAN PROVE SessionTypeOK'
    <3>1. /\ src' \in Source /\ merged' \in Battery \cup {0} /\ reopen' \in BOOLEAN
          /\ port' \in {"none", "opening", "open"} /\ stray' \in {"none", "opening", "open"}
      BY <2>1 DEF ApplyConfig, SwapSource, serialVars
    <3>2. bridge' \in {"none", "car", "demo"} /\ latest' \in {"none", "car", "demo"}
      BY <2>1 DEF ApplyConfig, Rekeyed
    <3>3. UNCHANGED <<wanted, native, telem, recent, level>>
      BY <2>1 DEF ApplyConfig
    <3> QED
      BY <2>1, <3>1, <3>2, <3>3
  <2>2. CASE ApplySession \/ ApplyUnheard
    <3>1. ApplyConfig /\ chip' \in BOOLEAN
      BY <2>2 DEF ApplySession, ApplyUnheard
    <3> QED
      BY <2>1, <3>1
  <2>3. CASE ChangeSettings
    BY <2>3 DEF ChangeSettings, serialVars, hudVars
  <2>4. CASE PortOpens \/ StrayOpens \/ PortFails \/ PortCloses \/ Reopen
    <3>1. /\ port' \in {"none", "opening", "open"} /\ stray' \in {"none", "opening", "open"}
          /\ reopen' \in BOOLEAN
      BY <2>4 DEF PortOpens, StrayOpens, PortFails, PortCloses, Reopen, ScheduleReopen
    <3>2. UNCHANGED <<wanted, src, native, merged, bridge, latest, hudVars>>
      BY <2>4 DEF PortOpens, StrayOpens, PortFails, PortCloses, Reopen
    <3> QED
      BY <3>1, <3>2 DEF hudVars
  <2>5. ASSUME NEW b \in Battery \cup {0}, Reads(b) PROVE SessionTypeOK'
    <3>1. merged' \in Battery \cup {0} /\ latest' \in {"none", "car", "demo"}
      BY <2>5 DEF Reads
    <3>2. telem' \in [from : {"none", "car", "demo"}, battery : Battery \cup {0}]
      BY <2>5, <3>1 DEF Reads
    <3>3. recent' \in BOOLEAN /\ UNCHANGED <<wanted, src, native, serialVars, bridge, chip, level>>
      BY <2>5 DEF Reads
    <3> QED
      BY <3>1, <3>2, <3>3 DEF serialVars
  <2>6. CASE SecondPasses
    <3>1. recent' \in BOOLEAN
      BY <2>6 DEF SecondPasses
    <3>2. UNCHANGED <<wanted, src, native, serialVars, merged, bridge, latest, telem, chip, level>>
      BY <2>6 DEF SecondPasses
    <3> QED
      BY <3>1, <3>2 DEF serialVars
  <2>7. CASE Render
    <3>1. level' \in {"ok", "warn", "critical"}
      BY <2>7 DEF Render, LowBatteryLevel
    <3> QED
      BY <2>7, <3>1 DEF Render, serialVars
  <2>8. CASE UNCHANGED sessionVars
    BY <2>8 DEF sessionVars, serialVars, hudVars
  <2> QED
    BY <2>2, <2>3, <2>4, <2>5, <2>6, <2>7, <2>8 DEF SessionNext
<1> QED
  BY <1>1, <1>2, PTL DEF SessionSpec

\* The lookup, its cache, the hint and the receiver keep their types.
THEOREM PhoneTypeCorrect == PhoneSpec => []PhoneTypeOK
<1> USE BoundsAreNaturals, PhoneAssumption DEF PhoneTypeOK, Age, Never, Off, lookupVars, offerVars, w3Vars
<1>1. ASSUME PhoneInit PROVE PhoneTypeOK
  <2>1. Never \in Age /\ Off \in 0 .. Off
    OBVIOUS
  <2>2. cache \in [Addr -> Age] /\ silence \in [Addr -> Age]
    BY <1>1, <2>1 DEF PhoneInit
  <2>3. hint \in [addr : Addr \cup {NoAddr}, age : Age]
    BY <1>1, <2>1 DEF PhoneInit
  <2>4. idle \in 0 .. Off
    BY <1>1, <2>1 DEF PhoneInit
  <2> QED
    BY <1>1, <2>2, <2>3, <2>4 DEF PhoneInit
<1>2. PhoneTypeOK /\ [PhoneNext]_phoneVars => PhoneTypeOK'
  <2> SUFFICES ASSUME PhoneTypeOK, [PhoneNext]_phoneVars PROVE PhoneTypeOK'
    OBVIOUS
  <2>1. ASSUME NEW ad \in Advert, NEW from \in Addr, Hear(ad, from) PROVE PhoneTypeOK'
    <3>1. cache' \in [Addr -> Age]
      BY <2>1 DEF Hear, Remember
    <3>2. silence' \in [Addr -> Age]
      BY <2>1 DEF Hear
    <3>3. UNCHANGED <<lookupVars, offerVars, hint, w3Vars>>
      BY <2>1 DEF Hear
    <3> QED
      BY <3>1, <3>2, <3>3
  <2>2. CASE BindCompletes \/ LateBind
    BY <2>2 DEF BindCompletes, LateBind
  <2>3. CASE SocketError \/ StopLookup
    <3>1. /\ socket' = "none" /\ bound' = FALSE /\ dropped' \in BOOLEAN
      BY <2>3 DEF SocketError, StopLookup, CloseSocket
    <3>2. idle' \in 0 .. Off
      BY <2>3 DEF SocketError, StopLookup, CloseSocket
    <3>3. cache' \in [Addr -> Age]
      BY <2>3 DEF SocketError, StopLookup
    <3>4. UNCHANGED <<offerVars, silence, hint, w3Vars>>
      BY <2>3 DEF SocketError, StopLookup
    <3> QED
      BY <3>1, <3>2, <3>3, <3>4
  <2>4. CASE Poll
    BY <2>4 DEF Poll, Suggests
  <2>5. CASE TogglePolling
    BY <2>5 DEF TogglePolling
  <2>6. CASE Pass
    <3>1. cache' \in [Addr -> Age] /\ silence' \in [Addr -> Age]
      BY <2>6 DEF Pass, Older
    <3>2. hint' \in [addr : Addr \cup {NoAddr}, age : Age]
      BY <2>6 DEF Pass, Older
    <3>3. idle' \in 0 .. Off
      BY <2>6 DEF Pass, CloseSocket
    <3>4. \/ /\ socket' = "none" /\ bound' = FALSE
             /\ dropped' = (dropped \/ socket = "binding")
          \/ UNCHANGED <<socket, bound, dropped>>
      BY <2>6 DEF Pass, CloseSocket
    <3>5. /\ socket' \in {"none", "binding", "ready"} /\ bound' \in BOOLEAN
          /\ dropped' \in BOOLEAN
      BY <3>4
    <3>6. fresh' \in BOOLEAN /\ UNCHANGED <<offerVars, w3, packet, garbage>>
      BY <2>6 DEF Pass
    <3> QED
      BY <3>1, <3>2, <3>3, <3>5, <3>6
  <2>7. CASE ApplyW3 \/ W3Fails
    BY <2>7 DEF ApplyW3, W3Fails
  <2>8. ASSUME NEW from \in Addr, NEW kind \in {"invalid", "inactive", "uncentered", "active"},
               Packet(from, kind)
        PROVE  PhoneTypeOK'
    <3>1. hint' \in [addr : Addr \cup {NoAddr}, age : Age]
      <4>1. 0 \in Age
        OBVIOUS
      <4> QED
        BY <2>8, <4>1 DEF Packet
    <3>2. /\ packet' \in {"none", "inactive", "uncentered", "active"}
          /\ fresh' \in BOOLEAN /\ garbage' \in BOOLEAN
      BY <2>8 DEF Packet
    <3>3. UNCHANGED <<lookupVars, offerVars, cache, silence, w3>>
      BY <2>8 DEF Packet
    <3> QED
      BY <3>1, <3>2, <3>3
  <2>9. CASE UNCHANGED phoneVars
    BY <2>9 DEF phoneVars
  <2> QED
    BY <2>1, <2>2, <2>3, <2>4, <2>5, <2>6, <2>7, <2>8, <2>9 DEF PhoneNext
<1> QED
  BY <1>1, <1>2, PTL DEF PhoneSpec

\* In the composition every part behaves as it does alone, so that whatever is
\* proved of the parts holds of what BackendSpec's run explores.
THEOREM BackendKeepsItsParts ==
    BackendSpec => StoreSpec /\ StreamsSpec /\ SessionSpec /\ PhoneSpec
<1> DEFINE all == <<part, storeVars, streamsVars, sessionVars, phoneVars>>
<1>1. BackendInit => StoreInit /\ StreamsInit /\ SessionInit /\ PhoneInit
  BY DEF BackendInit
<1>2. [BackendNext]_all => /\ [StoreNext]_storeVars /\ [StreamsNext]_streamsVars
                           /\ [SessionNext]_sessionVars /\ [PhoneNext]_phoneVars
  BY DEF BackendNext, StorePart, StreamsPart, SessionPart, PhonePart
<1> QED
  BY <1>1, <1>2, PTL DEF BackendSpec, StoreSpec, StreamsSpec, SessionSpec, PhoneSpec

\* BackendTypeOK: every variable of the four parts keeps its type.
THEOREM BackendTypeCorrect == BackendSpec => []BackendTypeOK
BY BackendKeepsItsParts, SettingsTypeCorrect, StreamsTypeCorrect, SessionTypeCorrect,
   PhoneTypeCorrect, PTL DEF BackendTypeOK

\* SourcesStayInHand: a stream client that runs and a serial source that is on
\* have what they need, or their next attempt scheduled, and no stream is open
\* that nobody holds, in the composition too.
THEOREM SourcesAreInHand == BackendSpec => []SourcesStayInHand
BY BackendKeepsItsParts, AStreamIsRetried, StreamsDoNotLeak, SerialPortIsRetried, PTL
   DEF SourcesStayInHand
=============================================================================
