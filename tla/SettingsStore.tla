--------------------------- MODULE SettingsStore ----------------------------
(***************************************************************************)
(* The settings file, its backup and the hotspot password at rest:         *)
(* src/main/settingsStore.js over src/main/credentialStore.js.             *)
(*                                                                         *)
(* The calls are synchronous, so nothing interleaves with them; but each   *)
(* is a chain of writes to the file system, any of which can fail, and the *)
(* app can be killed between two of them.  An action is the code from one  *)
(* access to the disk to the next, and `stage' names the next.             *)
(*                                                                         *)
(* A document keeps what the recovery and the credential rules tell apart: *)
(* the operator's choices as one value, the telemetry source, the token    *)
(* (the password under the key of an OS account) and a legacy plaintext.   *)
(***************************************************************************)
EXTENDS Naturals

CONSTANTS
    Config,     \* what an operator can choose
    Default,    \* DEFAULT_SETTINGS
    Password,
    Account,    \* OS accounts, each with its own key
    Absent,     \* no such file
    Torn,       \* bytes that are not a JSON object
    None        \* no password, no token, no answer yet

ASSUME StoreAssumption ==
    /\ Default \notin Config
    /\ None \notin Password \cup (Password \X Account)

TelemetrySource == {"none", "mapper-grpc"}
Token == {None} \cup (Password \X Account)
Document == [config : Config \cup {Default}, source : TelemetrySource,
             token : Token, plain : Password \cup {None}]
Content == Document \cup {Absent, Torn}
\* What load() and save() give back: the token never leaves the store.
Logical == [config : Config \cup {Default}, source : TelemetrySource,
            password : Password \cup {None}]

ASSUME ContentAssumption ==
    /\ Absent # Torn /\ {Absent, Torn} \cap Document = {}
    /\ None \notin Logical

VARIABLES
    file, bak, tmp,     \* settings.json, settings.json.bak, settings.json.tmp
    account,            \* the account the app runs under
    available,          \* safeStorage.isEncryptionAvailable()
    sessionPassword,
    recovery,           \* recovery.state
    stage,              \* the next access to the disk; "idle" between calls
    call,               \* the public method under way, and what it is to change
    migrating,          \* the writes under way are migrate()'s
    held,               \* load()'s logical settings, while save() goes on
    out,                \* the document being written
    answer,             \* what the last completed load() or save() gave back
    typed,              \* history: the password as the operator last left it
    promised,           \* history: choices a load may rightfully show
    kept,               \* history: the choices that the last write replaced
    mishaps             \* history: what went wrong that the properties except

disk == <<file, bak, tmp>>
machine == <<account, available>>
memory == <<sessionPassword, recovery>>
task == <<stage, call, migrating, held, out>>
storeHistory == <<typed, promised, kept, mishaps>>
storeVars == <<disk, machine, memory, task, answer, storeHistory>>

Change == {<<"nothing", None>>} \cup ({"config"} \X Config)
              \cup ({"password"} \X (Password \cup {None})) \cup {<<"source", "mapper-grpc">>}
Stages == {"idle", "read", "restore", "restore-rename", "tmp", "backup", "rename"}

SettingsTypeOK ==
    /\ {file, bak, tmp} \subseteq Content
    /\ account \in Account /\ available \in BOOLEAN
    /\ sessionPassword \in Password \cup {None}
    /\ recovery \in {"ok", "restored-from-backup", "reset-to-defaults"}
    /\ stage \in Stages
    /\ call \in [method : {"none", "load", "save", "patch"}, change : Change]
    /\ migrating \in BOOLEAN
    /\ held \in Logical \cup {None}
    /\ out \in Document \cup {None}
    /\ answer \in Logical \cup {None}
    /\ kept \in Config \cup {Default}
    /\ mishaps \subseteq {"corrupt", "recovery", "session"}

NoCall == [method |-> "none", change |-> <<"nothing", None>>]

\* A first launch, or the file of a version that kept the password in plaintext.
StoreInit ==
    /\ \/ file = Absent /\ promised = {Default} /\ kept = Default
       \/ \E c \in Config, p \in Password :
             /\ file = [config |-> c, source |-> "none", token |-> None, plain |-> p]
             /\ promised = {c} /\ kept = c
    /\ bak = Absent /\ tmp = Absent
    /\ account \in Account /\ available \in BOOLEAN
    /\ sessionPassword = None /\ recovery = "ok"
    /\ stage = "idle" /\ call = NoCall /\ migrating = FALSE /\ held = None /\ out = None
    /\ answer = None
    /\ typed = None
    /\ mishaps = {}

-----------------------------------------------------------------------------
\* reveal(): a token opens under the account that made it.
Reveals(token) == available /\ token # None /\ token[2] = account

\* resolveCredential(): the password that counts, from the document and the session.
Plaintext(doc) ==
    IF Reveals(doc.token) THEN doc.token[1]
    ELSE IF doc.plain # None THEN doc.plain
    ELSE IF doc.token = None \/ ~available THEN sessionPassword ELSE None

\* load() remembers a password that is only good for this session.
SessionAfter(doc) ==
    IF Plaintext(doc) # None /\ ~Reveals(doc.token) /\ ~(available /\ doc.plain # None)
    THEN Plaintext(doc) ELSE sessionPassword

\* normalizeSettings() with the effective password laid over it.
LogicalOf(doc) ==
    IF doc = Absent
    THEN [config |-> Default, source |-> "none", password |-> sessionPassword]
    ELSE [config |-> doc.config, source |-> doc.source, password |-> Plaintext(doc)]

\* The patch names a field of the settings.
Merged(l, change) == [l EXCEPT ![change[1]] = change[2]]

\* A token is made of no password too.
Serialize_OfNothing(l) ==
    \E ok \in IF available THEN BOOLEAN ELSE {FALSE} :
        /\ out' = [config |-> l.config, source |-> l.source, plain |-> None,
                   token |-> IF ok THEN <<l.password, account>> ELSE None]
        /\ sessionPassword' = IF ok THEN None ELSE l.password
        /\ stage' = "tmp"
        /\ held' = l

\* A password that could not be protected is forgotten.
Serialize_Forgets(l) ==
    \E ok \in IF l.password # None /\ available THEN BOOLEAN ELSE {FALSE} :
        /\ out' = [config |-> l.config, source |-> l.source, plain |-> None,
                   token |-> IF ok THEN <<l.password, account>> ELSE None]
        /\ sessionPassword' = None
        /\ stage' = "tmp"
        /\ held' = l

\* serialize(): never plaintext; a token only from a password in hand.  protect()
\* may throw although encryption is available.
Serialize(l) ==
    \E ok \in IF l.password # None /\ available THEN BOOLEAN ELSE {FALSE} :
        /\ out' = [config |-> l.config, source |-> l.source, plain |-> None,
                   token |-> IF ok THEN <<l.password, account>> ELSE None]
        /\ sessionPassword' = IF ok THEN None ELSE l.password
        /\ stage' = "tmp"
        /\ held' = l

\* The call ends.
Ends == stage' = "idle" /\ call' = NoCall /\ migrating' = FALSE /\ held' = None /\ out' = None

\* load() hands its settings to its caller: save() merges its patch and serialises.
LoadGives(l, session) ==
    \/ /\ call.method = "save"
       /\ Serialize(Merged(l, call.change))
       /\ migrating' = FALSE
       /\ UNCHANGED <<call, answer>>
    \/ /\ call.method = "load"
       /\ Ends
       /\ answer' = l
       /\ sessionPassword' = session

\* load() past readRawRecovering() (Absent: defaults are the honest answer): a
\* plaintext in the document has to leave the disk first.
LoadOn(doc) ==
    IF doc # Absent /\ doc.plain # None
    THEN Serialize(LogicalOf(doc)) /\ migrating' = TRUE /\ UNCHANGED <<call, answer>>
    ELSE LoadGives(LogicalOf(doc),
                   IF doc = Absent THEN sessionPassword ELSE SessionAfter(doc))

-----------------------------------------------------------------------------
\* A public method is called.
Begin(method, change) ==
    /\ stage = "idle"
    /\ stage' = "read"
    /\ call' = [method |-> method, change |-> change]
    /\ promised' = promised \cup (IF change[1] = "config" THEN {change[2]} ELSE {})
    /\ UNCHANGED <<disk, machine, memory, migrating, held, out, answer, typed, kept, mishaps>>

Load == Begin("load", <<"nothing", None>>)
Save == \E change \in Change \ {<<"nothing", None>>, <<"source", "mapper-grpc">>} : Begin("save", change)
PatchTelemetrySource == Begin("patch", <<"source", "mapper-grpc">>)

\* readRaw() finds an object, or no file.
ReadUsable ==
    /\ stage = "read" /\ call.method # "patch" /\ file # Torn
    /\ LoadOn(file)
    /\ UNCHANGED <<disk, machine, recovery, storeHistory>>

\* The file cannot be parsed: quarantineBadFile() renames it, or cannot.
Quarantine ==
    /\ stage = "read" /\ call.method # "patch" /\ file = Torn
    /\ stage' = "restore"
    /\ file' \in {Absent, file}
    /\ UNCHANGED <<bak, tmp, machine, memory, call, migrating, held, out, answer, storeHistory>>

\* restoreFromBackup(): no usable backup.
RestoreNothing ==
    /\ stage = "restore" /\ bak \notin Document
    /\ recovery' = "reset-to-defaults"
    /\ LoadOn(Absent)
    /\ UNCHANGED <<disk, machine, storeHistory>>

\* restoreFromBackup(): the backup's bytes go to the temporary file, or do not.
RestoreWrite ==
    /\ stage = "restore" /\ bak \in Document
    /\ tmp' = bak
    /\ stage' = "restore-rename"
    /\ UNCHANGED <<file, bak, machine, memory, call, migrating, held, out, answer, storeHistory>>

\* The recovery in memory stands although the rewrite failed.
RestoreWriteFails ==
    /\ stage = "restore" /\ bak \in Document
    /\ tmp' = Torn
    /\ recovery' = "restored-from-backup"
    /\ LoadOn(bak)
    /\ mishaps' = mishaps \cup {"recovery"}
    /\ UNCHANGED <<file, bak, machine, typed, promised, kept>>

\* The settings are restored, and this load starts from the defaults.
RestoreRename_LoadsDefaults ==
    /\ stage = "restore-rename"
    /\ file' = tmp /\ tmp' = Absent
    /\ recovery' = "restored-from-backup"
    /\ LoadOn(Absent)
    /\ UNCHANGED <<bak, machine, storeHistory>>

RestoreRename ==
    /\ stage = "restore-rename"
    /\ file' = tmp /\ tmp' = Absent
    /\ recovery' = "restored-from-backup"
    /\ LoadOn(bak)
    /\ UNCHANGED <<bak, machine, storeHistory>>

RestoreRenameFails ==
    /\ stage = "restore-rename"
    /\ recovery' = "restored-from-backup"
    /\ LoadOn(bak)
    /\ mishaps' = mishaps \cup {"recovery"}
    /\ tmp' = Torn
    /\ UNCHANGED <<file, bak, machine, typed, promised, kept>>

\* The patch writes what load() would give back, without the token.
PatchReads_Normalised ==
    /\ stage = "read" /\ call.method = "patch"
    /\ file \in Document /\ file.plain = None /\ file.source # call.change[2]
    /\ out' = [file EXCEPT !.source = call.change[2], !.token = None]
    /\ stage' = "tmp"
    /\ UNCHANGED <<disk, machine, memory, call, migrating, held, answer, storeHistory>>

\* patchTelemetrySource(): one key of the document as it stands, or no write.
PatchReads ==
    /\ stage = "read" /\ call.method = "patch"
    /\ file \in Document /\ file.plain = None /\ file.source # call.change[2]
    /\ out' = [file EXCEPT !.source = call.change[2]]
    /\ stage' = "tmp"
    /\ UNCHANGED <<disk, machine, memory, call, migrating, held, answer, storeHistory>>

PatchDeclines ==
    /\ stage = "read" /\ call.method = "patch"
    /\ \/ file \notin Document
       \/ file \in Document /\ (file.plain # None \/ file.source = call.change[2])
    /\ Ends
    /\ UNCHANGED <<disk, machine, memory, answer, storeHistory>>

-----------------------------------------------------------------------------
\* The settings file itself is written first.
WriteTmp_InPlace ==
    /\ stage = "tmp"
    /\ file' = Torn /\ tmp' = out
    /\ stage' = "backup"
    /\ UNCHANGED <<bak, machine, memory, call, migrating, held, out, answer, storeHistory>>

\* writeAtomic(): the temporary file.
WriteTmp ==
    /\ stage = "tmp"
    /\ tmp' = out
    /\ stage' = "backup"
    /\ UNCHANGED <<file, bak, machine, memory, call, migrating, held, out, answer, storeHistory>>

\* There is a backup, so the older one is good enough.
BackupCurrent_FirstOnly ==
    /\ stage = "backup"
    /\ bak' = IF file \in Document /\ bak \notin Document
              THEN [file EXCEPT !.plain = None] ELSE bak
    /\ stage' = "rename"
    /\ UNCHANGED <<file, tmp, machine, memory, call, migrating, held, out, answer, storeHistory>>

\* The file is copied as it is.
BackupCurrent_Verbatim ==
    /\ stage = "backup"
    /\ bak' = IF file \in Document THEN file ELSE bak
    /\ stage' = "rename"
    /\ UNCHANGED <<file, tmp, machine, memory, call, migrating, held, out, answer, storeHistory>>

\* backupCurrent() with sanitizeForBackup(): only an object becomes the backup.
BackupCurrent ==
    /\ stage = "backup"
    /\ bak' = IF file \in Document THEN [file EXCEPT !.plain = None] ELSE bak
    /\ stage' = "rename"
    /\ UNCHANGED <<file, tmp, machine, memory, call, migrating, held, out, answer, storeHistory>>

\* The rename that makes the write count.
Commit ==
    /\ stage = "rename"
    /\ file' = tmp /\ tmp' = Absent
    /\ kept' = IF file \in Document THEN file.config ELSE kept
    /\ UNCHANGED <<bak, machine, recovery>>

CommitMigration ==
    /\ Commit /\ migrating
    /\ LoadGives(held, sessionPassword)
    /\ UNCHANGED <<typed, promised, mishaps>>

CommitSave ==
    /\ Commit /\ ~migrating /\ call.method = "save"
    /\ Ends
    /\ answer' = held
    /\ promised' = {held.config}
    /\ typed' = IF call.change[1] = "password" THEN call.change[2] ELSE typed
    /\ UNCHANGED <<sessionPassword, mishaps>>

CommitPatch ==
    /\ Commit /\ ~migrating /\ call.method = "patch"
    /\ Ends
    /\ UNCHANGED <<sessionPassword, answer, typed, promised, mishaps>>

\* A write is cut short.  The backup is written in place and may be left torn.  What
\* is left of the temporary file is never read: every rename follows its rewriting.
Damage ==
    /\ tmp' = Torn
    /\ bak' \in IF stage = "backup" THEN {bak, Torn} ELSE {bak}
    /\ UNCHANGED file

\* migrate() catches the failure and keeps the password in memory.
MigrationFails ==
    /\ stage \in {"tmp", "backup", "rename"} /\ migrating
    /\ Damage
    /\ LoadGives(held, IF held.password # None THEN held.password ELSE sessionPassword)
    /\ UNCHANGED <<machine, recovery, storeHistory>>

PasswordIsOnDisk == file \in Document /\ Reveals(file.token)

\* save() and patchTelemetrySource() throw.  serialize() has settled what the
\* session remembers before the write that fails: the password that was in use may
\* have been in memory only.
WriteThrows ==
    /\ stage \in {"tmp", "backup", "rename"} /\ ~migrating
    /\ Damage
    /\ Ends
    /\ mishaps' = mishaps \cup (IF call.method = "save" /\ ~PasswordIsOnDisk
                              THEN {"session"} ELSE {})
    /\ UNCHANGED <<machine, memory, answer, typed, promised, kept>>

\* The app ends, between two calls or in the middle of one, and starts again
\* under an account and a key store that may be others.
Restart ==
    /\ IF stage \in {"idle", "read"} THEN UNCHANGED disk ELSE Damage
    /\ mishaps' = mishaps \cup (IF stage \in {"restore", "restore-rename"}
                              THEN {"recovery"} ELSE {})
    /\ account' \in Account /\ available' \in BOOLEAN
    /\ sessionPassword' = None /\ recovery' = "ok"
    /\ Ends
    /\ answer' = None /\ typed' = None
    /\ UNCHANGED <<promised, kept>>

\* The disk, or a hand, spoils the settings file between two calls.
Corrupt ==
    /\ stage = "idle" /\ file # Absent
    /\ file' = Torn
    /\ mishaps' = mishaps \cup {"corrupt"}
    /\ UNCHANGED <<bak, tmp, machine, memory, task, answer, typed, promised, kept>>

StoreCalls == Load \/ Save \/ PatchTelemetrySource
StoreSteps ==
    \/ ReadUsable \/ Quarantine
    \/ RestoreNothing \/ RestoreWrite \/ RestoreWriteFails \/ RestoreRename \/ RestoreRenameFails
    \/ PatchReads \/ PatchDeclines
    \/ WriteTmp \/ BackupCurrent \/ CommitMigration \/ CommitSave \/ CommitPatch
    \/ MigrationFails \/ WriteThrows
StoreNext == StoreCalls \/ StoreSteps \/ Restart \/ Corrupt

StoreSpec == StoreInit /\ [][StoreNext]_storeVars

-----------------------------------------------------------------------------
(* Properties *)

\* The settings in a document, or in what load() and save() give back.
Choices(l) == [config |-> l.config, source |-> l.source]
ChoicesIn(content) ==
    IF content \in {Absent, Torn} THEN [config |-> Default, source |-> "none"]
                                  ELSE Choices(content)

Durable == INSTANCE DurableSettings
    WITH Unchanged <- <<"nothing", None>>,
         saved <- ChoicesIn(file),
         request <- call,
         shown <- IF answer = None THEN None ELSE Choices(answer),
         spoilt <- "corrupt" \in mishaps

\* Until a hand spoils the file, the chain of writes is one instant: whatever
\* write fails, wherever the app is cut short and whatever is migrated on the way,
\* a save or a patch has taken place entirely or not at all, and every load shows
\* the settings as they were last saved.  (settingsStore.js:261-306, 312-378)
ImplementsDurableSettings == Durable!DurableSpec

\* Nothing but a file spoilt from outside loses the operator's choices: whatever
\* fails or is cut short, what a load shows was the last save, or one since (the
\* promise of writing to a temporary file and renaming it).
ChoicesSurvive ==
    answer # None /\ "corrupt" \notin mishaps => answer.config \in promised

\* A settings file that is spoilt costs the operator one save at most while there
\* is a backup: what a load shows, the one that finds the file spoilt and every one
\* after it, is the last save or what the last write replaced, whatever else fails
\* or is cut short -- but for a recovery that is itself cut short after the bad file
\* was moved away, where the code shows the defaults.  (settingsStore.js:130-170,
\* 240-266)
BackupAnswers ==
    answer # None /\ bak \in Document /\ "recovery" \notin mishaps =>
        answer.config \in promised \cup {kept}

\* The password the operator typed in this session is the one the app uses for
\* the rest of it, on disk or only in memory, whatever fails -- but for a save that
\* fails to write while the password is in memory only: serialize() has dropped it
\* by then.  (resolveCredential, serialize; settingsStore.js:221, 329)
TypedPasswordHolds ==
    typed # None /\ answer # None /\ mishaps \cap {"corrupt", "session"} = {} =>
        answer.password = typed

\* A plaintext password never enters the disk, not even as a copy of the one that
\* is there, and race day's write leaves the stored password as it is, one this
\* computer cannot read included.  (sanitizeForBackup; settingsStore.js:334)
SecretsAreHandled ==
    [][/\ \A d \in {bak', tmp'} \cap Document : d.plain = None
       /\ file' \in Document /\ file'.plain # None => file' = file
       /\ call.method = "patch" /\ file' # file /\ stage = "rename" =>
             file'.token = file.token]_storeVars

\* What a comment of the code says and the code does not keep: a configuration
\* that the app says it restored stays restored.  (settingsStore.js:148)
RestoreIsDurable ==
    recovery = "restored-from-backup" /\ answer # None /\ bak \in Document =>
        answer.config \in promised \cup {bak.config}
=============================================================================
