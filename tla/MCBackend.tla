----------------------------- MODULE MCBackend ------------------------------
(***************************************************************************)
(* Four parts of the main process for one run of TLC: the settings store,  *)
(* the streams from the drive program, the telemetry of a session and the  *)
(* link to the phone. No action of one reads a variable of another (what   *)
(* one sees of another is modelled in its own module), so a behaviour      *)
(* follows one part while the others rest, each at one of its initial      *)
(* states: their states add up instead of multiplying.                     *)
(***************************************************************************)
EXTENDS SettingsStore, MapperStreams, Session, PhoneLink

CONSTANTS c1, p1, a1, a2

VARIABLE part   \* the part that is followed

BackendTypeOK ==
    /\ SettingsTypeOK
    /\ StreamsTypeOK
    /\ SessionTypeOK
    /\ PhoneTypeOK

\* No source of readings is given up while it is wanted, and none is kept twice:
\* whatever errors, ends and closes come in whatever order, a stream or a serial
\* port is there or its next attempt is scheduled, and the client holds every
\* stream that is open at the drive program.
\* (MapperLinkStateClient.js:47-63, 86-122; CrsfSerialSource.js:36-76)
SourcesStayInHand == StreamIsRetried /\ NoStreamLeaks /\ SerialIsRetried

BackendInit ==
    /\ part \in {"store", "streams", "session", "phone"}
    /\ StoreInit /\ (part # "store" => file = Absent /\ available /\ account = a1)
    /\ StreamsInit /\ (part # "streams" => client = "link")
    /\ SessionInit /\ (part # "session" => wanted = [source |-> "none", bridge |-> FALSE] /\ native)
    /\ PhoneInit

StorePart ==
    /\ part = "store" /\ StoreNext
    /\ UNCHANGED <<part, streamsVars, sessionVars, phoneVars>>
StreamsPart ==
    /\ part = "streams" /\ StreamsNext
    /\ UNCHANGED <<part, storeVars, sessionVars, phoneVars>>
SessionPart ==
    /\ part = "session" /\ SessionNext
    /\ UNCHANGED <<part, storeVars, streamsVars, phoneVars>>
PhonePart ==
    /\ part = "phone" /\ PhoneNext
    /\ UNCHANGED <<part, storeVars, streamsVars, sessionVars>>

BackendNext == StorePart \/ StreamsPart \/ SessionPart \/ PhonePart

BackendSpec ==
    BackendInit /\ [][BackendNext]_<<part, storeVars, streamsVars, sessionVars, phoneVars>>
=============================================================================
