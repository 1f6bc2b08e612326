--------------------------- MODULE MapperStreams ----------------------------
(***************************************************************************)
(* The three read-only streams from the drive program: the link watch      *)
(* (src/main/MapperLinkStateClient.js), the telemetry source               *)
(* (MapperTelemetrySource.js) and the head-intent diagnostics              *)
(* (HeadIntentDiagnosticsClient.js).  They are written alike and differ in *)
(* what they show; `client' is the one a behaviour follows.                *)
(*                                                                         *)
(* The handlers are bound to the client and not to the call, so an event   *)
(* of a call the client has let go of is served like one of the current    *)
(* call.  A call ends with an error, an end, or both, one after the other. *)
(***************************************************************************)
EXTENDS Naturals, Sequences

CONSTANTS
    MaxCall,        \* bound: streams opened in a behaviour
    MaxAttempt      \* the failed attempts after which the delay stays at its cap

ASSUME StreamsAssumption == MaxCall \in Nat /\ MaxAttempt \in Nat

VARIABLES
    client,         \* which of the three
    streaming,      \* this._running
    current,        \* this._call; 0 for null
    settled,        \* this._settled
    attempt,        \* this._attempt
    reconnect,      \* this._reconnectTimer is pending
    shown,          \* what the client last said
    calls,          \* the streams opened so far
    oddities        \* history: "crossed", an event of an abandoned call was
                    \* served; "cancelled", the drive program cancelled a call

clientVars == <<streaming, current, settled, attempt, reconnect, shown>>
streamsVars == <<client, clientVars, calls, oddities>>

Client == {"link", "telemetry", "intent"}
LinkStates == [supervisor : {"SupervisorActive", "other"}, port : {"PortConnected", "other"}]
Messages == {"battery", "gps", "flight_mode", "link_stats", "other"}
Causes == {"unavailable", "exhausted", "stream-error", "cancelled"}

\* linkIsUp()
LinkIsUp(state) == state.supervisor = "SupervisorActive" /\ state.port = "PortConnected"

\* mapperFrameToTelemetry(): the fields a message brings.
FieldsOf(message) ==
    CASE message = "battery" -> {"battery"}
      [] message = "gps" -> {"speedKmh"}
      [] message = "flight_mode" -> {"mode"}
      [] message = "link_stats" -> {"link"}
      [] OTHER -> {}

Fields == UNION {FieldsOf(m) : m \in Messages}
Shown(c) ==
    CASE c = "link" -> {"unknown", "up", "down"}
      [] c = "telemetry" -> SUBSET Fields
      [] OTHER -> {"connecting", "live", "unavailable", "exhausted", "stream-error", "stopped"}

\* What a client shows when it is stopped.
Unspoken == CASE client = "link" -> "unknown" [] client = "telemetry" -> {} [] OTHER -> "stopped"

\* What is left of it when its stream is gone: the link is unknown, the readings
\* stay for the HUD to age, the diagnostics name the cause.
AfterClose(cause) ==
    CASE client = "link" -> "unknown" [] client = "telemetry" -> shown [] OTHER -> cause

\* A call is open at the drive program; cancelled by the client; half over, with
\* one of its two last events served; or gone.
StreamsTypeOK ==
    /\ client \in Client
    /\ streaming \in BOOLEAN /\ settled \in BOOLEAN /\ reconnect \in BOOLEAN
    /\ calls \in Seq({"open", "cancelled", "half", "gone"}) /\ Len(calls) <= MaxCall
    /\ current \in 0..Len(calls) /\ attempt \in 0..MaxAttempt
    /\ shown \in Shown(client)
    /\ oddities \subseteq {"crossed", "cancelled"}

StreamsInit ==
    /\ client \in Client
    /\ streaming = FALSE /\ current = 0 /\ settled = FALSE
    /\ attempt = 0 /\ reconnect = FALSE
    /\ shown = Unspoken
    /\ calls = <<>> /\ oddities = {}

-----------------------------------------------------------------------------
\* _onClosed() while running: let go of the call and schedule the one reconnect.
Closed(said, tries) ==
    /\ current' = 0
    /\ shown' = said
    /\ attempt' = IF tries < MaxAttempt THEN tries + 1 ELSE tries
    /\ reconnect' = TRUE

\* The call before this one is still settled when this one ends.
Open_StaysSettled(tries) ==
    /\ UNCHANGED settled
    /\ \/ /\ Len(calls) < MaxCall
          /\ calls' = Append(calls, "open")
          /\ current' = Len(calls) + 1
          /\ shown' = IF client = "intent" THEN "connecting" ELSE shown
          /\ attempt' = tries /\ reconnect' = FALSE
       \/ Closed(AfterClose("unavailable"), tries) /\ UNCHANGED calls

\* _open(): connect() gives a call, or throws.
Open(tries) ==
    /\ settled' = FALSE
    /\ \/ /\ Len(calls) < MaxCall
          /\ calls' = Append(calls, "open")
          /\ current' = Len(calls) + 1
          /\ shown' = IF client = "intent" THEN "connecting" ELSE shown
          /\ attempt' = tries /\ reconnect' = FALSE
       \/ Closed(AfterClose("unavailable"), tries) /\ UNCHANGED calls

\* start()
StartStream ==
    /\ ~streaming /\ streaming' = TRUE
    /\ Open(0)
    /\ UNCHANGED <<client, oddities>>

\* The reconnect timer.
Reconnect ==
    /\ reconnect /\ streaming
    /\ Open(attempt)
    /\ UNCHANGED <<client, streaming, oddities>>

\* The call is let go of and not cancelled.
StopStream_KeepsTheCall ==
    /\ client = "intent" => streaming \/ current # 0 \/ reconnect
    /\ streaming' = FALSE /\ reconnect' = FALSE /\ current' = 0 /\ shown' = Unspoken
    /\ UNCHANGED <<client, settled, attempt, calls, oddities>>

\* stop(): cancel the call, forget what it said.  Only the diagnostics look first
\* whether there is anything to stop.
StopStream ==
    /\ client = "intent" => streaming \/ current # 0 \/ reconnect
    /\ streaming' = FALSE /\ reconnect' = FALSE /\ current' = 0 /\ shown' = Unspoken
    /\ calls' = IF current # 0 /\ calls[current] = "open"
                THEN [calls EXCEPT ![current] = "cancelled"] ELSE calls
    /\ UNCHANGED <<client, settled, attempt, oddities>>

\* An event of call i is served.
Serves(i, event) ==
    oddities' = oddities \cup
        (IF i # current /\ (event = "data" \/ current # 0) THEN {"crossed"} ELSE {}) \cup
        (IF event = "cancelled" /\ calls[i] = "open" THEN {"cancelled"} ELSE {})

\* _onData(), which looks at nothing but the message.
Data(i, said) ==
    /\ calls[i] \in {"open", "cancelled"}
    /\ shown' = said
    /\ attempt' = 0
    /\ Serves(i, "data")
    /\ UNCHANGED <<client, streaming, current, settled, reconnect, calls>>

LinkData(i) ==
    client = "link" /\ \E state \in LinkStates :
        Data(i, IF LinkIsUp(state) THEN "up" ELSE "down")
TelemetryData(i) ==
    client = "telemetry" /\ \E message \in Messages : Data(i, shown \cup FieldsOf(message))
IntentData(i) == client = "intent" /\ Data(i, "live")

\* The last events of a call: the first settles it, the second finds it settled.
Last(i) ==
    calls' = [calls EXCEPT ![i] = IF calls[i] = "half" THEN "gone" ELSE "half"]

\* _onError() and _onEnd(): the first close of a running client schedules the next
\* attempt, unless the call was cancelled.
Close(i, cause) ==
    /\ calls[i] # "gone"
    /\ calls[i] = "cancelled" => cause = "cancelled"
    /\ Last(i)
    /\ Serves(i, cause)
    /\ settled' = TRUE
    /\ IF settled \/ ~streaming \/ cause = "cancelled"
       THEN UNCHANGED <<current, attempt, reconnect, shown>>
       ELSE Closed(AfterClose(cause), attempt)
    /\ UNCHANGED <<client, streaming>>

LinkError(i) == client = "link" /\ \E cause \in Causes : Close(i, cause)
TelemetryError(i) == client = "telemetry" /\ \E cause \in Causes : Close(i, cause)
IntentError(i) == client = "intent" /\ \E cause \in Causes : Close(i, cause)
StreamEnds(i) == calls[i] # "cancelled" /\ Close(i, "stream-error")

Served(i) ==
    LinkData(i) \/ TelemetryData(i) \/ IntentData(i)
        \/ LinkError(i) \/ TelemetryError(i) \/ IntentError(i) \/ StreamEnds(i)

StreamsNext ==
    StartStream \/ Reconnect \/ StopStream \/ \E i \in DOMAIN calls : Served(i)

StreamsSpec == StreamsInit /\ [][StreamsNext]_streamsVars

-----------------------------------------------------------------------------
(* Properties *)

Orderly == oddities = {}

\* A running client never goes deaf: it has a stream open, or its next attempt is
\* scheduled ("a dead stream must never wedge the app").
StreamIsRetried ==
    Orderly /\ streaming => reconnect \/ (current # 0 /\ calls[current] = "open")

\* The client holds every stream that is open at the drive program, which serves
\* four: none is left behind for good by a stop, an error or a reconnect.
NoStreamLeaks == Orderly => \A i \in DOMAIN calls : calls[i] = "open" => i = current

\* The link is claimed up or down, and the diagnostics live, only over a stream that
\* is still there; nothing of a session is shown after it (_onClosed, stop).
ClaimHasItsStream ==
    /\ Orderly /\ (<<client, shown>> \in {<<"link", "up">>, <<"link", "down">>, <<"intent", "live">>}) =>
           current # 0 /\ calls[current] = "open"
    /\ Orderly /\ ~streaming => shown = Unspoken
=============================================================================
