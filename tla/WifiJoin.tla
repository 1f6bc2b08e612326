------------------------------ MODULE WifiJoin ------------------------------
(***************************************************************************)
(* Joining a network from PIT WALL: the selection and the password field   *)
(* of setupFlow.js, the decisions of shared/wifiView.mjs and the join of   *)
(* main/wifiManager.js behind them.                                        *)
(*                                                                         *)
(* What netsh answers is a choice over its answers: no claim is made about *)
(* the radio, only about which adapter, network and password the app names *)
(* to it.  Leaving PIT WALL resets nothing of this, so the step is not in  *)
(* the model; of the ADAPTER card (PitWall) only what a join takes from it *)
(* is, as a choice.                                                        *)
(***************************************************************************)
EXTENDS Naturals

CONSTANTS
    Net,        \* network names
    Call,       \* bound: joins under way at once
    NoNet       \* no network, an empty password field

ASSUME JoinAssumption == NoNet \notin Net

VARIABLES
    target,     \* joinTarget: network and plan
    row,        \* the password row shows
    field,      \* the network for which the password field was filled
    joins       \* the joins under way, in the manager

joinVars == <<target, row, field, joins>>

Security == {"open", "wpa2-personal", "wpa2-wpa3-transition", "wpa3-only", "enterprise", "unknown"}
NoJoin == [at |-> "idle", net |-> NoNet, pinned |-> FALSE, password |-> NoNet, missing |-> 0]

JoinMissingPolls == 3

JoinTypeOK ==
    /\ row \in BOOLEAN
    /\ target = NoNet \/ target \in [net : Net, action : {"join", "open", "password"}]
    /\ field \in Net \cup {NoNet}
    /\ joins \in [Call -> [at : {"idle", "adding", "connecting", "polling"},
                           net : Net \cup {NoNet}, pinned : BOOLEAN,
                           password : Net \cup {NoNet}, missing : 0 .. JoinMissingPolls - 1]]

JoinInit ==
    /\ target = NoNet
    /\ row = FALSE
    /\ field = NoNet
    /\ joins = [j \in Call |-> NoJoin]
-----------------------------------------------------------------------------
\* joinPlan
JoinPlan(security, known) ==
    CASE security \in {"wpa3-only", "enterprise"} -> "reject"
      [] security = "open" -> "open"
      [] security \notin {"wpa3-only", "enterprise", "open"} /\ known -> "join"
      [] security = "unknown" /\ ~known -> "reject"
      [] security \in {"wpa2-personal", "wpa2-wpa3-transition"} /\ ~known -> "password"

\* What WifiManager.join does first with a request: refuse it, install a
\* profile, or connect with the one Windows has.
ManagerPlan(security, known, hasPassword) ==
    IF security \in {"wpa3-only", "enterprise"} \/ (security = "unknown" /\ ~known)
    THEN "refuse"
    ELSE IF (security = "open" /\ ~known) \/ hasPassword THEN "add"
    ELSE IF ~known /\ security # "open" THEN "refuse"
    ELSE "connect"
-----------------------------------------------------------------------------
\* doJoin up to its await: join j of the manager begins, pinned to the picker's
\* adapter if there is a picker.
DoJoin(n, action, profile, password) ==
    \/ UNCHANGED joins      \* the picker demands a decision, or the manager refuses
    \/ \E j \in Call, pinned \in BOOLEAN :
            /\ profile # "refuse"
            /\ joins[j].at = "idle"
            /\ joins' = [joins EXCEPT ![j] =
                 [at |-> IF profile = "add" THEN "adding" ELSE "connecting",
                  net |-> n, missing |-> 0,
                  pinned |-> pinned,
                  password |-> IF action = "password" THEN password ELSE NoNet]]

\* The password field keeps what was typed for another network.
SelectNetwork_KeepsTheField(n, security, known) ==
    /\ LET action == JoinPlan(security, known)
       IN  /\ target' = IF action = "reject" THEN NoNet ELSE [net |-> n, action |-> action]
           /\ row' = (action \in {"open", "password"})
           /\ IF action = "join"
              THEN DoJoin(n, action, ManagerPlan(security, known, FALSE), NoNet)
              ELSE UNCHANGED joins
    /\ UNCHANGED field

\* A click on a row of the scan.
SelectNetwork(n, security, known) ==
    /\ LET action == JoinPlan(security, known)
       IN  /\ target' = IF action = "reject" THEN NoNet ELSE [net |-> n, action |-> action]
           /\ row' = (action \in {"open", "password"})
           /\ field' = IF action = "password" THEN NoNet ELSE field
           /\ IF action = "join"
              THEN DoJoin(n, action, ManagerPlan(security, known, FALSE), NoNet)
              ELSE UNCHANGED joins

TypePassword ==
    /\ row /\ target # NoNet
    /\ target.action = "password"
    /\ field' \in {target.net, NoNet}
    /\ UNCHANGED <<target, row, joins>>

\* JOIN, or Enter in the password field.
PressJoin ==
    /\ row /\ target # NoNet
    /\ \E known \in BOOLEAN :
          /\ target.action = "password" => ~known
          /\ DoJoin(target.net, target.action,
                    ManagerPlan(IF target.action = "open" THEN "open" ELSE "wpa2-personal",
                                known, target.action = "password" /\ field # NoNet),
                    field)
    /\ UNCHANGED <<target, row, field>>

ProfileIsAdded(j) ==
    /\ joins[j].at = "adding"
    /\ \/ joins' = [joins EXCEPT ![j].at = "connecting", ![j].password = NoNet]
       \/ joins' = [joins EXCEPT ![j] = NoJoin]       \* add-profile-failed
    /\ UNCHANGED <<target, row, field>>

ConnectAnswers(j) ==
    /\ joins[j].at = "connecting"
    /\ \/ joins' = [joins EXCEPT ![j].at = "polling"]
       \/ joins' = [joins EXCEPT ![j] = NoJoin]       \* connect-failed
    /\ UNCHANGED <<target, row, field>>

\* The poll finds the adapter on the network: joined.
PollFindsIt(j) ==
    /\ joins[j].at = "polling"
    /\ joins' = [joins EXCEPT ![j] = NoJoin]
    /\ row' = FALSE
    /\ UNCHANGED <<target, field>>

\* The miss after the third ends it.
PollMisses_OnceTooOften(j) ==
    /\ joins[j].at = "polling"
    /\ \/ joins' = [joins EXCEPT ![j].missing = 0]
       \/ /\ joins[j].pinned
          /\ joins' = IF joins[j].missing = JoinMissingPolls THEN [joins EXCEPT ![j] = NoJoin]
                      ELSE [joins EXCEPT ![j].missing = @ + 1]
    /\ UNCHANGED <<target, row, field>>

\* The poll finds it elsewhere or fails, or the pinned adapter is missing: the
\* third time in a row is the end.
PollMisses(j) ==
    /\ joins[j].at = "polling"
    /\ \/ joins' = [joins EXCEPT ![j].missing = 0]
       \/ /\ joins[j].pinned
          /\ joins' = IF joins[j].missing + 1 = JoinMissingPolls THEN [joins EXCEPT ![j] = NoJoin]
                      ELSE [joins EXCEPT ![j].missing = @ + 1]
    /\ UNCHANGED <<target, row, field>>

JoinTimesOut(j) ==
    /\ joins[j].at = "polling"
    /\ joins' = [joins EXCEPT ![j] = NoJoin]
    /\ UNCHANGED <<target, row, field>>

JoinNext ==
    \/ \E n \in Net, security \in Security, known \in BOOLEAN : SelectNetwork(n, security, known)
    \/ TypePassword \/ PressJoin
    \/ \E j \in Call : \/ ProfileIsAdded(j) \/ ConnectAnswers(j)
                       \/ PollFindsIt(j) \/ PollMisses(j) \/ JoinTimesOut(j)

JoinSpec == JoinInit /\ [][JoinNext]_joinVars
-----------------------------------------------------------------------------
\* A password typed for one network is never sent for another, whatever is
\* selected, rescanned or left in between.  (setupFlow.js:869-912)
PasswordStaysWithItsNetwork ==
    \A j \in Call : joins[j].password \in {joins[j].net, NoNet}
=============================================================================
