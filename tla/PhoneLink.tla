----------------------------- MODULE PhoneLink ------------------------------
(***************************************************************************)
(* What the ground station hears of the phone: the mDNS lookup             *)
(* (src/main/HudDiscovery.js over shared/hudDiscovery.js), the log-only    *)
(* head-tracking receiver (HeadTrackingReceiver.js over                    *)
(* shared/headTracking.js), the sender hint (remoteAddrHint.js) and the    *)
(* one suggestion the address field makes of them                          *)
(* (shared/addressProviders.mjs, setupFlow.js pollAddrHint).               *)
(*                                                                         *)
(* Time goes by in units of the renderer's poll (2 s); the bounds below    *)
(* stand for 30 s and 15 s.  A head-tracking packet older than a unit is   *)
(* stale (300 ms).  A datagram describes one HUD; what makes the app       *)
(* decline it is kept, its wire format is not.                             *)
(***************************************************************************)
EXTENDS Naturals, FiniteSets

CONSTANTS
    Addr,           \* usable unicast addresses
    NoAddr,
    MaxCandidates,  \* MAX_CANDIDATES
    Ttl,            \* ttlMs, and HINT_MAX_AGE_MS
    IdleClose       \* idleCloseMs

ASSUME PhoneAssumption ==
    /\ NoAddr \notin Addr
    /\ {MaxCandidates, Ttl, IdleClose} \subseteq Nat \ {0}

Off == IdleClose + 1    \* no idle timer
Never == Ttl + 1        \* ages count up to here: too old, or never heard
Age == 0 .. Never

VARIABLES
    polling,    \* PIT WALL is shown, its interval runs
    socket,     \* the lookup's socket: "none", "binding" or "ready"
    bound,      \* the code's flag of that name
    dropped,    \* a closed socket whose bind callback is still to come
    idle,       \* what is left of the idle timer, or Off
    cache,      \* the age of each candidate; Never for none
    silence,    \* how long ago each HUD announced itself, or took leave
    hint,       \* the last sender of an accepted packet, and its age
    offer,      \* the address on the chip
    w3,         \* the receiver: "off", "on" or "fault"
    packet,     \* the last valid one: "none", "inactive", "uncentered", "active"
    fresh,      \* it is not stale
    garbage     \* an invalid packet was counted

lookupVars == <<socket, bound, dropped, idle>>
offerVars == <<polling, offer>>
w3Vars == <<w3, packet, fresh, garbage>>
phoneVars == <<lookupVars, offerVars, cache, silence, hint, w3Vars>>

PhoneTypeOK ==
    /\ socket \in {"none", "binding", "ready"}
    /\ polling \in BOOLEAN /\ bound \in BOOLEAN /\ dropped \in BOOLEAN
    /\ fresh \in BOOLEAN /\ garbage \in BOOLEAN
    /\ idle \in 0 .. Off
    /\ cache \in [Addr -> Age] /\ silence \in [Addr -> Age]
    /\ hint \in [addr : Addr \cup {NoAddr}, age : Age]
    /\ offer \in Addr \cup {NoAddr}
    /\ w3 \in {"off", "on", "fault"}
    /\ packet \in {"none", "inactive", "uncentered", "active"}

PhoneInit ==
    /\ polling = FALSE
    /\ socket = "none" /\ bound = FALSE /\ dropped = FALSE
    /\ idle = Off
    /\ cache = [a \in Addr |-> Never]
    /\ silence = [a \in Addr |-> Never]
    /\ hint = [addr |-> NoAddr, age |-> Never]
    /\ offer = NoAddr
    /\ w3 = "off" /\ packet = "none" /\ fresh = FALSE /\ garbage = FALSE
-----------------------------------------------------------------------------
(* What a datagram says, and what the policy makes of it.                  *)

Advert == [srv : {"good", "bad"},           \* bad: missing, or its port is none
           addr : Addr \cup {NoAddr},       \* NoAddr: no usable A record
           txt : {"ours", "other"},         \* other: version, role or port
           gone : BOOLEAN]                  \* a record has TTL 0

\* validateAdvertisement.
Acceptable(ad) == ad.srv = "good" /\ ad.addr # NoAddr /\ ad.txt = "ours"

Candidates == {a \in Addr : cache[a] < Never}

\* The stalest of the candidates, one of them if several are.
Stalest(a) == a \in Candidates /\ \A b \in Candidates : cache[b] <= cache[a]

\* onMessage for one acceptable HUD: a goodbye retires it, whoever says it; an
\* address that is not the sender's is ignored; a full cache gives up a stalest.
Remember_CachesTheGoodbye(ad, from) ==
    IF ad.addr # from THEN UNCHANGED cache
    ELSE IF ad.addr \in Candidates \/ Cardinality(Candidates) < MaxCandidates
    THEN cache' = [cache EXCEPT ![ad.addr] = 0]
    ELSE \E old \in Addr : /\ Stalest(old)
                           /\ cache' = [cache EXCEPT ![old] = Never, ![ad.addr] = 0]

Remember(ad, from) ==
    IF ad.gone THEN cache' = [cache EXCEPT ![ad.addr] = Never]
    ELSE IF ad.addr # from THEN UNCHANGED cache
    ELSE IF ad.addr \in Candidates \/ Cardinality(Candidates) < MaxCandidates
    THEN cache' = [cache EXCEPT ![ad.addr] = 0]
    ELSE \E old \in Addr : /\ Stalest(old)
                           /\ cache' = [cache EXCEPT ![old] = Never, ![ad.addr] = 0]

Hear(ad, from) ==
    /\ socket # "none"
    /\ IF Acceptable(ad) THEN Remember(ad, from) ELSE UNCHANGED cache
    /\ silence' = IF Acceptable(ad) /\ ad.addr = from
                  THEN [silence EXCEPT ![from] = IF ad.gone THEN Never ELSE 0]
                  ELSE silence
    /\ UNCHANGED <<lookupVars, offerVars, hint, w3Vars>>
-----------------------------------------------------------------------------
CloseSocket == /\ socket' = "none"
               /\ bound' = FALSE
               /\ idle' = Off
               /\ dropped' = (dropped \/ socket = "binding")

\* The socket's own bind callback, which sends the first query.
BindCompletes ==
    /\ socket = "binding"
    /\ socket' = "ready"
    /\ bound' = TRUE
    /\ UNCHANGED <<dropped, idle, offerVars, cache, silence, hint, w3Vars>>

\* The bind callback of a socket that was dropped: it is not the current one.
LateBind_Unchecked == dropped /\ dropped' = FALSE /\ bound' = (socket # "none")
                      /\ UNCHANGED <<socket, idle, offerVars, cache, silence, hint, w3Vars>>
LateBind == dropped /\ dropped' = FALSE
            /\ UNCHANGED <<socket, bound, idle, offerVars, cache, silence, hint, w3Vars>>

SocketError ==
    /\ socket # "none"
    /\ CloseSocket
    /\ UNCHANGED <<offerVars, cache, silence, hint, w3Vars>>

\* Teardown.
StopLookup ==
    /\ CloseSocket
    /\ cache' = [a \in Addr |-> Never]
    /\ UNCHANGED <<offerVars, silence, hint, w3Vars>>

\* The suggestion: the sender of a fresh packet, else a freshest candidate.
Suggests(a) ==
    IF hint.age < Never THEN a = hint.addr
    ELSE IF Candidates = {} THEN a = NoAddr
    ELSE a \in Candidates /\ \A b \in Candidates : cache[a] <= cache[b]

\* setup:addr-hint: open the socket if there is none (or fail to), query if
\* bound, put the idle timer off, answer; pollAddrHint shows what it says,
\* unless the field has it already.
Poll ==
    /\ polling
    /\ socket' \in IF socket = "none" THEN {"none", "binding"} ELSE {socket}
    /\ idle' = IdleClose
    /\ \E a \in Addr \cup {NoAddr} : Suggests(a) /\ offer' \in {a, NoAddr}
    /\ UNCHANGED <<bound, dropped, polling, cache, silence, hint, w3Vars>>

\* PIT WALL is entered or left.
TogglePolling == polling' = ~polling
                 /\ UNCHANGED <<lookupVars, offer, cache, silence, hint, w3Vars>>

Older(age) == IF age < Never THEN age + 1 ELSE Never

\* A unit of time.  At the end of the idle timer the socket is closed.
Pass ==
    /\ cache' = [a \in Addr |-> Older(cache[a])]
    /\ silence' = [a \in Addr |-> Older(silence[a])]
    /\ hint' = [hint EXCEPT !.age = Older(hint.age)]
    /\ fresh' = FALSE
    /\ IF idle = 0 THEN CloseSocket
       ELSE /\ idle' = IF idle = Off THEN Off ELSE idle - 1
            /\ UNCHANGED <<socket, bound, dropped>>
    /\ UNCHANGED <<offerVars, w3, packet, garbage>>
-----------------------------------------------------------------------------
\* The holder of the receiver constructs one anew, or stops the one it has.
ApplyW3 ==
    /\ w3' = IF w3 = "off" THEN "on" ELSE "off"
    /\ packet' = "none" /\ fresh' = FALSE /\ garbage' = FALSE
    /\ UNCHANGED <<lookupVars, offerVars, cache, silence, hint>>

\* The socket fails (UDP 5602 is taken): nothing but a new receiver mends that.
W3Fails ==
    /\ w3 = "on"
    /\ w3' = "fault"
    /\ UNCHANGED <<lookupVars, offerVars, cache, silence, hint, packet, fresh, garbage>>

\* A datagram: only a valid one leaves more than a count.  An error on the socket
\* does not close it.
Packet(from, kind) ==
    /\ w3 # "off"
    /\ IF kind = "invalid"
       THEN garbage' = TRUE /\ UNCHANGED <<packet, fresh, hint>>
       ELSE /\ packet' = kind
            /\ fresh' = TRUE
            /\ hint' = [addr |-> from, age |-> 0]
            /\ UNCHANGED garbage
    /\ UNCHANGED <<lookupVars, offerVars, cache, silence, w3>>

\* HeadTrackingReceiver.state().
W3State ==
    CASE w3 = "fault" -> "fault"
      [] w3 = "off" -> "disabled"
      [] packet = "none" -> IF garbage THEN "invalid" ELSE "idle"
      [] ~fresh -> "stale"
      [] packet = "inactive" -> "inactive"
      [] packet = "uncentered" -> "not_centered"
      [] packet = "active" -> "active_log_only"

PhoneNext ==
    \/ \E ad \in Advert, from \in Addr : Hear(ad, from)
    \/ BindCompletes \/ LateBind \/ SocketError \/ StopLookup
    \/ Poll \/ TogglePolling \/ Pass
    \/ ApplyW3 \/ W3Fails
    \/ \E from \in Addr, kind \in {"invalid", "inactive", "uncentered", "active"} :
          Packet(from, kind)

PhoneSpec == PhoneInit /\ [][PhoneNext]_phoneVars
-----------------------------------------------------------------------------
\* The app never browses the network in the background: an open socket is on
\* the idle timer's clock, and it asks only through the socket that is bound,
\* whatever the order of polls, errors and late callbacks.
\* (HudDiscovery.js:13-19, 155-158, 169-175)
LookupIsClocked == /\ socket # "none" => idle # Off
                   /\ bound <=> socket = "ready"

\* A HUD that took leave, or was not heard for the time an entry is offered,
\* is not a candidate.  (HudDiscovery.js:45-49, 121-127)
CandidatesAreAlive == \A a \in Candidates : silence[a] < Never

\* The lookup asks on a clock and through a bound socket, and offers only who
\* is still there, however its cache is evicted and its socket replaced.
LookupIsSound == LookupIsClocked /\ CandidatesAreAlive

\* An invalid packet never replaces the last valid state.
\* (headTracking.js:130-131)
GarbageChangesNothing ==
    [][garbage' # garbage /\ w3' = w3 => W3State' \in {W3State, "invalid"} /\ hint' = hint]_phoneVars
=============================================================================
