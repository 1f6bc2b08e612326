------------------------------ MODULE SeatFit -------------------------------
(***************************************************************************)
(* The SEAT FIT step of the renderer: which device the mirrors follow and  *)
(* how a control of the wheel is assigned by moving it                     *)
(* (src/renderer/setupFlow.js, with shared/inputPresets.mjs and            *)
(* shared/wheelProfile.mjs), and what the HUD is handed at START (hud.js). *)
(*                                                                         *)
(* A device is its slot.  What matters of its axes and buttons is whether  *)
(* it rests, has an axis away from rest, or has a button down.             *)
(***************************************************************************)
EXTENDS Naturals, FiniteSets, FiniteSetsExt

CONSTANTS Slot,     \* the slots of the Gamepad API, numbers
          AutoKey,  \* no device was picked
          Nobody    \* no device

ASSUME SlotAssumption ==
    Slot # {} /\ Slot \subseteq Nat /\ IsFiniteSet(Slot) /\ {AutoKey, Nobody} \cap Slot = {}

VARIABLES
    posture,    \* per slot: "gone", "rest", "axis" or "button"
    atSeatfit,  \* SEAT FIT is the current step
    type,       \* inputType: "gamepad", "wheel" or "both"
    padKey,     \* chosenPadKey
    wheelKey,   \* wheelPadKey
    pedals,     \* wheelProfile.pedalMode: "separate" or "combined"
    listening,  \* the role that waits for an input, or "none"
    listenPrev, \* the posture of the wheel when the listen began
    clock,      \* listenTimer is set
    source      \* what the HUD follows: [type, wheel]

seatVars == <<posture, atSeatfit, type, padKey, wheelKey, pedals, listening, listenPrev, clock, source>>
listenVars == <<listening, listenPrev, clock>>

Type == {"gamepad", "wheel", "both"}
Role == {"steer", "throttle", "combined", "gearUp"}
Posture == {"gone", "rest", "axis", "button"}

SeatTypeOK ==
    /\ posture \in [Slot -> Posture]
    /\ atSeatfit \in BOOLEAN /\ clock \in BOOLEAN
    /\ type \in Type
    /\ padKey \in Slot \cup {AutoKey} /\ wheelKey \in Slot \cup {AutoKey}
    /\ pedals \in {"separate", "combined"}
    /\ listening \in Role \cup {"none"}
    /\ listenPrev \in Posture \cup {"none"}
    /\ source \in [type : Type, wheel : Slot \cup {Nobody}]

SeatInit ==
    /\ posture \in [Slot -> {"gone", "rest"}]
    /\ atSeatfit = FALSE
    /\ type = "gamepad"
    /\ padKey = AutoKey
    /\ wheelKey = AutoKey
    /\ pedals \in {"separate", "combined"}
    /\ listening = "none"
    /\ listenPrev = "none"
    /\ clock = FALSE
    /\ source = [type |-> "gamepad", wheel |-> Nobody]
-----------------------------------------------------------------------------
Present == {d \in Slot : posture[d] # "gone"}

\* A device that was picked and is gone is missing: no other takes its place.
Resolve(key) == IF key = AutoKey
                THEN IF Present = {} THEN Nobody ELSE Min(Present)
                ELSE IF key \in Present THEN key ELSE Nobody

\* The wheel of a session with both is the first device that is not the gamepad.
WheelPad(t, pad, key) ==
    IF t = "both" /\ key = AutoKey
    THEN LET gamepad == Resolve(pad)
             others == Present \ {IF gamepad = Nobody THEN pad ELSE gamepad}
         IN  IF others = {} THEN Nobody ELSE Min(others)
    ELSE Resolve(key)

PostureOf(d) == IF d = Nobody THEN "gone" ELSE posture[d]

\* A button that went down wins over an axis that moved; a device that was
\* not there has no axis to compare.
DetectInputChange(prev, now) ==
    IF now = "button" /\ prev # "button" THEN "button"
    ELSE IF {prev, now} \subseteq {"rest", "axis", "button"}
            /\ (prev = "axis") # (now = "axis") THEN "axis"
    ELSE "none"

Kind(role) == IF role \in {"steer", "throttle", "combined"} THEN "axis" ELSE "button"

\* The roles the wheel panel offers.
Panel(mode) == {"steer", "gearUp", IF mode = "separate" THEN "throttle" ELSE "combined"}

CancelListen == /\ listening' = "none"
                /\ listenPrev' = "none"
                /\ clock' = FALSE

\* A poll, after it painted the rows: the input that was waited for assigns the role.
Tick(pad, key) ==
    IF /\ type # "gamepad" /\ listening # "none"
       /\ DetectInputChange(listenPrev, PostureOf(WheelPad(type, pad, key))) = Kind(listening)
    THEN CancelListen
    ELSE UNCHANGED listenVars

Move(d) == /\ posture' \in {[posture EXCEPT ![d] = p] : p \in Posture \ {posture[d]}}
           /\ UNCHANGED <<atSeatfit, type, padKey, wheelKey, pedals, listenVars, source>>
-----------------------------------------------------------------------------
\* The type stays what it was; the picks of the last visit do not, and the
\* profile is what the settings hold by now: the last edit's save may be awaited
\* still, or may have failed.
EnterSeatfit ==
    /\ ~atSeatfit
    /\ atSeatfit' = TRUE
    /\ padKey' = AutoKey
    /\ wheelKey' = AutoKey
    /\ pedals' \in {"separate", "combined"}
    /\ CancelListen
    /\ UNCHANGED <<posture, type, source>>

LeaveSeatfit ==
    /\ atSeatfit
    /\ atSeatfit' = FALSE
    /\ CancelListen
    /\ UNCHANGED <<posture, type, padKey, wheelKey, pedals, source>>

ApplyInputType(t) ==
    /\ atSeatfit
    /\ type' = t
    /\ wheelKey' = AutoKey
    /\ CancelListen
    /\ UNCHANGED <<posture, atSeatfit, padKey, pedals, source>>

StartListen(role) ==
    /\ atSeatfit /\ type # "gamepad"
    /\ role \in Panel(pedals)
    /\ listening' = role
    /\ listenPrev' = PostureOf(WheelPad(type, padKey, wheelKey))
    /\ clock' = TRUE
    /\ UNCHANGED <<posture, atSeatfit, type, padKey, wheelKey, pedals, source>>

ListenTimesOut ==
    /\ clock
    /\ CancelListen
    /\ UNCHANGED <<posture, atSeatfit, type, padKey, wheelKey, pedals, source>>

\* The listen survives the change of pedals.
SetPedalMode_KeepsTheListen(mode) ==
    /\ atSeatfit /\ type # "gamepad"
    /\ pedals # mode
    /\ pedals' = mode
    /\ UNCHANGED <<posture, atSeatfit, type, padKey, wheelKey, listenVars, source>>

SetPedalMode(mode) ==
    /\ atSeatfit /\ type # "gamepad"
    /\ pedals # mode
    /\ pedals' = mode
    /\ CancelListen
    /\ UNCHANGED <<posture, atSeatfit, type, padKey, wheelKey, source>>

PickPad(d) ==
    /\ atSeatfit /\ type # "wheel" /\ d \in Present
    /\ padKey' = d
    /\ UNCHANGED <<posture, atSeatfit, type, wheelKey, pedals, source>>
    /\ Tick(d, wheelKey)

\* A listen goes on, with the posture of the device it began with.
PickWheel(d) ==
    /\ atSeatfit /\ type # "gamepad" /\ d \in Present
    /\ wheelKey' = d
    /\ UNCHANGED <<posture, atSeatfit, type, padKey, pedals, source>>
    /\ Tick(padKey, d)

SeatfitTick ==
    /\ atSeatfit
    /\ Tick(padKey, wheelKey)
    /\ UNCHANGED <<posture, atSeatfit, type, padKey, wheelKey, pedals, source>>

\* START, from the GRID.
ApplyInputSource ==
    /\ ~atSeatfit
    /\ source' = [type |-> type,
                  wheel |-> IF type = "gamepad" THEN Nobody ELSE WheelPad(type, padKey, wheelKey)]
    /\ UNCHANGED <<posture, atSeatfit, type, padKey, wheelKey, pedals, listenVars>>

SeatNext ==
    \/ \E d \in Slot : Move(d) \/ PickPad(d) \/ PickWheel(d)
    \/ EnterSeatfit \/ LeaveSeatfit
    \/ \E t \in Type : ApplyInputType(t)
    \/ \E role \in Role : StartListen(role)
    \/ \E mode \in {"separate", "combined"} : SetPedalMode(mode)
    \/ ListenTimesOut \/ SeatfitTick \/ ApplyInputSource

SeatSpec == SeatInit /\ [][SeatNext]_seatVars
-----------------------------------------------------------------------------
\* A listen is for a row that can be seen and ends by itself: no move made
\* later, on another step or with the panel changed, is taken for an assignment.
\* (setupFlow.js:1236-1238, 1382-1397)
ListenNeverOutlivesItsRow ==
    listening # "none" => /\ atSeatfit /\ type # "gamepad"
                          /\ listening \in Panel(pedals)
                          /\ clock
=============================================================================
