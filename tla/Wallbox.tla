------------------------------ MODULE Wallbox ------------------------------
(***************************************************************************)
(* The wallbox, its car and the network in between, as far as the          *)
(* integration depends on them.  None of this is code of the repository:   *)
(* the actions are what const.py's status table, the README's account of   *)
(* the ECU and the comments in coordinator.py say of the device, and they  *)
(* over-approximate it.                                                    *)
(***************************************************************************)
EXTENDS AmtronDefs

CONSTANTS
    Events,           \* what happens outside: a subset of PossibleEvents
    Faults,           \* uncontrollable statuses the wallbox may enter
    InitStatuses      \* statuses found when the entry is set up

PossibleEvents ==
    {"unplug", "selfstart", "carpause", "sessionend", "linkfails", "lostreply",
     "malformed"}

ASSUME EventAssumption ==
    /\ Events \subseteq PossibleEvents
    /\ Faults \subseteq UncontrollableStatuses
    /\ InitStatuses \subseteq CP_STATUS

VARIABLES
    status,           \* OCPP charge point status, register 104
    limit,            \* HEMS current limit, register 1000
    link              \* requests reach the wallbox

wallbox == <<status, limit, link>>

WallboxTypeOK ==
    /\ status \in CP_STATUS
    /\ limit \in Nat
    /\ link \in BOOLEAN

WallboxInit ==
    /\ status \in InitStatuses
    /\ limit \in {0, StartCurrent}
    /\ link = TRUE

\* The status of an open session at the offered current.
InSession(amps) == IF amps < MIN_CURRENT_A THEN "suspended_evse" ELSE "charging"

(***************************************************************************)
(* The car and the station.                                                *)
(***************************************************************************)
Plug ==
    /\ status = "available"
    /\ status' = "preparing"
    /\ UNCHANGED <<limit, link>>

Unplug ==
    /\ "unplug" \in Events
    /\ status \in CONTROLLABLE_STATUSES \ {"available"}
    /\ status' = "available"
    /\ UNCHANGED <<limit, link>>

\* Free charging: the wallbox opens the session by itself.
SelfStart ==
    /\ "selfstart" \in Events
    /\ status = "preparing"
    /\ status' = InSession(limit)
    /\ UNCHANGED <<limit, link>>

\* The offered current takes effect on an open session.
Settle ==
    /\ \/ status \in CHARGING_RELEASED_STATUSES /\ limit < MIN_CURRENT_A
       \/ status = "suspended_evse" /\ limit >= MIN_CURRENT_A
    /\ status' = InSession(limit)
    /\ UNCHANGED <<limit, link>>

\* The car pauses by itself, or draws current again.
CarPause ==
    /\ "carpause" \in Events
    /\ status = "charging"
    /\ status' = "suspended_ev"
    /\ UNCHANGED <<limit, link>>

CarResume ==
    /\ status = "suspended_ev"
    /\ status' = "charging"
    /\ UNCHANGED <<limit, link>>

\* The session is ended at the wallbox, for example with an RFID card.
SessionEnd ==
    /\ "sessionend" \in Events
    /\ status \in SESSION_ACTIVE_STATUSES
    /\ status' = "finishing"
    /\ UNCHANGED <<limit, link>>

Fault ==
    /\ status \notin Faults
    /\ status' \in Faults
    /\ UNCHANGED <<limit, link>>

FaultClears ==
    /\ status \in UncontrollableStatuses
    /\ status' \in {"available", "preparing"}
    /\ UNCHANGED <<limit, link>>

(***************************************************************************)
(* The network.                                                            *)
(***************************************************************************)
LinkFails ==
    /\ "linkfails" \in Events
    /\ link
    /\ link' = FALSE
    /\ UNCHANGED <<status, limit>>

LinkReturns ==
    /\ ~link
    /\ link' = TRUE
    /\ UNCHANGED <<status, limit>>

CarAndStation ==
    \/ Plug \/ Unplug \/ SelfStart \/ Settle \/ CarPause \/ CarResume
    \/ SessionEnd \/ Fault \/ FaultClears

WallboxNext == CarAndStation \/ LinkFails \/ LinkReturns

(***************************************************************************)
(* Requests, as the device carries them out; `reply` says what the caller  *)
(* learns.  A request over a broken link has no effect.  A write may take  *)
(* effect although its reply never arrives, or arrives malformed: with a   *)
(* wrong length or no data, which raises neither of the client's errors.   *)
(***************************************************************************)
Replies == {"ok", "failed", "malformed"}
Replied(reply) == reply = "ok" /\ link
Unreached(reply) == reply = "failed" /\ ~link
ReplyLost(reply) == reply = "failed" /\ link /\ "lostreply" \in Events
Malformed(reply) == reply = "malformed" /\ link /\ "malformed" \in Events
Executed(reply) == Replied(reply) \/ ReplyLost(reply) \/ Malformed(reply)

WriteLimit(amps, reply) ==
    /\ \/ Executed(reply) /\ limit' = amps
       \/ Unreached(reply) /\ limit' = limit
    /\ UNCHANGED <<status, link>>

ReadRegister(reply) ==
    /\ Replied(reply) \/ Malformed(reply) \/ Unreached(reply)
    /\ UNCHANGED wallbox

Refused(reply) ==
    /\ (reply = "failed" /\ link) \/ Malformed(reply)
    /\ status \notin {"preparing", "finishing"}

\* The IdTag authorizes a waiting car; in any other status it is refused
\* ("Illegal data value").
WriteIdTag(reply) ==
    /\ \/ /\ Executed(reply)
          /\ status \in {"preparing", "finishing"}
          /\ status' = InSession(limit)
       \/ Unreached(reply) /\ UNCHANGED status
       \/ Refused(reply) /\ UNCHANGED status
    /\ UNCHANGED <<limit, link>>
=============================================================================
