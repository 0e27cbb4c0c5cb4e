--------------------------- MODULE ChargeHistory ---------------------------
(***************************************************************************)
(* The charge controller with a history variable, for the promises of the  *)
(* README that relate a step to what happened before it.  The history is   *)
(* only recorded: it changes nothing of what the controller does.          *)
(***************************************************************************)
EXTENDS ChargeController

CONSTANTS
    Track,        \* which histories are recorded: "session", "switch"
    Replug        \* how soon an unplugged car may be plugged in again:
                  \* "any" time, after a poll has reported it gone ("polled"),
                  \* or after one did with no command under way ("calm")

ASSUME HistoryAssumption ==
    /\ Track \subseteq {"session", "switch"}
    /\ Replug \in {"any", "polled", "calm"}

VARIABLE hist

hvars == <<vars, hist>>

(***************************************************************************)
(* qualified    since the car was plugged in, the mode was entered and the *)
(*              current was last 0, a start went out on the start condition*)
(* noticed      the absence of the car was polled, as Replug asks         *)
(* sinceSwitch  age of the last start or stop the loop sent; forgotten     *)
(*              when the user picks a mode                                 *)
(***************************************************************************)
HistInit ==
    hist = [qualified |-> FALSE, noticed |-> FALSE, sinceSwitch |-> None]

HInit == Init /\ HistInit

Issued(c) == c \in LoopCallers /\ ~Busy(c) /\ task'[c].step # "idle"
StartIssued == \E c \in Callers : Issued(c) /\ task'[c].then = "release"
AdjustIssued == \E c \in Callers : Issued(c) /\ task'[c].then = "adjust"
SwitchIssued ==
    \E c \in Callers :
        /\ Issued(c)
        /\ task'[c].then # "adjust"
        /\ task'[c].op = "start" \/ ctl'.mode = "pv_surplus"

\* The poll that completes reports the car's absence in the way Replug asks.
PollCounts ==
    /\ poll = "available"
    /\ \/ Replug = "polled"
       \/ Replug = "calm" /\ LockFree

When(topic, new, old) == IF topic \in Track THEN new ELSE old

OnEnvironment ==
    hist' = [hist EXCEPT
        !.qualified = @ /\ ~(status = "available" /\ status' # "available"),
        !.noticed = @ /\ ~(status # "available" /\ status' = "available")]

OnPollDone == hist' = [hist EXCEPT !.noticed = @ \/ PollCounts]

OnCommand == hist' = [hist EXCEPT !.qualified = @ /\ ~(limit # 0 /\ limit' = 0)]

OnCycle ==
    hist' = [hist EXCEPT
        !.qualified = When("session", StartIssued \/ (@ /\ ctl'.mode = "pv_surplus"), @),
        !.sinceSwitch = When("switch", IF SwitchIssued THEN 0 ELSE @, @)]

OnSetMode ==
    hist' = [hist EXCEPT
        !.qualified = When("session", StartIssued, @),
        !.sinceSwitch = When("switch", IF SwitchIssued THEN 0 ELSE None, @)]

OnManualAction == hist' = [hist EXCEPT !.qualified = FALSE]

OnTick == hist' = [hist EXCEPT !.sinceSwitch = Older(@)]

HNext ==
    \/ /\ Environment
       /\ Replug # "any" /\ status = "available" /\ status' # "available" => hist.noticed
       /\ OnEnvironment
    \/ PollDone /\ OnPollDone
    \/ Commands /\ OnCommand
    \/ (TimerFires \/ QueuedCycle) /\ OnCycle
    \/ SetMode /\ OnSetMode
    \/ ManualAction /\ OnManualAction
    \/ (PollOther \/ UpdateSetting) /\ UNCHANGED hist
    \/ Tick /\ OnTick

HSpec == HInit /\ [][HNext]_hvars
HFairSpec == HSpec /\ Fairness

----------------------------------------------------------------------------
\* The start condition comes first: PV surplus regulates a session upward of
\* 0 A only if, since the car was plugged in and since the last stop, the SoC
\* had reached the start SoC with enough surplus ("restarts only once the
\* start SoC is reached again", "the start SoC applies to every session").
StartConditionFirst == [][AdjustIssued => hist.qualified]_hvars

\* Between two starts or stops sent by the loop lies the lockout, short of the
\* time a cycle may have waited for the lock with its `now` already captured.
LockoutKept ==
    [][SwitchIssued /\ task'["select"] = task["select"] =>
          \/ hist.sinceSwitch = None
          \/ hist.sinceSwitch >= settings.minSwitch - MaxWait]_hvars
=============================================================================
