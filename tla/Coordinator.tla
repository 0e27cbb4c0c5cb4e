---------------------------- MODULE Coordinator ----------------------------
(***************************************************************************)
(* AmtronCoordinator: the periodic poll that keeps a copy of the wallbox's *)
(* registers, and the write commands.  Every await of the code is a point  *)
(* where other steps interleave, so a poll and a command are sequences of  *)
(* request steps.  Each request happens at one instant at the device; the  *)
(* client's lock only keeps two requests from overlapping.                 *)
(*                                                                         *)
(* A refresh asked for at the end of a command is debounced by Home        *)
(* Assistant, so it may run before the command returns, later, or be       *)
(* merged into another: polls are independent of commands here.            *)
(***************************************************************************)
EXTENDS Wallbox

VARIABLES
    data,     \* coordinator.data: status and current_limit_a of the last good poll
    ok,       \* coordinator.last_update_success
    poll,     \* status a poll under way has read, None when no poll is under way
    task      \* for each caller, the command it is awaiting

coordinator == <<data, ok, poll, task>>

(***************************************************************************)
(* Who runs commands: the control loop's timer, the charge mode select     *)
(* (async_set_mode), and the manual controls (async_manual_action).        *)
(***************************************************************************)
Callers == {"timer", "select", "manual"}
Steps == {"idle", "write", "read", "tag", "done", "failed", "malformed"}
Ops == {"limit", "start", "power"}

\* What the caller does once its command has returned.
Continuations == {"adjust", "keep", "release", "stop", "manual"}

Idle == [step |-> "idle", op |-> None, amps |-> None, then |-> None, shows |-> None]

\* Mutant: the IdTag is written without writing the current first.
CommandTagFirst(op, amps, then, shows) ==
    [step |-> IF op = "start" THEN "read" ELSE "write",
     op |-> op, amps |-> amps, then |-> then, shows |-> shows]
Command(op, amps, then, shows) ==
    [step |-> "write", op |-> op, amps |-> amps, then |-> then, shows |-> shows]

Tasks ==
    [step : Steps, op : Ops \cup {None}, amps : Nat \cup {None},
     then : Continuations \cup {None}, shows : CONTROL_STATES \cup {None}]

CoordinatorTypeOK ==
    /\ data \in [status : CP_STATUS, limit : Nat]
    /\ ok \in BOOLEAN
    /\ poll \in CP_STATUS \cup {None}
    /\ task \in [Callers -> Tasks]

\* Set-up fails unless the first refresh succeeds, so a snapshot exists.
CoordinatorInit ==
    /\ data = [status |-> status, limit |-> limit]
    /\ ok = TRUE
    /\ poll = None
    /\ task = [c \in Callers |-> Idle]

(***************************************************************************)
(* The poll: status and limit are separate requests.                       *)
(***************************************************************************)
PollStatus ==
    /\ poll = None
    /\ ReadRegister("ok")
    /\ poll' = status
    /\ UNCHANGED <<data, ok, task>>

PollLimit ==
    /\ poll # None
    /\ ReadRegister("ok")
    /\ data' = [status |-> poll, limit |-> limit]
    /\ ok' = TRUE
    /\ poll' = None
    /\ UNCHANGED task

\* Mutant: a poll that fails returns nothing instead of raising UpdateFailed.
PollFailsEmpty ==
    /\ ReadRegister("failed") \/ ReadRegister("malformed")
    /\ data' = None
    /\ ok' = TRUE
    /\ poll' = None
    /\ UNCHANGED task
\* Any failing request of the poll raises UpdateFailed, or an error that Home
\* Assistant treats alike; the data stays.
PollFails ==
    /\ ReadRegister("failed") \/ ReadRegister("malformed")
    /\ ok' = FALSE
    /\ poll' = None
    /\ UNCHANGED <<data, task>>

(***************************************************************************)
(* The requests of a command.                                              *)
(***************************************************************************)
Goes(c, reply, next) ==
    /\ task' = [task EXCEPT ![c].step = IF reply = "ok" THEN next ELSE reply]
    /\ UNCHANGED <<data, ok, poll>>

\* async_set_current_limit, and the first request of async_start_charging.
WriteCurrentLimit(c) ==
    /\ task[c].step = "write"
    /\ task[c].op # "power"
    /\ \E reply \in Replies :
          /\ WriteLimit(task[c].amps, reply)
          /\ Goes(c, reply, IF task[c].op = "start" THEN "read" ELSE "done")

\* async_set_power_limit: register 1002, which is not part of this model.
WritePowerLimit(c) ==
    /\ task[c].step = "write"
    /\ task[c].op = "power"
    /\ \E reply \in Replies :
          ReadRegister(reply) /\ Goes(c, reply, "done")

\* async_start_charging reads the status fresh and skips the IdTag when a
\* session is open.
ReadFreshStatus(c) ==
    /\ task[c].step = "read"
    /\ \E reply \in Replies :
          /\ ReadRegister(reply)
          /\ Goes(c, reply, IF status \in SESSION_ACTIVE_STATUSES THEN "done" ELSE "tag")

\* The ten IdTag registers; the last one makes the tag complete.
Authorize(c) ==
    /\ task[c].step = "tag"
    /\ \E reply \in Replies : WriteIdTag(reply) /\ Goes(c, reply, "done")

CommandStep(c) ==
    WriteCurrentLimit(c) \/ WritePowerLimit(c) \/ ReadFreshStatus(c) \/ Authorize(c)
=============================================================================
