---------------------------- MODULE ModbusClient ----------------------------
(***************************************************************************)
(* AmtronModbusClient (modbus_client.py): every request opens a connection *)
(* of its own, sends one PDU, reads the answer and closes, under the       *)
(* client's asyncio.Lock and within one time limit.                        *)
(*                                                                         *)
(* The wallbox (external) accepts connections into a backlog and serves    *)
(* them one at a time, in order; it may execute a request it has received  *)
(* after the client has given up on it.  A reload of the config entry      *)
(* makes a new client while requests of the old one may still be under     *)
(* way.                                                                    *)
(***************************************************************************)
EXTENDS Integers, SequencesExt

CONSTANTS
    None,       \* Python's None
    Requests,   \* the requests made, each of them once
    Clients     \* the clients of the loads of the config entry, in load order

ASSUME ClientAssumption ==
    /\ Clients \in Seq(Range(Clients)) /\ Clients # <<>>
    /\ IsInjective(Clients)

VARIABLES
    client,     \* the client of the current load, an index of Clients
    owner,      \* for each request, the client it was called on
    lock,       \* for each client, its lock: the holder first, then the waiters
    step,       \* where each request is
    outcome,    \* what it will return or raise once closed
    started,    \* history: requests in the order they took a lock
    line,       \* connections at the wallbox, the one it serves first
    answer,     \* the wallbox's answer on each connection
    executed    \* requests the wallbox has executed, in order

vars == <<client, owner, lock, step, outcome, started, line, answer, executed>>

\* "closing" under the time limit, "cancelled": closing after it has fired.
Steps == {"new", "waiting", "connecting", "exchanging", "closing", "cancelled", "done"}
Answers == {"ok", "exception", "wrong_function", "malformed"}

(***************************************************************************)
(* What _request gives its caller: registers, ModbusError, or              *)
(* ModbusConnectionError.  A malformed answer (bad length, no data) raises *)
(* an error of struct or of indexing that nobody converts.                 *)
(***************************************************************************)
Outcomes == {"data", "ModbusError", "ModbusConnectionError", "unconverted"}
\* Mutant: an answer's error code reaches the caller unconverted.
OutcomeRaw == [a \in Answers |-> IF a = "ok" THEN "data" ELSE a]
OutcomeOf ==
    [ok |-> "data", exception |-> "ModbusError",
     wrong_function |-> "ModbusError", malformed |-> "unconverted"]

Holds(r) == lock[owner[r]] # <<>> /\ Head(lock[owner[r]]) = r
Enter(r, s) == step' = [step EXCEPT ![r] = s]

\* `async with self._lock` is left: the next waiter becomes the holder.
Release(r) == lock' = [lock EXCEPT ![owner[r]] = Tail(@)]

Init ==
    /\ client = 1
    /\ owner = [r \in Requests |-> None]
    /\ lock = [c \in DOMAIN Clients |-> <<>>]
    /\ step = [r \in Requests |-> "new"]
    /\ outcome = [r \in Requests |-> None]
    /\ started = <<>>
    /\ line = <<>>
    /\ answer = [r \in Requests |-> None]
    /\ executed = <<>>

-----------------------------------------------------------------------------
(* The client. *)

\* A poll, a command or the control loop calls _request.
Call(r) ==
    /\ step[r] = "new"
    /\ Enter(r, "waiting")
    /\ owner' = [owner EXCEPT ![r] = client]
    /\ lock' = [lock EXCEPT ![client] = Append(@, r)]
    /\ UNCHANGED <<client, outcome, started, line, answer, executed>>

\* Mutant: the lock is not waited for.
AcquireUnlocked(r) ==
    /\ step[r] = "waiting"
    /\ Enter(r, "connecting")
    /\ started' = Append(started, r)
    /\ UNCHANGED <<client, owner, lock, outcome, line, answer, executed>>
\* The lock is taken and the time limit starts to run.
Acquire(r) ==
    /\ step[r] = "waiting" /\ Holds(r)
    /\ Enter(r, "connecting")
    /\ started' = Append(started, r)
    /\ UNCHANGED <<client, owner, lock, outcome, line, answer, executed>>

\* open_connection succeeds and the PDU is written.
Connect(r) ==
    /\ step[r] = "connecting"
    /\ Enter(r, "exchanging")
    /\ line' = Append(line, r)
    /\ UNCHANGED <<client, owner, lock, outcome, started, answer, executed>>

\* open_connection raises OSError.
ConnectFails(r) ==
    /\ step[r] = "connecting"
    /\ Enter(r, "done")
    /\ outcome' = [outcome EXCEPT ![r] = "ModbusConnectionError"]
    /\ Release(r)
    /\ UNCHANGED <<client, owner, started, line, answer, executed>>

\* The answer has been read; `finally` closes the connection.
Receive(r) ==
    /\ step[r] = "exchanging" /\ answer[r] # None
    /\ Enter(r, "closing")
    /\ outcome' = [outcome EXCEPT ![r] = OutcomeOf[answer[r]]]
    /\ UNCHANGED <<client, owner, lock, started, line, answer, executed>>

\* Reading or writing raises OSError or IncompleteReadError.
Breaks(r) ==
    /\ step[r] = "exchanging"
    /\ Enter(r, "closing")
    /\ outcome' = [outcome EXCEPT ![r] = "ModbusConnectionError"]
    /\ UNCHANGED <<client, owner, lock, started, line, answer, executed>>

\* Mutant: only connecting is under the time limit.
TimesOutConnecting(r) ==
    /\ step[r] = "connecting"
    /\ outcome' = [outcome EXCEPT ![r] = "ModbusConnectionError"]
    /\ Enter(r, "done")
    /\ Release(r)
    /\ UNCHANGED <<client, owner, started, line, answer, executed>>
(***************************************************************************)
(* wait_for cancels _do_request and waits for it, once.  While connecting  *)
(* or closing it ends at once: close() has been called by then, and the    *)
(* transport closes the socket before the next waiter of the lock runs.    *)
(* While it awaits the answer, its `finally` still closes the connection,  *)
(* with no limit any more.  An answer read before is dropped.              *)
(***************************************************************************)
TimesOut(r) ==
    /\ step[r] \in {"connecting", "exchanging", "closing"}
    /\ outcome' = [outcome EXCEPT ![r] = "ModbusConnectionError"]
    /\ IF step[r] = "exchanging"
       THEN Enter(r, "cancelled") /\ UNCHANGED lock
       ELSE Enter(r, "done") /\ Release(r)
    /\ UNCHANGED <<client, owner, started, line, answer, executed>>

\* wait_closed returns: the request returns or raises and frees the lock.
Closed(r) ==
    /\ step[r] \in {"closing", "cancelled"}
    /\ Enter(r, "done")
    /\ Release(r)
    /\ UNCHANGED <<client, owner, outcome, started, line, answer, executed>>

\* async_reload sets the entry up again: async_setup_entry makes a new client.
Reload ==
    /\ client < Len(Clients)
    /\ client' = client + 1
    /\ UNCHANGED <<owner, lock, step, outcome, started, line, answer, executed>>

-----------------------------------------------------------------------------
(* The wallbox. *)

Served(r) == line # <<>> /\ Head(line) = r

Executes(r) ==
    /\ Served(r) /\ ~Contains(executed, r) /\ answer[r] = None
    /\ executed' = Append(executed, r)
    /\ UNCHANGED <<client, owner, lock, step, outcome, started, line, answer>>

\* Only an error may be answered without executing the request.
Answer(r) ==
    /\ Served(r) /\ answer[r] = None
    /\ \E a \in Answers :
        /\ a = "ok" => Contains(executed, r)
        /\ answer' = [answer EXCEPT ![r] = a]
    /\ UNCHANGED <<client, owner, lock, step, outcome, started, line, executed>>

\* The wallbox sees that the client has closed and serves the next connection.
Drops(r) ==
    /\ Served(r) /\ step[r] = "done"
    /\ line' = Tail(line)
    /\ UNCHANGED <<client, owner, lock, step, outcome, started, answer, executed>>

-----------------------------------------------------------------------------
RequestStep(r) ==
    \/ Call(r) \/ Acquire(r) \/ Connect(r) \/ ConnectFails(r) \/ Receive(r)
    \/ Breaks(r) \/ TimesOut(r) \/ Closed(r)
WallboxStep(r) == Executes(r) \/ Answer(r) \/ Drops(r)

\* All requests have returned and the wallbox has dropped their connections.
Finished ==
    /\ \A r \in Requests : step[r] = "done"
    /\ line = <<>>
    /\ UNCHANGED vars

Next ==
    \/ \E r \in Requests : RequestStep(r) \/ WallboxStep(r)
    \/ Reload
    \/ Finished

Spec == Init /\ [][Next]_vars

\* The event loop runs what is ready: the timer of wait_for fires, and a closed
\* transport ends wait_closed, whatever the wallbox does.
FairSpec ==
    /\ Spec
    /\ \A r \in Requests : WF_vars(Acquire(r)) /\ WF_vars(TimesOut(r)) /\ WF_vars(Closed(r))

-----------------------------------------------------------------------------
\* The types of the variables.
TypeOK ==
    /\ client \in DOMAIN Clients
    /\ owner \in [Requests -> DOMAIN Clients \cup {None}]
    /\ lock \in [DOMAIN Clients -> Seq(Requests)]
    /\ step \in [Requests -> Steps]
    /\ outcome \in [Requests -> Outcomes \cup {None}]
    /\ answer \in [Requests -> Answers \cup {None}]
    /\ {started, line, executed} \subseteq Seq(Requests)

Open == {r \in Requests : step[r] \in {"exchanging", "closing", "cancelled"}}

(***************************************************************************)
(* "An asyncio.Lock serializes all requests so a poll and a write can      *)
(* never race each other and open two connections at once": time-outs and  *)
(* broken connections included (AmtronModbusClient).  Each client has a    *)
(* lock of its own, so this does not hold between the two of a reload.     *)
(***************************************************************************)
OneConnection == \A q, r \in Open : owner[q] = owner[r] => q = r

(***************************************************************************)
(* The wallbox executes the requests of a client in the order they took    *)
(* its lock, although it may execute a request that has raised: never      *)
(* after a later one, so a write given up on cannot overwrite a newer one  *)
(* (_request, one connection per request).                                 *)
(***************************************************************************)
ExecutedInOrder ==
    \A i, j \in DOMAIN executed :
        i < j /\ owner[executed[i]] = owner[executed[j]] =>
            \E k, l \in DOMAIN started :
                k < l /\ started[k] = executed[i] /\ started[l] = executed[j]

(***************************************************************************)
(* Every request returns or raises, however silent the wallbox is: no      *)
(* caller waits for the lock forever (_request, wait_for).                 *)
(***************************************************************************)
EveryRequestReturns ==
    \A r \in Requests : step[r] = "waiting" ~> step[r] = "done"
=============================================================================
