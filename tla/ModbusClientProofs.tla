------------------------- MODULE ModbusClientProofs -------------------------
(***************************************************************************)
(* Theorems about ModbusClient, for any number of requests and of reloads. *)
(***************************************************************************)
EXTENDS ModbusClient, SequenceTheorems, TLAPS

(***************************************************************************)
(* The lock.  A request that is past `async with self._lock` is the first  *)
(* in the lock of its client until it gives the lock back.                 *)
(***************************************************************************)
Running ==
    {r \in Requests : step[r] \in {"connecting", "exchanging", "closing", "cancelled"}}

LockOK ==
    /\ \A r \in Requests : step[r] # "new" => owner[r] \in DOMAIN Clients
    /\ \A r \in Running : lock[owner[r]] # <<>> /\ Head(lock[owner[r]]) = r

LockInv == TypeOK /\ LockOK

LEMMA LockInit == Init => LockInv
<1> SUFFICES ASSUME Init PROVE LockInv
  OBVIOUS
<1>1. <<>> \in Seq(Requests)
  OBVIOUS
<1>2. 1 \in DOMAIN Clients
  BY ClientAssumption
<1> QED
  BY <1>1, <1>2 DEF Init, LockInv, TypeOK, LockOK, Running, Steps

LEMMA CallLock == ASSUME LockInv, NEW r \in Requests, Call(r) PROVE LockInv'
<1>1. lock'[client] = Append(lock[client], r) /\ lock[client] \in Seq(Requests)
  BY DEF LockInv, TypeOK, Call
<1>2. lock'[client] \in Seq(Requests) /\ lock'[client] # <<>>
  BY <1>1
<1>3. lock[client] # <<>> => Head(lock'[client]) = Head(lock[client])
  BY <1>1
<1>4. TypeOK'
  BY <1>2 DEF LockInv, TypeOK, Call, Enter, Steps
<1>5. ASSUME NEW q \in Requests, step'[q] # "new" PROVE owner'[q] \in DOMAIN Clients
  BY <1>5 DEF LockInv, TypeOK, LockOK, Call, Enter
<1>6. ASSUME NEW q \in Running' PROVE lock'[owner'[q]] # <<>> /\ Head(lock'[owner'[q]]) = q
  <2>1. q \in Running /\ owner'[q] = owner[q] /\ owner[q] \in DOMAIN Clients
    BY <1>6 DEF LockInv, TypeOK, LockOK, Call, Enter, Running
  <2>2. lock[owner[q]] # <<>> /\ Head(lock[owner[q]]) = q
    BY <2>1 DEF LockInv, LockOK
  <2>3. owner[q] # client => lock'[owner[q]] = lock[owner[q]]
    BY <2>1 DEF LockInv, TypeOK, Call
  <2> QED
    BY <1>2, <1>3, <2>1, <2>2, <2>3
<1> QED
  BY <1>4, <1>5, <1>6 DEF LockInv, LockOK

\* A request that ends gives back a lock that it holds.
LEMMA ReleaseLock ==
    ASSUME LockInv, NEW r \in Running, Release(r), Enter(r, "done"),
           UNCHANGED <<client, owner, answer>>,
           outcome' \in [Requests -> Outcomes \cup {None}],
           {started, line, executed}' \subseteq Seq(Requests)
    PROVE  LockInv'
<1>1. r \in Requests /\ owner[r] \in DOMAIN Clients
  BY DEF LockInv, LockOK, Running
<1>2. lock[owner[r]] \in Seq(Requests) /\ lock[owner[r]] # <<>> /\ Head(lock[owner[r]]) = r
  BY <1>1 DEF LockInv, LockOK, TypeOK
<1>3. Tail(lock[owner[r]]) \in Seq(Requests)
  BY <1>2
<1>4. lock' \in [DOMAIN Clients -> Seq(Requests)]
  BY <1>1, <1>3 DEF LockInv, TypeOK, Release
<1>5. TypeOK'
  BY <1>4 DEF LockInv, TypeOK, Enter, Steps
<1>6. ASSUME NEW q \in Running' PROVE lock'[owner'[q]] # <<>> /\ Head(lock'[owner'[q]]) = q
  <2>1. q \in Running /\ q # r /\ owner'[q] = owner[q] /\ owner[q] \in DOMAIN Clients
    BY <1>6 DEF LockInv, LockOK, TypeOK, Running, Enter
  <2>2. lock[owner[q]] # <<>> /\ Head(lock[owner[q]]) = q
    BY <2>1 DEF LockInv, LockOK
  <2>3. owner[q] # owner[r]
    BY <1>2, <2>1, <2>2
  <2>4. lock'[owner[q]] = lock[owner[q]]
    BY <2>1, <2>3 DEF LockInv, TypeOK, Release
  <2> QED
    BY <2>1, <2>2, <2>4
<1> QED
  BY <1>5, <1>6 DEF LockInv, LockOK, TypeOK, Running, Enter

\* A step that leaves clients and locks alone, and starts no running request
\* but one that holds its lock.
LEMMA KeepLock ==
    ASSUME LockInv, NEW r \in Requests, NEW s \in Steps \ {"new"},
           step' = [step EXCEPT ![r] = s], step[r] # "new",
           Holds(r) \/ r \in Running \/ s \in {"waiting", "done"},
           UNCHANGED <<client, owner, lock>>,
           outcome' \in [Requests -> Outcomes \cup {None}],
           answer' \in [Requests -> Answers \cup {None}],
           {started, line, executed}' \subseteq Seq(Requests)
    PROVE  LockInv'
BY DEF LockInv, TypeOK, LockOK, Running, Holds

\* Steps of the wallbox and a reload touch neither locks nor requests.
LEMMA OutsideLock ==
    ASSUME LockInv, UNCHANGED <<owner, lock, step, outcome>>, client' \in DOMAIN Clients,
           answer' \in [Requests -> Answers \cup {None}],
           {started, line, executed}' \subseteq Seq(Requests)
    PROVE  LockInv'
BY DEF LockInv, TypeOK, LockOK, Running

LEMMA OutcomesOK == \A a \in Answers : OutcomeOf[a] \in Outcomes
BY DEF Answers, OutcomeOf, Outcomes

LEMMA RequestLock == ASSUME LockInv, NEW r \in Requests, RequestStep(r) PROVE LockInv'
<1> USE DEF Steps, Enter, Running, Outcomes
<1>1. CASE Call(r)
  BY <1>1, CallLock
<1>2. CASE Acquire(r)
  <2>1. Append(started, r) \in Seq(Requests)
    BY DEF LockInv, TypeOK
  <2> QED
    BY <1>2, <2>1, KeepLock DEF Acquire, LockInv, TypeOK
<1>3. CASE Connect(r)
  <2>1. Append(line, r) \in Seq(Requests)
    BY DEF LockInv, TypeOK
  <2> QED
    BY <1>3, <2>1, KeepLock DEF Connect, LockInv, TypeOK
<1>4. CASE ConnectFails(r)
  BY <1>4, ReleaseLock DEF ConnectFails, LockInv, TypeOK
<1>5. CASE Receive(r)
  <2>1. OutcomeOf[answer[r]] \in Outcomes
    BY <1>5, OutcomesOK DEF Receive, LockInv, TypeOK
  <2> QED
    BY <1>5, <2>1, KeepLock DEF Receive, LockInv, TypeOK
<1>6. CASE Breaks(r)
  BY <1>6, KeepLock DEF Breaks, LockInv, TypeOK
<1>7. CASE TimesOut(r)
  <2>1. CASE step[r] = "exchanging"
    BY <1>7, <2>1, KeepLock DEF TimesOut, LockInv, TypeOK
  <2>2. CASE step[r] # "exchanging"
    BY <1>7, <2>2, ReleaseLock DEF TimesOut, LockInv, TypeOK
  <2> QED
    BY <2>1, <2>2
<1>8. CASE Closed(r)
  BY <1>8, ReleaseLock DEF Closed, LockInv, TypeOK
<1> QED
  BY <1>1, <1>2, <1>3, <1>4, <1>5, <1>6, <1>7, <1>8 DEF RequestStep

LEMMA WallboxLock == ASSUME LockInv, NEW r \in Requests, WallboxStep(r) PROVE LockInv'
<1>1. CASE Executes(r)
  <2>1. Append(executed, r) \in Seq(Requests)
    BY DEF LockInv, TypeOK
  <2> QED
    BY <1>1, <2>1, OutsideLock DEF Executes, LockInv, TypeOK
<1>2. CASE Answer(r)
  BY <1>2, OutsideLock DEF Answer, LockInv, TypeOK
<1>3. CASE Drops(r)
  <2>1. Tail(line) \in Seq(Requests)
    BY <1>3 DEF LockInv, TypeOK, Drops, Served
  <2> QED
    BY <1>3, <2>1, OutsideLock DEF Drops, LockInv, TypeOK
<1> QED
  BY <1>1, <1>2, <1>3 DEF WallboxStep

LEMMA ReloadLock == ASSUME LockInv, Reload PROVE LockInv'
<1>1. client' \in DOMAIN Clients
  BY ClientAssumption DEF LockInv, TypeOK, Reload
<1> QED
  BY <1>1, OutsideLock DEF Reload, LockInv, TypeOK

LEMMA LockNext == LockInv /\ [Next]_vars => LockInv'
<1> SUFFICES ASSUME LockInv, [Next]_vars PROVE LockInv'
  OBVIOUS
<1>1. CASE UNCHANGED vars
  BY <1>1, OutsideLock DEF vars, LockInv, TypeOK
<1>2. CASE Finished
  BY <1>1, <1>2 DEF Finished
<1> QED
  BY <1>1, <1>2, RequestLock, WallboxLock, ReloadLock DEF Next

(***************************************************************************)
(* The types, and one connection per client: any two open connections of a *)
(* client would both hold its lock.                                        *)
(***************************************************************************)
THEOREM ClientInvariant == Spec => []LockInv
BY LockInit, LockNext, PTL DEF Spec

(***************************************************************************)
(* Every variable keeps its type, for any requests and clients.            *)
(***************************************************************************)
THEOREM ClientTypes == Spec => []TypeOK
<1>1. LockInv => TypeOK
  BY DEF LockInv
<1> QED
  BY <1>1, ClientInvariant, PTL

(***************************************************************************)
(* A client never has two connections open, whatever times out or breaks   *)
(* ("a poll and a write can never race each other and open two connections *)
(* at once", AmtronModbusClient).                                          *)
(***************************************************************************)
THEOREM OneConnectionPerClient == Spec => []OneConnection
<1>1. LockInv => OneConnection
  BY DEF LockInv, LockOK, OneConnection, Open, Running
<1> QED
  BY <1>1, ClientInvariant, PTL

(***************************************************************************)
(* The order of execution.  Of two requests of a client, the one that took *)
(* the lock first connects first, is served first, and is executed first:  *)
(* each conjunct carries the order one stage on.                           *)
(***************************************************************************)
Before(a, b) ==
    \E k, l \in DOMAIN started : k < l /\ started[k] = a /\ started[l] = b

HasStarted(r) == \E k \in DOMAIN started : started[k] = r

StartOrder ==
    /\ \A r \in Requests : HasStarted(r) => step[r] \notin {"new", "waiting"}
    /\ \A r \in Running :
          /\ HasStarted(r)
          /\ \A q \in Requests \ {r} : HasStarted(q) /\ owner[q] = owner[r] => Before(q, r)

LineOrder ==
    /\ \A i \in DOMAIN line : HasStarted(line[i]) /\ step[line[i]] # "connecting"
    /\ \A i, j \in DOMAIN line :
          i < j /\ owner[line[i]] = owner[line[j]] => Before(line[i], line[j])

ExecutionOrder ==
    /\ \A i \in DOMAIN executed : HasStarted(executed[i]) /\ step[executed[i]] # "connecting"
    /\ \A i \in DOMAIN executed, j \in DOMAIN line :
          owner[executed[i]] = owner[line[j]] /\ ~Contains(executed, line[j]) =>
              Before(executed[i], line[j])
    /\ \A i, j \in DOMAIN executed :
          i < j /\ owner[executed[i]] = owner[executed[j]] => Before(executed[i], executed[j])

OrderInv == StartOrder /\ LineOrder /\ ExecutionOrder

LEMMA OrderInit == Init => OrderInv
BY DEF Init, OrderInv, StartOrder, LineOrder, ExecutionOrder, HasStarted, Running

LEMMA Members ==
    ASSUME LockInv
    PROVE  /\ \A i \in DOMAIN line : line[i] \in Requests
           /\ \A i \in DOMAIN executed : executed[i] \in Requests
           /\ \A i \in DOMAIN started : started[i] \in Requests
BY DEF LockInv, TypeOK

\* Steps that only move requests on, or end them.
LEMMA OrderSame ==
    ASSUME LockInv, OrderInv, UNCHANGED <<started, line, executed>>,
           \A q \in Requests :
              /\ HasStarted(q) => owner'[q] = owner[q] /\ step'[q] \notin {"new", "waiting"}
              /\ q \in Running' => q \in Running
              /\ step'[q] = "connecting" => step[q] = "connecting"
    PROVE  OrderInv'
<1>1. \A a, b : Before(a, b)' <=> Before(a, b)
  BY DEF Before
<1>2. \A q : HasStarted(q)' <=> HasStarted(q)
  BY DEF HasStarted
<1>3. StartOrder'
  BY <1>1, <1>2 DEF OrderInv, StartOrder, Running
<1>4. LineOrder'
  BY <1>1, <1>2, Members DEF OrderInv, LineOrder
<1>5. ExecutionOrder'
  BY <1>1, <1>2, Members DEF OrderInv, ExecutionOrder, LineOrder
<1> QED
  BY <1>3, <1>4, <1>5 DEF OrderInv

\* The request that takes the lock comes after all that took it before; no
\* other request of the client is running.
LEMMA AcquireOrder ==
    ASSUME LockInv, OrderInv, NEW r \in Requests, Acquire(r) PROVE OrderInv'
<1>1. /\ Len(started') = Len(started) + 1 /\ DOMAIN started' = 1..(Len(started) + 1)
      /\ started'[Len(started) + 1] = r
      /\ \A k \in DOMAIN started : k \in DOMAIN started' /\ started'[k] = started[k] /\ k < Len(started) + 1
      /\ DOMAIN started = 1..Len(started) /\ Len(started) \in Nat
  BY DEF LockInv, TypeOK, Acquire
<1>2. \A a, b : Before(a, b) => Before(a, b)'
  BY <1>1 DEF Before
<1>3. \A q : HasStarted(q)' <=> HasStarted(q) \/ q = r
  BY <1>1 DEF HasStarted
<1>4. \A q : HasStarted(q) => Before(q, r)'
  BY <1>1 DEF HasStarted, Before
<1>5. /\ UNCHANGED <<owner, line, executed>>
      /\ \A q \in Requests : step'[q] = IF q = r THEN "connecting" ELSE step[q]
      /\ step[r] = "waiting" /\ Holds(r)
  BY DEF LockInv, TypeOK, Acquire, Enter
<1>6. StartOrder'
  <2>1. ASSUME NEW p \in Running', NEW q \in Requests \ {p},
               HasStarted(q)', owner'[q] = owner'[p]
        PROVE  Before(q, p)'
    <3>1. CASE p = r
      BY <1>3, <1>4, <2>1, <3>1
    <3>2. CASE p # r
      <4>1. p \in Running
        BY <1>5, <2>1, <3>2 DEF Running
      <4>2. q # r
        BY <1>5, <2>1, <3>2, <4>1 DEF LockInv, LockOK, Holds
      <4> QED
        BY <1>2, <1>3, <1>5, <2>1, <4>1, <4>2 DEF OrderInv, StartOrder
    <3> QED
      BY <3>1, <3>2
  <2>2. \A p \in Running' : HasStarted(p)'
    BY <1>3, <1>5 DEF Running, OrderInv, StartOrder
  <2>3. \A p \in Requests : HasStarted(p)' => step'[p] \notin {"new", "waiting"}
    BY <1>3, <1>5 DEF OrderInv, StartOrder
  <2> QED
    BY <2>1, <2>2, <2>3 DEF StartOrder
<1>7. ~HasStarted(r)
  BY <1>5 DEF OrderInv, StartOrder
<1>8. LineOrder'
  BY <1>2, <1>3, <1>5, <1>7, Members DEF OrderInv, LineOrder
<1>9. ExecutionOrder'
  BY <1>2, <1>3, <1>5, <1>7, Members DEF OrderInv, ExecutionOrder, LineOrder
<1> QED
  BY <1>6, <1>8, <1>9 DEF OrderInv

\* It connects after the others of its client have connected or given up.
LEMMA ConnectOrder ==
    ASSUME LockInv, OrderInv, NEW r \in Requests, Connect(r) PROVE OrderInv'
<1>1. /\ DOMAIN line' = 1..(Len(line) + 1) /\ line'[Len(line) + 1] = r
      /\ \A k \in DOMAIN line : line'[k] = line[k]
      /\ DOMAIN line = 1..Len(line) /\ Len(line) \in Nat
  BY DEF LockInv, TypeOK, Connect
<1>2. /\ UNCHANGED <<owner, started, executed>>
      /\ \A q \in Requests : step'[q] = IF q = r THEN "exchanging" ELSE step[q]
      /\ step[r] = "connecting" /\ r \in Running
  BY DEF LockInv, TypeOK, Connect, Enter, Running
<1>3. \A a, b : Before(a, b)' <=> Before(a, b)
  BY <1>2 DEF Before
<1>4. \A q : HasStarted(q)' <=> HasStarted(q)
  BY <1>2 DEF HasStarted
<1>5. StartOrder'
  BY <1>2, <1>3, <1>4 DEF OrderInv, StartOrder, Running
<1>6. \A q \in Requests \ {r} : HasStarted(q) /\ owner[q] = owner[r] => Before(q, r)
  BY <1>2 DEF OrderInv, StartOrder
<1>7. /\ \A i \in DOMAIN line : line[i] \in Requests \ {r} /\ HasStarted(line[i])
      /\ \A i \in DOMAIN executed : executed[i] \in Requests \ {r} /\ HasStarted(executed[i])
  BY <1>2, Members DEF OrderInv, LineOrder, ExecutionOrder
<1>8. LineOrder'
  <2>1. \A i \in DOMAIN line' : HasStarted(line'[i]) /\ step'[line'[i]] # "connecting"
    BY <1>1, <1>2, <1>7 DEF OrderInv, LineOrder, StartOrder
  <2>2. ASSUME NEW i \in DOMAIN line', NEW j \in DOMAIN line', i < j,
               owner'[line'[i]] = owner'[line'[j]]
        PROVE  Before(line'[i], line'[j])
    <3>1. i \in DOMAIN line
      BY <1>1, <2>2
    <3>2. CASE j \in DOMAIN line
      BY <1>1, <1>2, <1>3, <2>2, <3>1, <3>2 DEF OrderInv, LineOrder
    <3>3. CASE j = Len(line) + 1
      BY <1>1, <1>2, <1>3, <1>6, <1>7, <2>2, <3>1, <3>3
    <3> QED
      BY <1>1, <3>2, <3>3
  <2> QED
    BY <1>3, <1>4, <2>1, <2>2 DEF LineOrder
<1>9. ExecutionOrder'
  <2>1. ASSUME NEW i \in DOMAIN executed, NEW j \in DOMAIN line',
               owner[executed[i]] = owner[line'[j]], ~Contains(executed, line'[j])
        PROVE  Before(executed[i], line'[j])
    <3>1. CASE j \in DOMAIN line
      BY <1>1, <2>1, <3>1 DEF OrderInv, ExecutionOrder
    <3>2. CASE j = Len(line) + 1
      BY <1>1, <1>6, <1>7, <2>1, <3>2
    <3> QED
      BY <1>1, <3>1, <3>2
  <2>2. \A i \in DOMAIN executed : step'[executed[i]] # "connecting"
    BY <1>2, <1>7 DEF OrderInv, ExecutionOrder
  <2> QED
    BY <1>2, <1>3, <1>4, <2>1, <2>2 DEF OrderInv, ExecutionOrder, Contains
<1> QED
  BY <1>5, <1>8, <1>9 DEF OrderInv

\* The wallbox executes the request that it serves, the first of the line.
LEMMA ExecuteOrder ==
    ASSUME LockInv, OrderInv, NEW r \in Requests, Executes(r) PROVE OrderInv'
<1>1. /\ DOMAIN executed' = 1..(Len(executed) + 1) /\ executed'[Len(executed) + 1] = r
      /\ \A k \in DOMAIN executed : executed'[k] = executed[k]
      /\ DOMAIN executed = 1..Len(executed) /\ Len(executed) \in Nat
      /\ Len(executed') = Len(executed) + 1
  BY DEF LockInv, TypeOK, Executes
<1>2. UNCHANGED <<owner, step, started, line>> /\ ~Contains(executed, r)
  BY DEF Executes
<1>3. /\ 1 \in DOMAIN line /\ line[1] = r
      /\ \A j \in DOMAIN line : j = 1 \/ 1 < j
  BY DEF LockInv, TypeOK, Executes, Served
<1>4. \A a, b : Before(a, b)' <=> Before(a, b)
  BY <1>2 DEF Before
<1>5. \A q : HasStarted(q)' <=> HasStarted(q)
  BY <1>2 DEF HasStarted
<1>6. StartOrder' /\ LineOrder'
  BY <1>2, <1>4, <1>5 DEF OrderInv, StartOrder, LineOrder, Running
<1>7. \A q : ~Contains(executed', q) => ~Contains(executed, q) /\ q # r
  BY <1>1 DEF Contains
<1>8. \A i \in DOMAIN executed : owner[executed[i]] = owner[r] => Before(executed[i], r)
  BY <1>2, <1>3 DEF OrderInv, ExecutionOrder
<1>9. ASSUME NEW i \in DOMAIN executed'
      PROVE  HasStarted(executed'[i]) /\ step[executed'[i]] # "connecting"
  <2>1. CASE i \in DOMAIN executed
    BY <1>1, <2>1 DEF OrderInv, ExecutionOrder
  <2>2. CASE i = Len(executed) + 1
    BY <1>1, <1>3, <2>2 DEF OrderInv, LineOrder
  <2> QED
    BY <1>1, <2>1, <2>2
<1>10. ASSUME NEW i \in DOMAIN executed', NEW j \in DOMAIN line,
              owner[executed'[i]] = owner[line[j]], ~Contains(executed', line[j])
       PROVE  Before(executed'[i], line[j])
  <2>1. CASE i \in DOMAIN executed
    BY <1>1, <1>7, <1>10, <2>1 DEF OrderInv, ExecutionOrder
  <2>2. CASE i = Len(executed) + 1
    BY <1>1, <1>3, <1>7, <1>10, <2>2 DEF OrderInv, LineOrder
  <2> QED
    BY <1>1, <2>1, <2>2
<1>11. ASSUME NEW i \in DOMAIN executed', NEW j \in DOMAIN executed', i < j,
              owner[executed'[i]] = owner[executed'[j]]
       PROVE  Before(executed'[i], executed'[j])
  <2>1. CASE j \in DOMAIN executed
    BY <1>1, <1>11, <2>1 DEF OrderInv, ExecutionOrder
  <2>2. CASE j = Len(executed) + 1
    BY <1>1, <1>8, <1>11, <2>2
  <2> QED
    BY <1>1, <2>1, <2>2
<1>12. ExecutionOrder'
  BY <1>2, <1>4, <1>5, <1>9, <1>10, <1>11 DEF ExecutionOrder
<1> QED
  BY <1>6, <1>12 DEF OrderInv

LEMMA DropOrder ==
    ASSUME LockInv, OrderInv, NEW r \in Requests, Drops(r) PROVE OrderInv'
<1>1. \A j \in DOMAIN line' : j + 1 \in DOMAIN line /\ line'[j] = line[j + 1] /\ j \in Nat
  BY DEF LockInv, TypeOK, Drops, Served
<1>2. UNCHANGED <<owner, step, started, executed>>
  BY DEF Drops
<1>3. \A a, b : Before(a, b)' <=> Before(a, b)
  BY <1>2 DEF Before
<1>4. \A q : HasStarted(q)' <=> HasStarted(q)
  BY <1>2 DEF HasStarted
<1>5. StartOrder'
  BY <1>2, <1>3, <1>4 DEF OrderInv, StartOrder, Running
<1>6. ASSUME NEW i \in DOMAIN line', NEW j \in DOMAIN line', i < j,
             owner[line'[i]] = owner[line'[j]]
      PROVE  Before(line'[i], line'[j])
  BY <1>1, <1>6 DEF OrderInv, LineOrder
<1>7. LineOrder'
  BY <1>1, <1>2, <1>3, <1>4, <1>6 DEF OrderInv, LineOrder
<1>8. ExecutionOrder'
  BY <1>1, <1>2, <1>3, <1>4 DEF OrderInv, ExecutionOrder
<1> QED
  BY <1>5, <1>7, <1>8 DEF OrderInv

LEMMA OrderNext == LockInv /\ OrderInv /\ [Next]_vars => OrderInv'
<1> SUFFICES ASSUME LockInv, OrderInv, [Next]_vars PROVE OrderInv'
  OBVIOUS
<1>1. CASE Reload \/ Finished \/ UNCHANGED vars
  BY <1>1, OrderSame DEF Reload, Finished, vars, OrderInv, StartOrder, Running
<1>2. ASSUME NEW r \in Requests, RequestStep(r) PROVE OrderInv'
  <2>1. CASE Call(r)
    BY <2>1, OrderSame DEF Call, Enter, LockInv, TypeOK, OrderInv, StartOrder, Running
  <2>2. CASE ConnectFails(r) \/ Receive(r) \/ Breaks(r) \/ TimesOut(r) \/ Closed(r)
    <3>1. /\ UNCHANGED <<owner, started, line, executed>>
          /\ step[r] \in {"connecting", "exchanging", "closing", "cancelled"}
          /\ \E s \in {"closing", "cancelled", "done"} : \A q \in Requests :
                step'[q] = IF q = r THEN s ELSE step[q]
      BY <2>2 DEF ConnectFails, Receive, Breaks, TimesOut, Closed, Enter, LockInv, TypeOK
    <3> QED
      BY <3>1, OrderSame DEF OrderInv, StartOrder, Running
  <2> QED
    BY <1>2, <2>1, <2>2, AcquireOrder, ConnectOrder DEF RequestStep
<1>3. ASSUME NEW r \in Requests, WallboxStep(r) PROVE OrderInv'
  <2>1. CASE Answer(r)
    BY <2>1, OrderSame DEF Answer, OrderInv, StartOrder, Running
  <2> QED
    BY <1>3, <2>1, ExecuteOrder, DropOrder DEF WallboxStep
<1> QED
  BY <1>1, <1>2, <1>3 DEF Next

(***************************************************************************)
(* A write given up on is never executed after a newer request of the same *)
(* client: for any number of requests, whichever of them time out.         *)
(***************************************************************************)
THEOREM OrderKept == Spec => []ExecutedInOrder
<1>1. OrderInv => ExecutedInOrder
  BY DEF OrderInv, ExecutionOrder, ExecutedInOrder, Before
<1> QED
  BY <1>1, ClientInvariant, OrderInit, OrderNext, PTL DEF Spec
=============================================================================
