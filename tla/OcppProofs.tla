----------------------------- MODULE OcppProofs -----------------------------
(* Theorems about OcppSystem: the call lock of the charge point, and the    *)
(* transaction that goes from the server's reply into its later calls, for  *)
(* any number of coroutines, heartbeats and timeouts.                       *)
EXTENDS OcppSystem, SequenceTheorems, TLAPS

TaskRecord == [todo : Seq(Operations), report : BOOLEAN, n : Nat,
               pc : {"new", "ready", "validating", "queued", "calling", "done"},
               transaction : {NoTransaction, TransactionGiven}]

\* A call is being made, between its preparation and its end.
Calls(task) == task.pc \in {"validating", "queued", "calling"}

TasksTyped ==
  /\ tasks \in Seq(TaskRecord) /\ Len(tasks) <= MaxTasks
  /\ \A t \in DOMAIN tasks : tasks[t].pc # "done" => tasks[t].todo # << >>

Typed ==
  /\ TasksTyped
  /\ link \in {"none", "open", "closed"}
  /\ up \in Seq(Request) /\ down \in Seq(Message)
  /\ owner \in 0..Len(tasks) /\ waiters \in Seq(1..Len(tasks))
  /\ transaction_id \in {NoTransaction, TransactionGiven}
  /\ serving \in BOOLEAN /\ received \in Seq(Request)

\* A stop under way has read the transaction it is for.
StopPrepared ==
  \A t \in DOMAIN tasks :
    Calls(tasks[t]) /\ Operation(tasks[t]) = "StopTransaction" =>
      tasks[t].transaction = TransactionGiven

Started == \E j \in DOMAIN received : received[j].op = "StartTransaction"

\* Wherever the transaction is known, it comes from a start the server has seen.
KnownIsStarted ==
  /\ transaction_id = TransactionGiven => Started
  /\ \A t \in DOMAIN tasks : tasks[t].transaction = TransactionGiven => Started
  /\ \A i \in DOMAIN up : up[i].transaction = TransactionGiven => Started
  /\ \A i \in DOMAIN down : down[i].transaction = TransactionGiven => Started

\* A message under way belongs to a call made before, or to the current one.
Fits(m) ==
  /\ m.id[1] \in DOMAIN tasks
  /\ m.id[2] <= tasks[m.id[1]].n
  /\ m.id[2] = tasks[m.id[1]].n =>
       /\ tasks[m.id[1]].pc \notin {"validating", "queued"}
       /\ tasks[m.id[1]].pc = "calling" => m.op = Operation(tasks[m.id[1]])

MessagesFit ==
  /\ \A i \in DOMAIN up : Fits(up[i])
  /\ \A i \in DOMAIN down :
       /\ Fits(down[i])
       /\ down[i].op = "StartTransaction" => down[i].transaction = TransactionGiven

IInv ==
  /\ Typed
  /\ LockAccountsForTasks
  /\ StopPrepared
  /\ KnownIsStarted
  /\ MessagesFit
  /\ StopsFollowStarts

----------------------------------------------------------------------------
(* What the operators return.                                               *)

LEMMA AdvanceIs ==
  ASSUME NEW task \in TaskRecord, task.todo # << >>
  PROVE  /\ Advance(task) \in TaskRecord
         /\ Advance(task).pc \in {"done", "ready"}
         /\ Advance(task).pc # "done" => Advance(task).todo # << >>
         /\ Advance(task).n = task.n /\ Advance(task).transaction = task.transaction
<1>1. Tail(task.todo) \in Seq(Operations)
  BY DEF TaskRecord
<1> QED
  BY <1>1 DEF Advance, TaskRecord

LEMMA FailedIs ==
  ASSUME NEW task \in TaskRecord, task.todo # << >>
  PROVE  /\ Failed(task) \in TaskRecord
         /\ Failed(task).pc # "done" => Failed(task).todo # << >>
         /\ Failed(task).transaction = task.transaction
         /\ \/ Failed(task).pc \in {"done", "ready"} /\ Failed(task).n = task.n
            \/ /\ Failed(task).pc = "validating" /\ Failed(task).report
               /\ Failed(task).n = task.n + 1
<1>1. CASE task.report
  BY <1>1, AdvanceIs DEF Failed
<1>2. CASE ~ task.report
  <2>1. Failed(task) = [task EXCEPT !.report = TRUE, !.pc = "validating", !.n = task.n + 1]
    BY <1>2 DEF Failed
  <2>2. task.n + 1 \in Nat
    BY DEF TaskRecord
  <2> QED
    BY <2>1, <2>2 DEF TaskRecord
<1> QED
  BY <1>1, <1>2 DEF TaskRecord

LEMMA NewTaskIs ==
  ASSUME NEW kind \in Kinds
  PROVE  /\ NewTask(kind) \in TaskRecord
         /\ NewTask(kind).pc = "new" /\ NewTask(kind).todo # << >>
         /\ NewTask(kind).transaction = NoTransaction
<1>1. Program(kind) \in Seq(Operations) /\ Program(kind) # << >>
  <2>1. CASE kind = "send_charging_started"
    <3> DEFINE beats == [i \in 1..Heartbeats |-> "Heartbeat"]
    <3>1. beats \in Seq(Operations) /\ Len(beats) = Heartbeats
      BY ChargePointAssumption DEF Operations
    <3>2. << "StartTransaction" >> \in Seq(Operations)
      BY DEF Operations
    <3>3. Program(kind) = << "StartTransaction" >> \o beats
      BY <2>1 DEF Program
    <3> HIDE DEF beats
    <3>4. Program(kind) \in Seq(Operations) /\ Len(Program(kind)) = 1 + Heartbeats
      BY <3>1, <3>2, <3>3, ConcatProperties
    <3> QED
      BY <3>4, ChargePointAssumption
  <2>2. CASE kind # "send_charging_started"
    <3>1. \E op \in Operations : Program(kind) = << op >>
      <4>1. kind = "boot_notification" => Program(kind) = << "BootNotification" >>
        BY DEF Program
      <4>2. kind = "authorize" => Program(kind) = << "Authorize" >>
        BY DEF Program
      <4>3. kind = "stop_transaction" => Program(kind) = << "StopTransaction" >>
        BY DEF Program
      <4>4. kind = "status_notification" => Program(kind) = << "StatusNotification" >>
        BY DEF Program
      <4> QED
        BY <2>2, <4>1, <4>2, <4>3, <4>4 DEF Kinds, Operations
    <3> QED
      BY <3>1
  <2> QED
    BY <2>1, <2>2
<1> QED
  BY <1>1 DEF NewTask, TaskRecord

LEMMA Edited ==
  ASSUME tasks \in Seq(TaskRecord), NEW t \in DOMAIN tasks, NEW r \in TaskRecord,
         tasks' = [tasks EXCEPT ![t] = r]
  PROVE  /\ tasks' \in Seq(TaskRecord) /\ Len(tasks') = Len(tasks)
         /\ DOMAIN tasks' = DOMAIN tasks
         /\ tasks'[t] = r
         /\ \A u \in DOMAIN tasks : u # t => tasks'[u] = tasks[u]
<1> HIDE DEF TaskRecord
<1> QED
  OBVIOUS

----------------------------------------------------------------------------
(* What a step on one task keeps.                                           *)

\* s is what is left of q.
Among(s, q) == \A i \in DOMAIN s : \E j \in DOMAIN q : s[i] = q[j]

LEMMA TailAmong ==
  ASSUME NEW S, NEW q \in Seq(S), q # << >>
  PROVE  Tail(q) \in Seq(S) /\ Among(Tail(q), q) /\ Head(q) = q[1] /\ 1 \in DOMAIN q
BY DEF Among

\* A task that goes on to r, which sends nothing: the messages under way are
\* those before, or fewer.
LEMMA TaskGoesOn ==
  ASSUME IInv, NEW t \in DOMAIN tasks, NEW r \in TaskRecord,
         tasks' = [tasks EXCEPT ![t] = r],
         r.pc # "done" => r.todo # << >>,
         r.pc # "calling",
         r.transaction \in {transaction_id, tasks[t].transaction},
         Calls(r) /\ Operation(r) = "StopTransaction" => r.transaction = TransactionGiven,
         r.n \in { tasks[t].n, tasks[t].n + 1 },
         r.pc \in {"validating", "queued"} /\ r.n = tasks[t].n =>
           tasks[t].pc \in {"validating", "queued"},
         UNCHANGED << up, received >>, down' = down \/ Among(down', down),
         transaction_id' = TransactionGiven => Started
  PROVE  TasksTyped' /\ StopPrepared' /\ KnownIsStarted' /\ MessagesFit' /\ StopsFollowStarts'
<1>1. /\ tasks' \in Seq(TaskRecord) /\ Len(tasks') = Len(tasks)
      /\ DOMAIN tasks' = DOMAIN tasks
      /\ tasks'[t] = r
      /\ \A u \in DOMAIN tasks : u # t => tasks'[u] = tasks[u]
  BY Edited DEF IInv, Typed, TasksTyped
<1>2. TasksTyped'
  BY <1>1 DEF IInv, Typed, TasksTyped
<1>3. StopPrepared'
  BY <1>1 DEF IInv, StopPrepared, Calls, Operation
<1>4. Started' <=> Started
  BY DEF Started
<1>5. Among(down', down)
  BY DEF Among
<1>6. KnownIsStarted'
  BY <1>1, <1>4, <1>5 DEF IInv, KnownIsStarted, Among
<1>7. ASSUME NEW m, m.id \in (1..MaxTasks) \X Nat, Fits(m)
      PROVE  Fits(m)'
  <2>1. CASE m.id[1] = t
    <3>1. m.id[2] \in Nat /\ tasks[t].n \in Nat /\ m.id[2] <= tasks[t].n
      <4>1. m.id[2] \in Nat
        BY <1>7
      <4>2. tasks[t] \in TaskRecord
        BY DEF IInv, Typed, TasksTyped
      <4> QED
        BY <1>7, <2>1, <4>1, <4>2 DEF Fits, TaskRecord
    <3>2. m.id[2] <= r.n /\ (m.id[2] = r.n => r.n = tasks[t].n)
      BY <3>1
    <3>3. m.id[2] = r.n => r.pc \notin {"validating", "queued"}
      BY <1>7, <2>1, <3>2 DEF Fits
    <3> QED
      BY <1>1, <2>1, <3>2, <3>3 DEF Fits
  <2>2. CASE m.id[1] # t
    BY <1>1, <1>7, <2>2 DEF Fits, Operation
  <2> QED
    BY <2>1, <2>2
<1>8. MessagesFit'
  <2>1. /\ \A i \in DOMAIN up : up[i].id \in (1..MaxTasks) \X Nat
        /\ \A i \in DOMAIN down : down[i].id \in (1..MaxTasks) \X Nat
    <3>1. /\ \A i \in DOMAIN up : up[i] \in Message
          /\ \A i \in DOMAIN down : down[i] \in Message
      <4> HIDE DEF Message
      <4> QED
        BY DEF IInv, Typed, Request
    <3> QED
      BY <3>1 DEF Message
  <2>2. ASSUME NEW i \in DOMAIN up  PROVE Fits(up[i])'
    BY <1>7, <2>1 DEF IInv, MessagesFit, Fits
  <2>3. ASSUME NEW i \in DOMAIN down'
        PROVE  /\ Fits(down[i])'
               /\ down'[i].op = "StartTransaction" => down'[i].transaction = TransactionGiven
    <3>1. PICK j \in DOMAIN down : down'[i] = down[j]
      BY <1>5 DEF Among
    <3> QED
      BY <1>7, <2>1, <3>1 DEF IInv, MessagesFit, Fits
  <2> QED
    BY <2>2, <2>3 DEF MessagesFit
<1>9. StopsFollowStarts'
  BY DEF IInv, StopsFollowStarts
<1> QED
  BY <1>2, <1>3, <1>6, <1>8, <1>9

----------------------------------------------------------------------------
(* The lock.                                                                *)

\* A task that neither waits, owns nor is queued before and after the step.
LEMMA LockKept ==
  ASSUME IInv, NEW t \in DOMAIN tasks, NEW r \in TaskRecord,
         tasks' = [tasks EXCEPT ![t] = r],
         r.pc \notin {"queued", "calling"}, tasks[t].pc \notin {"queued", "calling"},
         UNCHANGED << owner, waiters >>
  PROVE  LockAccountsForTasks'
<1>1. /\ DOMAIN tasks' = DOMAIN tasks
      /\ tasks'[t] = r
      /\ \A u \in DOMAIN tasks : u # t => tasks'[u] = tasks[u]
  BY Edited DEF IInv, Typed, TasksTyped
<1> QED
  BY <1>1 DEF IInv, LockAccountsForTasks, Contains

\* The owner that gives the lock up.
LEMMA LockReleased ==
  ASSUME IInv, owner \in DOMAIN tasks, NEW r \in TaskRecord,
         tasks' = [tasks EXCEPT ![owner] = r],
         r.pc \notin {"queued", "calling"}, owner' = 0, UNCHANGED waiters
  PROVE  LockAccountsForTasks'
<1>1. /\ DOMAIN tasks' = DOMAIN tasks
      /\ tasks'[owner] = r
      /\ \A u \in DOMAIN tasks : u # owner => tasks'[u] = tasks[u]
  BY Edited DEF IInv, Typed, TasksTyped
<1>2. tasks[owner].pc = "calling" /\ \A u \in DOMAIN tasks : tasks[u].pc = "calling" => u = owner
  BY DEF IInv, LockAccountsForTasks
<1>3. \A u \in DOMAIN tasks : (Contains(waiters, u) <=> tasks[u].pc = "queued")
  BY DEF IInv, LockAccountsForTasks
<1>4. ASSUME NEW u \in DOMAIN tasks'
      PROVE  /\ (owner' = u) <=> (tasks'[u].pc = "calling")
             /\ Contains(waiters', u) <=> (tasks'[u].pc = "queued")
  <2>1. u \in DOMAIN tasks /\ u # 0 /\ Contains(waiters', u) = Contains(waiters, u)
    BY <1>1 DEF IInv, Typed, TasksTyped
  <2>2. CASE u = owner
    BY <1>1, <1>2, <1>3, <2>1, <2>2
  <2>3. CASE u # owner
    BY <1>1, <1>2, <1>3, <2>1, <2>3
  <2> QED
    BY <2>2, <2>3
<1> QED
  BY <1>4 DEF IInv, LockAccountsForTasks

\* The first of the queue.
LEMMA QueueAdvances ==
  ASSUME IInv, NEW t \in DOMAIN tasks, waiters # << >>, Head(waiters) = t
  PROVE  /\ Tail(waiters) \in Seq(1..Len(tasks))
         /\ tasks[t].pc = "queued"
         /\ ~ Contains(Tail(waiters), t)
         /\ \A u : u # t => (Contains(Tail(waiters), u) <=> Contains(waiters, u))
         /\ \A i, j \in DOMAIN Tail(waiters) : Tail(waiters)[i] = Tail(waiters)[j] => i = j
<1>1. waiters \in Seq(1..Len(tasks)) /\ Len(waiters) \in Nat \ {0} /\ waiters[1] = t
  BY EmptySeq, LenProperties DEF IInv, Typed
<1>2. /\ Tail(waiters) \in Seq(1..Len(tasks)) /\ Len(Tail(waiters)) = Len(waiters) - 1
      /\ \A i \in 1..Len(Tail(waiters)) : Tail(waiters)[i] = waiters[i + 1]
  BY <1>1
<1>3. \A i, j \in DOMAIN waiters : waiters[i] = waiters[j] => i = j
  BY DEF IInv, LockAccountsForTasks
<1>4. tasks[t].pc = "queued"
  BY <1>1 DEF IInv, LockAccountsForTasks, Contains
<1>5. ~ Contains(Tail(waiters), t)
  BY <1>1, <1>2, <1>3, SMTT(40) DEF Contains
<1>6. ASSUME NEW u, u # t, Contains(waiters, u)
      PROVE  Contains(Tail(waiters), u)
  <2>1. PICK i \in 1..Len(waiters) : waiters[i] = u
    BY <1>6 DEF Contains
  <2>2. i - 1 \in 1..Len(Tail(waiters)) /\ Tail(waiters)[i - 1] = u
    BY <1>1, <1>2, <1>6, <2>1
  <2> QED
    BY <2>2 DEF Contains
<1>7. ASSUME NEW u, Contains(Tail(waiters), u)
      PROVE  Contains(waiters, u)
  <2>1. PICK i \in 1..Len(Tail(waiters)) : Tail(waiters)[i] = u
    BY <1>7 DEF Contains
  <2>2. i + 1 \in 1..Len(waiters) /\ waiters[i + 1] = u
    BY <1>1, <1>2, <2>1
  <2> QED
    BY <2>2 DEF Contains
<1>8. \A i, j \in DOMAIN Tail(waiters) : Tail(waiters)[i] = Tail(waiters)[j] => i = j
  BY <1>1, <1>2, <1>3, SMTT(40)
<1> QED
  BY <1>2, <1>4, <1>5, <1>6, <1>7, <1>8

----------------------------------------------------------------------------
(* One lemma per action.                                                    *)

LEMMA BeginInv ==
  ASSUME IInv, NEW t \in DOMAIN tasks, Begin(t), UNCHANGED centralVars
  PROVE  IInv'
<1> DEFINE task == tasks[t]
           invalid == \/ Head(task.todo) = "StatusNotification"
                      \/ Head(task.todo) = "StopTransaction" /\ transaction_id = NoTransaction
           prepared == [task EXCEPT !.pc = "validating", !.report = invalid, !.n = task.n + 1,
                                    !.transaction = transaction_id]
           ended == [task EXCEPT !.todo = << >>, !.pc = "done"]
           r == IF link = "none" THEN ended ELSE prepared
<1>1. /\ task.pc \in {"ready", "new"}
      /\ tasks' = [tasks EXCEPT ![t] = r]
      /\ UNCHANGED << owner, waiters, transaction_id, link, up, down, received, serving >>
  BY DEF Begin, linkVars, centralVars
<1>2. task \in TaskRecord /\ task.todo # << >>
  BY <1>1 DEF IInv, Typed, TasksTyped
<1>3. /\ prepared \in TaskRecord /\ prepared.pc = "validating" /\ prepared.report = invalid
      /\ prepared.n = task.n + 1 /\ prepared.transaction = transaction_id
      /\ prepared.todo = task.todo
  <2>1. invalid \in BOOLEAN /\ task.n + 1 \in Nat
    BY <1>2 DEF TaskRecord
  <2> HIDE DEF invalid
  <2> QED
    BY <1>2, <2>1 DEF TaskRecord, IInv, Typed
<1>4. /\ ended \in TaskRecord /\ ended.pc = "done"
      /\ ended.n = task.n /\ ended.transaction = task.transaction
  <2>1. << >> \in Seq(Operations)
    OBVIOUS
  <2> QED
    BY <1>2, <2>1 DEF TaskRecord
<1>5. Calls(r) /\ Operation(r) = "StopTransaction" => r.transaction = TransactionGiven
  <2>1. CASE link = "none"
    BY <1>4, <2>1 DEF Calls
  <2>2. CASE link # "none"
    <3>1. transaction_id \in {NoTransaction, TransactionGiven}
      BY DEF IInv, Typed
    <3>2. r = prepared
      BY <2>2
    <3> HIDE DEF r, prepared
    <3> QED
      BY <1>3, <3>1, <3>2 DEF Operation
  <2> QED
    BY <2>1, <2>2
<1>6. /\ r \in TaskRecord /\ r.pc \in {"validating", "done"}
      /\ r.pc # "done" => r.todo # << >>
      /\ r.transaction \in {transaction_id, task.transaction}
      /\ r.n \in {task.n, task.n + 1}
      /\ r.pc = "validating" => r.n = task.n + 1
  BY <1>2, <1>3, <1>4
<1> HIDE DEF r, prepared, ended
<1>7. task.n # task.n + 1
  BY <1>2 DEF TaskRecord
<1>8. transaction_id' = TransactionGiven => Started
  BY <1>1 DEF IInv, KnownIsStarted
<1>9. TasksTyped' /\ StopPrepared' /\ KnownIsStarted' /\ MessagesFit' /\ StopsFollowStarts'
  BY <1>1, <1>5, <1>6, <1>7, <1>8, TaskGoesOn
<1>10. LockAccountsForTasks'
  BY <1>1, <1>6, LockKept
<1>11. Len(tasks') = Len(tasks)
  BY <1>1, <1>6, Edited DEF IInv, Typed, TasksTyped
<1> QED
  BY <1>1, <1>9, <1>10, <1>11 DEF IInv, Typed

LEMMA TimeoutInv ==
  ASSUME IInv, NEW t \in DOMAIN tasks, Timeout(t), UNCHANGED centralVars
  PROVE  IInv'
<1> DEFINE r == Failed(tasks[t])
<1>1. /\ owner = t /\ owner' = 0
      /\ tasks' = [tasks EXCEPT ![t] = r]
      /\ UNCHANGED << waiters, transaction_id, link, up, down, received, serving >>
  BY DEF Timeout, linkVars, centralVars
<1>2. tasks[t] \in TaskRecord /\ tasks[t].pc = "calling" /\ tasks[t].todo # << >>
  BY <1>1 DEF IInv, Typed, TasksTyped, LockAccountsForTasks
<1>3. /\ r \in TaskRecord
      /\ r.pc # "done" => r.todo # << >>
      /\ r.transaction = tasks[t].transaction
      /\ \/ r.pc \in {"done", "ready"} /\ r.n = tasks[t].n
         \/ r.pc = "validating" /\ r.report /\ r.n = tasks[t].n + 1
  BY <1>2, FailedIs
<1> HIDE DEF r
<1>4. Calls(r) /\ Operation(r) = "StopTransaction" => r.transaction = TransactionGiven
  BY <1>3 DEF Calls, Operation
<1>5. tasks[t].n # tasks[t].n + 1
  BY <1>2 DEF TaskRecord
<1>6. transaction_id' = TransactionGiven => Started
  BY <1>1 DEF IInv, KnownIsStarted
<1>7. TasksTyped' /\ StopPrepared' /\ KnownIsStarted' /\ MessagesFit' /\ StopsFollowStarts'
  BY <1>1, <1>3, <1>4, <1>5, <1>6, TaskGoesOn
<1>8. LockAccountsForTasks'
  BY <1>1, <1>3, LockReleased
<1>9. Len(tasks') = Len(tasks)
  BY <1>1, <1>3, Edited DEF IInv, Typed, TasksTyped
<1> QED
  BY <1>1, <1>7, <1>8, <1>9 DEF IInv, Typed

LEMMA ValidatedInv ==
  ASSUME IInv, NEW t \in DOMAIN tasks, Validated(t), UNCHANGED centralVars
  PROVE  IInv'
<1> DEFINE r == [tasks[t] EXCEPT !.pc = "queued"]
<1>1. /\ tasks[t].pc = "validating"
      /\ tasks' = [tasks EXCEPT ![t] = r]
      /\ waiters' = Append(waiters, t)
      /\ UNCHANGED << owner, transaction_id, link, up, down, received, serving >>
  BY DEF Validated, linkVars, centralVars
<1>2. tasks[t] \in TaskRecord /\ tasks[t].todo # << >>
  BY <1>1 DEF IInv, Typed, TasksTyped
<1>3. /\ r \in TaskRecord /\ r.pc = "queued" /\ r.todo = tasks[t].todo
      /\ r.transaction = tasks[t].transaction /\ r.n = tasks[t].n
      /\ r.report = tasks[t].report
  BY <1>2 DEF TaskRecord
<1> HIDE DEF r
<1>4. Calls(r) /\ Operation(r) = "StopTransaction" => r.transaction = TransactionGiven
  BY <1>1, <1>3 DEF Calls, Operation, IInv, StopPrepared
<1>5. transaction_id' = TransactionGiven => Started
  BY <1>1 DEF IInv, KnownIsStarted
<1>6. TasksTyped' /\ StopPrepared' /\ KnownIsStarted' /\ MessagesFit' /\ StopsFollowStarts'
  BY <1>1, <1>2, <1>3, <1>4, <1>5, TaskGoesOn
<1>7. /\ Len(tasks') = Len(tasks) /\ DOMAIN tasks' = DOMAIN tasks
      /\ tasks'[t] = r
      /\ \A u \in DOMAIN tasks : u # t => tasks'[u] = tasks[u]
  BY <1>1, <1>3, Edited DEF IInv, Typed, TasksTyped
<1>8. waiters \in Seq(1..Len(tasks)) /\ t \in 1..Len(tasks) /\ ~ Contains(waiters, t)
  BY <1>1 DEF IInv, Typed, TasksTyped, LockAccountsForTasks
<1>9. /\ waiters' \in Seq(1..Len(tasks))
      /\ \A u : Contains(waiters', u) <=> (Contains(waiters, u) \/ u = t)
      /\ \A i, j \in DOMAIN waiters' : waiters'[i] = waiters'[j] => i = j
  <2>1. /\ waiters' \in Seq(1..Len(tasks)) /\ Len(waiters') = Len(waiters) + 1
        /\ waiters'[Len(waiters) + 1] = t
        /\ \A i \in 1..Len(waiters) : waiters'[i] = waiters[i]
        /\ Len(waiters) \in Nat
    BY <1>1, <1>8
  <2>2. \A i \in 1..Len(waiters) : waiters[i] # t
    BY <1>8 DEF Contains
  <2>3. \A i, j \in 1..Len(waiters) : waiters[i] = waiters[j] => i = j
    BY <1>8 DEF IInv, LockAccountsForTasks
  <2>4. \A i, j \in DOMAIN waiters' : waiters'[i] = waiters'[j] => i = j
    BY <2>1, <2>2, <2>3
  <2>5. \A u : Contains(waiters', u) <=> (Contains(waiters, u) \/ u = t)
    BY <2>1, SMTT(40) DEF Contains
  <2> QED
    BY <2>1, <2>4, <2>5
<1>10. LockAccountsForTasks'
  <2>1. tasks[t].pc \notin {"queued", "calling"} /\ r.pc = "queued"
    BY <1>1, <1>3
  <2>2. ASSUME NEW u \in DOMAIN tasks
        PROVE  /\ (owner' = u) <=> (tasks'[u].pc = "calling")
               /\ Contains(waiters', u) <=> (tasks'[u].pc = "queued")
    BY <1>1, <1>7, <1>9, <2>1 DEF IInv, LockAccountsForTasks
  <2> QED
    BY <1>7, <1>9, <2>2 DEF LockAccountsForTasks
<1> QED
  BY <1>1, <1>6, <1>7, <1>9, <1>10 DEF IInv, Typed

LEMMA SendFailsInv ==
  ASSUME IInv, NEW t \in DOMAIN tasks, Send(t), link # "open", UNCHANGED centralVars
  PROVE  IInv'
<1> DEFINE r == Failed(tasks[t])
<1>1. /\ owner = 0 /\ waiters # << >> /\ Head(waiters) = t
      /\ waiters' = Tail(waiters)
      /\ tasks' = [tasks EXCEPT ![t] = r]
      /\ UNCHANGED << owner, transaction_id, link, up, down, received, serving >>
  BY DEF Send, centralVars
<1>2. /\ waiters' \in Seq(1..Len(tasks))
      /\ tasks[t].pc = "queued"
      /\ ~ Contains(waiters', t)
      /\ \A u : u # t => (Contains(waiters', u) <=> Contains(waiters, u))
      /\ \A i, j \in DOMAIN waiters' : waiters'[i] = waiters'[j] => i = j
  BY <1>1, QueueAdvances
<1>3. tasks[t] \in TaskRecord /\ tasks[t].todo # << >>
  BY <1>2 DEF IInv, Typed, TasksTyped
<1>4. /\ r \in TaskRecord
      /\ r.pc # "done" => r.todo # << >>
      /\ r.transaction = tasks[t].transaction
      /\ \/ r.pc \in {"done", "ready"} /\ r.n = tasks[t].n
         \/ r.pc = "validating" /\ r.report /\ r.n = tasks[t].n + 1
  BY <1>3, FailedIs
<1> HIDE DEF r
<1>5. Calls(r) /\ Operation(r) = "StopTransaction" => r.transaction = TransactionGiven
  BY <1>4 DEF Calls, Operation
<1>6. transaction_id' = TransactionGiven => Started
  BY <1>1 DEF IInv, KnownIsStarted
<1>7. TasksTyped' /\ StopPrepared' /\ KnownIsStarted' /\ MessagesFit' /\ StopsFollowStarts'
  BY <1>1, <1>2, <1>4, <1>5, <1>6, TaskGoesOn
<1>8. /\ Len(tasks') = Len(tasks) /\ DOMAIN tasks' = DOMAIN tasks
      /\ tasks'[t] = r
      /\ \A u \in DOMAIN tasks : u # t => tasks'[u] = tasks[u]
  BY <1>1, <1>4, Edited DEF IInv, Typed, TasksTyped
<1>9. LockAccountsForTasks'
  <2>1. ASSUME NEW u \in DOMAIN tasks
        PROVE  /\ (owner' = u) <=> (tasks'[u].pc = "calling")
               /\ Contains(waiters', u) <=> (tasks'[u].pc = "queued")
    BY <1>1, <1>2, <1>4, <1>8 DEF IInv, LockAccountsForTasks
  <2> QED
    BY <1>2, <1>8, <2>1 DEF LockAccountsForTasks
<1> QED
  BY <1>1, <1>2, <1>7, <1>8, <1>9 DEF IInv, Typed

LEMMA SendInv ==
  ASSUME IInv, NEW t \in DOMAIN tasks, Send(t), link = "open", UNCHANGED centralVars
  PROVE  IInv'
<1> DEFINE task == tasks[t]
           r == [task EXCEPT !.pc = "calling"]
           m == [id |-> << t, task.n >>, op |-> Operation(task), transaction |-> task.transaction]
<1>1. /\ owner = 0 /\ waiters # << >> /\ Head(waiters) = t
      /\ waiters' = Tail(waiters)
      /\ owner' = t
      /\ up' = Append(up, m)
      /\ tasks' = [tasks EXCEPT ![t] = r]
      /\ UNCHANGED << transaction_id, link, down, received, serving >>
  BY DEF Send, centralVars
<1>2. /\ waiters' \in Seq(1..Len(tasks))
      /\ task.pc = "queued"
      /\ ~ Contains(waiters', t)
      /\ \A u : u # t => (Contains(waiters', u) <=> Contains(waiters, u))
      /\ \A i, j \in DOMAIN waiters' : waiters'[i] = waiters'[j] => i = j
  BY <1>1, QueueAdvances
<1>3. task \in TaskRecord /\ task.todo # << >> /\ t \in 1..MaxTasks /\ Len(tasks) \in Nat
  BY <1>2, ChargePointAssumption DEF IInv, Typed, TasksTyped
<1>4. /\ r \in TaskRecord /\ r.pc = "calling" /\ r.todo = task.todo
      /\ r.transaction = task.transaction /\ r.n = task.n /\ r.report = task.report
  BY <1>3 DEF TaskRecord
<1>5. Operation(r) = Operation(task) /\ Operation(task) \in Operations
  BY <1>3, <1>4 DEF Operation, TaskRecord, Operations
<1>6. m \in Request /\ m.id = << t, task.n >> /\ m.op = Operation(r)
      /\ m.transaction = task.transaction
  <2>1. m \in Message
    BY <1>3, <1>5 DEF Message, TaskRecord
  <2>2. m.op = "StopTransaction" => m.transaction = TransactionGiven
    BY <1>2 DEF IInv, StopPrepared, Calls
  <2> QED
    BY <1>5, <2>1, <2>2, TransactionAssumption DEF Request
<1>7. /\ tasks' \in Seq(TaskRecord) /\ Len(tasks') = Len(tasks) /\ DOMAIN tasks' = DOMAIN tasks
      /\ tasks'[t] = r
      /\ \A u \in DOMAIN tasks : u # t => tasks'[u] = tasks[u]
  BY <1>1, <1>4, Edited DEF IInv, Typed, TasksTyped
<1> HIDE DEF r, m, task
<1>8. /\ up' \in Seq(Request)
      /\ \A i \in DOMAIN up' : up'[i] = m \/ (i \in DOMAIN up /\ up'[i] = up[i])
  <2> HIDE DEF Request
  <2> QED
    BY <1>1, <1>6 DEF IInv, Typed
<1>9. TasksTyped' /\ StopPrepared'
  <2>1. TasksTyped'
    BY <1>3, <1>4, <1>7 DEF IInv, Typed, TasksTyped
  <2>2. Calls(task)
    BY <1>2 DEF Calls
  <2>3. task = tasks[t]
    BY DEF task
  <2> QED
    BY <1>4, <1>5, <1>7, <2>1, <2>2, <2>3 DEF IInv, StopPrepared
<1>10. KnownIsStarted'
  <2>1. task = tasks[t]
    BY DEF task
  <2> QED
    BY <1>1, <1>4, <1>6, <1>7, <1>8, <2>1 DEF IInv, KnownIsStarted, Started
<1>11. MessagesFit'
  <2>1. task = tasks[t]
    BY DEF task
  <2>2. ASSUME NEW k, k = m
        PROVE  Fits(k)'
    <3>1. k.id[1] = t /\ k.id[2] = r.n /\ k.op = Operation(r) /\ r.n <= r.n
      BY <1>4, <1>6, <2>2 DEF TaskRecord
    <3> QED
      BY <1>4, <1>7, <3>1 DEF Fits, Operation
  <2>3. ASSUME NEW k, Fits(k)
        PROVE  Fits(k)'
    <3>1. CASE k.id[1] = t
      BY <1>2, <1>4, <1>7, <2>1, <2>3, <3>1 DEF Fits
    <3>2. CASE k.id[1] # t
      BY <1>7, <2>3, <3>2 DEF Fits, Operation
    <3> QED
      BY <3>1, <3>2
  <2>4. /\ \A i \in DOMAIN up : Fits(up[i])
        /\ \A i \in DOMAIN down : Fits(down[i])
    BY DEF IInv, MessagesFit
  <2>5. ASSUME NEW i \in DOMAIN up'  PROVE Fits(up[i])'
    <3>1. CASE up'[i] = m
      BY <2>2, <3>1 DEF Fits
    <3>2. CASE i \in DOMAIN up /\ up'[i] = up[i]
      BY <2>3, <2>4, <3>2 DEF Fits
    <3> QED
      BY <1>8, <3>1, <3>2
  <2>6. ASSUME NEW i \in DOMAIN down'
        PROVE  /\ Fits(down[i])'
               /\ down'[i].op = "StartTransaction" => down'[i].transaction = TransactionGiven
    BY <1>1, <2>3, <2>4 DEF Fits, IInv, MessagesFit
  <2> QED
    BY <2>5, <2>6 DEF MessagesFit
<1>12. LockAccountsForTasks'
  <2>1. task = tasks[t] /\ t # 0
    BY <1>3 DEF task
  <2>2. ASSUME NEW u \in DOMAIN tasks
        PROVE  /\ (owner' = u) <=> (tasks'[u].pc = "calling")
               /\ Contains(waiters', u) <=> (tasks'[u].pc = "queued")
    <3>1. tasks[u].pc # "calling"
      BY <1>1 DEF IInv, LockAccountsForTasks, Typed, TasksTyped
    <3> QED
      BY <1>1, <1>2, <1>4, <1>7, <2>1, <3>1 DEF IInv, LockAccountsForTasks
  <2> QED
    BY <1>2, <1>7, <2>2 DEF LockAccountsForTasks
<1>13. StopsFollowStarts'
  BY <1>1 DEF IInv, StopsFollowStarts
<1> QED
  BY <1>1, <1>2, <1>3, <1>7, <1>8, <1>9, <1>10, <1>11, <1>12, <1>13 DEF IInv, Typed

LEMMA ReceiveInv ==
  ASSUME IInv, Receive, UNCHANGED centralVars
  PROVE  IInv'
<1> DEFINE reply == Head(down)
<1>1. /\ down # << >> /\ down' = Tail(down)
      /\ UNCHANGED << waiters, link, up, received, serving >>
  BY DEF Receive, centralVars
<1>2. /\ down' \in Seq(Message) /\ Among(down', down)
      /\ reply = down[1] /\ 1 \in DOMAIN down /\ reply \in Message
  <2> HIDE DEF Message
  <2>1. down \in Seq(Message)
    BY DEF IInv, Typed
  <2>2. Tail(down) \in Seq(Message) /\ Among(Tail(down), down) /\ Head(down) = down[1]
        /\ 1 \in DOMAIN down
    BY <1>1, <2>1, TailAmong
  <2> QED
    BY <1>1, <2>1, <2>2
<1> HIDE DEF reply
<1>3. Typed /\ DOMAIN tasks = 1..Len(tasks) /\ Len(tasks) \in Nat
  BY DEF IInv, Typed, TasksTyped
<1>4. CASE owner # 0 /\ reply.id = << owner, tasks[owner].n >>
  <2> DEFINE r == Advance(tasks[owner])
  <2>1. /\ tasks' = [tasks EXCEPT ![owner] = r] /\ owner' = 0
        /\ transaction_id' = IF Operation(tasks[owner]) = "StartTransaction"
                             THEN reply.transaction ELSE transaction_id
    BY <1>4 DEF Receive, reply
  <2>2. /\ owner \in DOMAIN tasks /\ tasks[owner] \in TaskRecord
        /\ tasks[owner].pc = "calling" /\ tasks[owner].todo # << >>
    BY <1>3, <1>4 DEF Typed, TasksTyped, IInv, LockAccountsForTasks
  <2>3. /\ r \in TaskRecord /\ r.pc \in {"done", "ready"}
        /\ r.pc # "done" => r.todo # << >>
        /\ r.n = tasks[owner].n /\ r.transaction = tasks[owner].transaction
    BY <2>2, AdvanceIs
  <2> HIDE DEF r
  <2>4. reply.transaction = TransactionGiven => Started
    BY <1>2 DEF IInv, KnownIsStarted
  <2>5. transaction_id' = TransactionGiven => Started
    BY <2>1, <2>4 DEF IInv, KnownIsStarted
  <2>6. TasksTyped' /\ StopPrepared' /\ KnownIsStarted' /\ MessagesFit' /\ StopsFollowStarts'
    <3>1. ~ Calls(r)
      BY <2>3 DEF Calls
    <3> QED
      BY <1>1, <1>2, <2>1, <2>2, <2>3, <2>5, <3>1, TaskGoesOn
  <2>7. LockAccountsForTasks'
    BY <1>1, <2>1, <2>2, <2>3, LockReleased
  <2>8. Len(tasks') = Len(tasks)
    BY <1>3, <2>1, <2>2, <2>3, Edited DEF Typed, TasksTyped
  <2>9. transaction_id' \in {NoTransaction, TransactionGiven}
    BY <1>2, <1>3, <2>1 DEF Message, Typed
  <2> QED
    BY <1>1, <1>2, <1>3, <2>1, <2>6, <2>7, <2>8, <2>9 DEF IInv, Typed
<1>5. CASE ~ (owner # 0 /\ reply.id = << owner, tasks[owner].n >>)
  <2>1. UNCHANGED << tasks, owner, transaction_id >>
    BY <1>5 DEF Receive, reply
  <2>2. Started' <=> Started
    BY <1>1 DEF Started
  <2>3. KnownIsStarted'
    BY <1>1, <1>2, <2>1, <2>2 DEF IInv, KnownIsStarted, Among
  <2>4. MessagesFit'
    BY <1>1, <1>2, <2>1, SMTT(40) DEF IInv, MessagesFit, Among, Fits, Operation
  <2>5. StopPrepared' /\ LockAccountsForTasks' /\ StopsFollowStarts'
    BY <1>1, <2>1 DEF IInv, StopPrepared, Calls, Operation, LockAccountsForTasks,
                      StopsFollowStarts
  <2> QED
    BY <1>1, <1>2, <1>3, <2>1, <2>3, <2>4, <2>5 DEF IInv, Typed, TasksTyped
<1> QED
  BY <1>4, <1>5

\* The server's side: a request becomes a reply with its id and operation.
LEMMA HandleMessageInv ==
  ASSUME IInv, HandleMessage, UNCHANGED chargePointVars
  PROVE  IInv'
<1> DEFINE m == Head(up)
<1>1. /\ up # << >> /\ up' = Tail(up)
      /\ received' = Append(received, m)
      /\ down' = IF link = "open" THEN Append(down, Reply(m)) ELSE down
      /\ UNCHANGED << link, serving, tasks, owner, waiters, transaction_id >>
  BY DEF HandleMessage, chargePointVars
<1>2. /\ up' \in Seq(Request) /\ Among(up', up)
      /\ m = up[1] /\ 1 \in DOMAIN up /\ m \in Request /\ m \in Message
  <2> HIDE DEF Message
  <2>1. up \in Seq(Request)
    BY DEF IInv, Typed
  <2>2. Tail(up) \in Seq(Request) /\ Among(Tail(up), up) /\ Head(up) = up[1] /\ 1 \in DOMAIN up
    <3> HIDE DEF Request
    <3> QED
      BY <1>1, <2>1, TailAmong
  <2> QED
    BY <1>1, <2>1, <2>2 DEF Request
<1> HIDE DEF m
<1>3. /\ Reply(m) \in Message /\ Reply(m).id = m.id /\ Reply(m).op = m.op
      /\ Reply(m).transaction = TransactionGiven <=> m.op = "StartTransaction"
  BY <1>2, TransactionAssumption DEF Reply, Message
<1>4. /\ received' \in Seq(Request) /\ Len(received') = Len(received) + 1
      /\ Len(received) \in Nat
      /\ received'[Len(received) + 1] = m
      /\ \A i \in DOMAIN received : i \in DOMAIN received' /\ received'[i] = received[i]
  <2> HIDE DEF Request
  <2> QED
    BY <1>1, <1>2 DEF IInv, Typed
<1>5. /\ down' \in Seq(Message)
      /\ \A i \in DOMAIN down' :
           down'[i] = Reply(m) \/ (\E j \in DOMAIN down : down'[i] = down[j])
  <2>1. down \in Seq(Message)
    BY DEF IInv, Typed
  <2> HIDE DEF Message
  <2> QED
    BY <1>1, <1>3, <2>1
<1>6. /\ Started => Started'
      /\ m.op = "StartTransaction" => Started'
  BY <1>4 DEF Started
<1>7. KnownIsStarted'
  <2>1. ASSUME NEW i \in DOMAIN down', down'[i].transaction = TransactionGiven
        PROVE  Started'
    BY <1>3, <1>5, <1>6, <2>1 DEF IInv, KnownIsStarted
  <2> QED
    BY <1>1, <1>2, <1>6, <2>1 DEF IInv, KnownIsStarted, Among
<1>8. MessagesFit'
  <2>1. \A k : Fits(k) => Fits(k)'
    BY <1>1 DEF Fits, Operation
  <2>2. Fits(m) /\ Fits(Reply(m))
    BY <1>2, <1>3 DEF IInv, MessagesFit, Fits
  <2>3. ASSUME NEW i \in DOMAIN up'  PROVE Fits(up[i])'
    BY <1>1, <1>2, SMTT(40) DEF Among, IInv, MessagesFit, Fits, Operation
  <2>4. ASSUME NEW i \in DOMAIN down'
        PROVE  /\ Fits(down[i])'
               /\ down'[i].op = "StartTransaction" => down'[i].transaction = TransactionGiven
    <3>1. CASE down'[i] = Reply(m)
      BY <1>1, <1>3, <2>2, <3>1 DEF Fits, Operation
    <3>2. CASE \E j \in DOMAIN down : down'[i] = down[j]
      BY <1>1, <3>2 DEF IInv, MessagesFit, Fits, Operation
    <3> QED
      BY <1>5, <3>1, <3>2
  <2> QED
    BY <2>3, <2>4 DEF MessagesFit
<1>9. StopsFollowStarts'
  <2>1. m.op = "StopTransaction" => m.transaction = TransactionGiven
    BY <1>2 DEF Request, Message
  <2>2. m.op = "StopTransaction" => Started
    BY <1>2, <2>1 DEF IInv, KnownIsStarted
  <2>3. ASSUME NEW i \in DOMAIN received', received'[i].op = "StopTransaction"
        PROVE  /\ received'[i].transaction = TransactionGiven
               /\ \E j \in 1..(i-1) : received'[j].op = "StartTransaction"
    <3>1. CASE i = Len(received) + 1
      <4>1. PICK j \in DOMAIN received : received[j].op = "StartTransaction"
        BY <1>4, <2>2, <2>3, <3>1 DEF Started
      <4>2. j \in 1..(i-1)
        BY <1>4, <3>1, <4>1 DEF IInv, Typed
      <4> QED
        BY <1>4, <2>1, <2>3, <3>1, <4>1, <4>2
    <3>2. CASE i # Len(received) + 1
      <4>1. i \in DOMAIN received
        BY <1>4, <3>2 DEF IInv, Typed
      <4>2. received[i].transaction = TransactionGiven
        BY <1>4, <2>3, <4>1 DEF IInv, StopsFollowStarts
      <4>3. PICK j \in 1..(i-1) : received[j].op = "StartTransaction"
        BY <1>4, <2>3, <4>1 DEF IInv, StopsFollowStarts
      <4>4. j \in DOMAIN received
        BY <4>1, <4>3 DEF IInv, Typed
      <4> QED
        BY <1>4, <4>1, <4>2, <4>3, <4>4
    <3> QED
      BY <3>1, <3>2
  <2> QED
    BY <2>3 DEF StopsFollowStarts
<1>10. StopPrepared' /\ LockAccountsForTasks'
  BY <1>1 DEF IInv, StopPrepared, Calls, Operation, LockAccountsForTasks
<1> QED
  BY <1>1, <1>2, <1>4, <1>5, <1>7, <1>8, <1>9, <1>10 DEF IInv, Typed, TasksTyped

\* A new coroutine has made no call.
LEMMA CreateInv ==
  ASSUME IInv, NEW kind \in CreatedKinds, Create(kind)
  PROVE  IInv'
<1> DEFINE new == [i \in DOMAIN << kind >> |-> NewTask(<< kind >>[i])]
           r == NewTask(kind)
<1>1. /\ Len(tasks) < MaxTasks /\ tasks' = tasks \o new
      /\ UNCHANGED << owner, waiters, transaction_id, link, up, down, received, serving >>
  BY DEF Create, CreateTasks, linkVars, centralVars
<1>2. r \in TaskRecord /\ r.pc = "new" /\ r.todo # << >> /\ r.transaction = NoTransaction
  BY NewTaskIs, CreatedKindsAssumption
<1>3. new = << r >>
  OBVIOUS
<1>4. tasks \in Seq(TaskRecord) /\ Len(tasks) \in Nat /\ DOMAIN tasks = 1..Len(tasks)
  BY DEF IInv, Typed, TasksTyped
<1> HIDE DEF new, r, TaskRecord
<1>5. /\ tasks' \in Seq(TaskRecord) /\ Len(tasks') = Len(tasks) + 1
      /\ DOMAIN tasks' = 1 .. Len(tasks) + 1
      /\ tasks'[Len(tasks) + 1] = r
      /\ \A u \in DOMAIN tasks : tasks'[u] = tasks[u]
  <2>1. tasks' = Append(tasks, r)
    BY <1>1, <1>2, <1>3, <1>4, AppendIsConcat
  <2> QED
    BY <1>2, <1>4, <2>1
<1>6. \A u \in DOMAIN tasks' : u \in DOMAIN tasks \/ (u = Len(tasks) + 1 /\ tasks'[u] = r)
  BY <1>4, <1>5
<1>7. TasksTyped'
  BY <1>1, <1>2, <1>4, <1>5, <1>6, ChargePointAssumption DEF IInv, Typed, TasksTyped
<1>8. StopPrepared'
  BY <1>2, <1>5, <1>6 DEF IInv, StopPrepared, Calls, Operation
<1>9. Started' <=> Started
  BY <1>1 DEF Started
<1>10. KnownIsStarted'
  BY <1>1, <1>2, <1>5, <1>6, <1>9, TransactionAssumption DEF IInv, KnownIsStarted
<1>11. MessagesFit'
  <2>1. ASSUME NEW k, Fits(k)
        PROVE  Fits(k)'
    BY <1>4, <1>5, <2>1 DEF Fits, Operation
  <2> QED
    BY <1>1, <2>1 DEF IInv, MessagesFit, Fits
<1>12. LockAccountsForTasks'
  <2>1. waiters \in Seq(1..Len(tasks)) /\ owner \in 0..Len(tasks)
    BY DEF IInv, Typed
  <2>2. ~ Contains(waiters, Len(tasks) + 1) /\ owner # Len(tasks) + 1
    BY <1>4, <2>1 DEF Contains
  <2>3. \A u : Contains(waiters', u) <=> Contains(waiters, u)
    BY <1>1
  <2>4. ASSUME NEW u \in DOMAIN tasks'
        PROVE  /\ (owner' = u) <=> (tasks'[u].pc = "calling")
               /\ Contains(waiters', u) <=> (tasks'[u].pc = "queued")
    BY <1>1, <1>2, <1>5, <1>6, <2>2, <2>3 DEF IInv, LockAccountsForTasks
  <2> QED
    BY <1>1, <2>4 DEF IInv, LockAccountsForTasks
<1>13. owner' \in 0..Len(tasks') /\ waiters' \in Seq(1..Len(tasks'))
  BY <1>1, <1>4, <1>5 DEF IInv, Typed
<1>14. StopsFollowStarts'
  BY <1>1 DEF IInv, StopsFollowStarts
<1> QED
  BY <1>1, <1>7, <1>8, <1>10, <1>11, <1>12, <1>13, <1>14 DEF IInv, Typed

\* Whatever only loses messages.
LEMMA LinkInv ==
  ASSUME IInv, link' \in {"none", "open", "closed"}, serving' \in BOOLEAN,
         up' \in Seq(Request), Among(up', up), down' \in Seq(Message), Among(down', down),
         UNCHANGED << chargePointVars, received >>
  PROVE  IInv'
<1>1. UNCHANGED << tasks, owner, waiters, transaction_id, received >>
  BY DEF chargePointVars
<1>2. Started' <=> Started
  BY <1>1 DEF Started
<1>3. KnownIsStarted'
  BY <1>1, <1>2 DEF IInv, KnownIsStarted, Among
<1>4. MessagesFit'
  BY <1>1 DEF IInv, MessagesFit, Among, Fits, Operation
<1>5. StopPrepared' /\ LockAccountsForTasks' /\ StopsFollowStarts'
  BY <1>1 DEF IInv, StopPrepared, Calls, Operation, LockAccountsForTasks, StopsFollowStarts
<1> QED
  BY <1>1, <1>3, <1>4, <1>5 DEF IInv, Typed, TasksTyped

LEMMA PrefixAmong ==
  ASSUME NEW S, NEW q \in Seq(S), NEW i \in 0..Len(q)
  PROVE  SubSeq(q, 1, i) \in Seq(S) /\ Among(SubSeq(q, 1, i), q)
BY DEF Among

LEMMA BreakInv ==
  ASSUME IInv, Break
  PROVE  IInv'
<1>1. PICK i \in 0..Len(up), j \in 0..Len(down) :
        up' = SubSeq(up, 1, i) /\ down' = SubSeq(down, 1, j)
  BY DEF Break, LinkBreaks
<1>2. up \in Seq(Request) /\ down \in Seq(Message)
  BY DEF IInv, Typed
<1>3. up' \in Seq(Request) /\ Among(up', up) /\ down' \in Seq(Message) /\ Among(down', down)
  <2> HIDE DEF Request, Message
  <2> QED
    BY <1>1, <1>2, PrefixAmong
<1>4. link' = "closed" /\ UNCHANGED << chargePointVars, serving, received >>
  BY DEF Break, LinkBreaks, centralVars
<1> QED
  BY <1>3, <1>4, LinkInv DEF IInv, Typed

LEMMA InitIInv == Init => IInv
<1> SUFFICES ASSUME Init PROVE IInv
  OBVIOUS
<1>1. /\ link = "none" /\ up = << >> /\ down = << >> /\ tasks = << >> /\ owner = 0
      /\ waiters = << >> /\ transaction_id = NoTransaction /\ serving = TRUE
      /\ received = << >>
  BY DEF Init, LinkInit, ChargePointInit, CentralInit
<1>2. \A S : << >> \in Seq(S)
  OBVIOUS
<1>3. Typed
  BY <1>1, <1>2, ChargePointAssumption DEF Typed, TasksTyped
<1>4. StopPrepared /\ LockAccountsForTasks
  BY <1>1 DEF StopPrepared, LockAccountsForTasks
<1>5. KnownIsStarted /\ MessagesFit /\ StopsFollowStarts
  BY <1>1, TransactionAssumption DEF KnownIsStarted, MessagesFit, StopsFollowStarts
<1> QED
  BY <1>3, <1>4, <1>5 DEF IInv

LEMMA NextIInv == IInv /\ [Next]_vars => IInv'
<1> SUFFICES ASSUME IInv, [Next]_vars PROVE IInv'
  OBVIOUS
<1>0. /\ up \in Seq(Request) /\ down \in Seq(Message) /\ link \in {"none", "open", "closed"}
      /\ Among(up, up) /\ Among(down, down) /\ serving \in BOOLEAN
  BY DEF IInv, Typed, Among
<1>1. ASSUME NEW kind \in CreatedKinds, Create(kind)  PROVE IInv'
  BY <1>1, CreateInv
<1>2. CASE Connect
  BY <1>0, <1>2, LinkInv DEF Connect, LinkOpens, centralVars
<1>3. CASE Break
  BY <1>3, BreakInv
<1>4. ASSUME NEW t \in DOMAIN tasks, Begin(t), UNCHANGED centralVars  PROVE IInv'
  BY <1>4, BeginInv
<1>5. ASSUME NEW t \in DOMAIN tasks, Validated(t), UNCHANGED centralVars  PROVE IInv'
  BY <1>5, ValidatedInv
<1>6. ASSUME NEW t \in DOMAIN tasks, Send(t), UNCHANGED centralVars  PROVE IInv'
  BY <1>6, SendInv, SendFailsInv
<1>7. ASSUME NEW t \in DOMAIN tasks, Timeout(t), UNCHANGED centralVars  PROVE IInv'
  BY <1>7, TimeoutInv
<1>8. CASE Receive /\ UNCHANGED centralVars
  BY <1>8, ReceiveInv
<1>9. CASE HandleMessage /\ UNCHANGED chargePointVars
  BY <1>9, HandleMessageInv
<1>10. CASE ConnectionClosed /\ UNCHANGED chargePointVars
  BY <1>0, <1>10, LinkInv DEF ConnectionClosed, linkVars
<1>11. CASE UNCHANGED vars
  <2>1. UNCHANGED << link, up, down, chargePointVars, received, serving >>
    BY <1>11 DEF vars, linkVars, centralVars
  <2> QED
    BY <1>0, <2>1, LinkInv
<1> QED
  BY <1>1, <1>2, <1>3, <1>4, <1>5, <1>6, <1>7, <1>8, <1>9, <1>10, <1>11
     DEF Next, ChargePointNext, CentralNext

LEMMA OcppInvariant == Spec => []IInv
BY InitIInv, NextIInv, PTL DEF Spec

----------------------------------------------------------------------------
\* Type correctness: in particular every StopTransaction sent names a
\* transaction, as its schema requires.
THEOREM OcppTypeCorrect == Spec => []TypeOK
<1>1. ASSUME IInv  PROVE TypeOK
  <2>1. \A t \in DOMAIN tasks : tasks[t] \in TaskRecord
    BY <1>1 DEF IInv, Typed, TasksTyped
  <2> QED
    BY <1>1, <2>1 DEF IInv, Typed, TypeOK, TaskRecord
<1> QED
  BY <1>1, OcppInvariant, PTL

\* The lock belongs to the one task that waits for a reply, and each waiting
\* task is queued once, for any number of tasks, timeouts and losses.
THEOREM LockIsKept == Spec => []LockAccountsForTasks
<1>1. IInv => LockAccountsForTasks
  BY DEF IInv
<1> QED
  BY <1>1, OcppInvariant, PTL

\* The server sees a StopTransaction only after a StartTransaction, and with
\* the transaction it gave.
THEOREM StopsAlwaysFollowStarts == Spec => []StopsFollowStarts
<1>1. IInv => StopsFollowStarts
  BY DEF IInv
<1> QED
  BY <1>1, OcppInvariant, PTL

\* A reply ends only the call it answers, so that no late reply can make the
\* client forget its transaction.
KeepStep == transaction_id # NoTransaction => transaction_id' # NoTransaction

LEMMA ReplyIsTheCalls ==
  ASSUME IInv, Receive
  PROVE  KeepStep
<1> DEFINE reply == Head(down)
<1>1. CASE ~ (owner # 0 /\ reply.id = << owner, tasks[owner].n >>)
  BY <1>1 DEF Receive, KeepStep
<1>2. CASE owner # 0 /\ reply.id = << owner, tasks[owner].n >>
  <2>1. transaction_id' = IF Operation(tasks[owner]) = "StartTransaction"
                          THEN reply.transaction ELSE transaction_id
    BY <1>2 DEF Receive
  <2>2. 1 \in DOMAIN down /\ reply = down[1]
    <3>1. down \in Seq(Message) /\ down # << >>
      BY DEF IInv, Typed, Receive
    <3> HIDE DEF Message
    <3> QED
      BY <3>1, TailAmong
  <2>3. Fits(reply) /\ (reply.op = "StartTransaction" => reply.transaction = TransactionGiven)
    BY <2>2 DEF IInv, MessagesFit
  <2>4. owner \in DOMAIN tasks /\ tasks[owner].pc = "calling"
    BY <1>2 DEF IInv, Typed, TasksTyped, LockAccountsForTasks
  <2> HIDE DEF reply
  <2>5. reply.op = Operation(tasks[owner])
    BY <1>2, <2>3, <2>4 DEF Fits
  <2> QED
    BY <2>1, <2>3, <2>5, TransactionAssumption DEF KeepStep
<1> QED
  BY <1>1, <1>2

LEMMA TransactionStays == IInv /\ [Next]_vars => [KeepStep]_vars
<1> SUFFICES ASSUME IInv, [Next]_vars PROVE KeepStep
  OBVIOUS
<1>1. CASE transaction_id' = transaction_id
  BY <1>1 DEF KeepStep
<1>2. ASSUME NEW t, Begin(t) \/ Validated(t) \/ Send(t) \/ Timeout(t)
      PROVE  transaction_id' = transaction_id
  BY <1>2 DEF Begin, Validated, Send, Timeout
<1>3. \/ \E t \in DOMAIN tasks : Begin(t) \/ Validated(t) \/ Send(t) \/ Timeout(t)
      \/ Receive
      \/ transaction_id' = transaction_id
  BY DEF Next, ChargePointNext, Create, Connect, Break, vars, chargePointVars
<1> QED
  BY <1>1, <1>2, <1>3, ReplyIsTheCalls

THEOREM TransactionAlwaysKept == Spec => TransactionKept
<1>1. Spec => [][KeepStep]_vars
  BY OcppInvariant, TransactionStays, PTL DEF Spec
<1> QED
  BY <1>1 DEF KeepStep, TransactionKept

============================================================================
