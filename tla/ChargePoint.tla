---------------------------- MODULE ChargePoint ----------------------------
(* Client/charge_point/charge_point.py: the coroutines of SmartChargePoint, *)
(* each a list of OCPP calls made one after the other.  A call that fails   *)
(* is followed by an error report (DataTransfer), whose own failure is      *)
(* swallowed.  ChargePoint.call of the ocpp package is external: it         *)
(* validates the request (in a worker thread, so that coroutines may        *)
(* overtake each other there), takes a first-come-first-served lock, sends, *)
(* and waits up to 30 s for the reply with its unique id.                   *)
EXTENDS OcppLink, FiniteSets, SequencesExt

CONSTANTS
  Heartbeats,   \* heartbeats after StartTransaction, 3 in the code
  MaxTasks      \* bound on the coroutines ever created

ASSUME ChargePointAssumption == Heartbeats \in Nat /\ MaxTasks \in Nat

VARIABLES
  tasks,            \* coroutines in the order of their creation
  owner,            \* task that holds the call lock, 0 for none
  waiters,          \* tasks queued at the lock
  transaction_id    \* SmartChargePoint.transaction_id

chargePointVars == << tasks, owner, waiters, transaction_id >>

Kinds == { "boot_notification", "authorize", "send_charging_started",
           "stop_transaction", "status_notification" }

\* The calls each coroutine makes (sleeps in between only delay it).
Program(kind) ==
  CASE kind = "boot_notification"     -> << "BootNotification" >>
    [] kind = "authorize"             -> << "Authorize" >>
    [] kind = "send_charging_started" ->
         << "StartTransaction" >> \o [i \in 1..Heartbeats |-> "Heartbeat"]
    [] kind = "stop_transaction"      -> << "StopTransaction" >>
    [] kind = "status_notification"   -> << "StatusNotification" >>

\* A coroutine just created.  todo: calls left, the current one first;
\* report: whether the current one failed and is being reported instead;
\* transaction: the id read when the current call was prepared; n: requests
\* prepared so far, which makes <<task, n>> a unique message id.
NewTask(kind) == [todo |-> Program(kind), pc |-> "new", report |-> FALSE,
                  transaction |-> NoTransaction, n |-> 0]

ChargePointInit ==
  /\ tasks = << >>
  /\ owner = 0
  /\ waiters = << >>
  /\ transaction_id = NoTransaction

\* loop.create_task for each of the given coroutines.
CreateTasks(kinds) ==
  tasks' = tasks \o [i \in DOMAIN kinds |-> NewTask(kinds[i])]

Operation(task) == IF task.report THEN "DataTransfer" ELSE Head(task.todo)

\* The task goes on to its next call, or ends.
Advance(task) == [task EXCEPT !.todo = Tail(task.todo), !.report = FALSE,
                              !.pc = IF Tail(task.todo) = << >> THEN "done" ELSE "ready"]

\* The current call raised: report it, or swallow the failure of the report.
Failed(task) == IF task.report THEN Advance(task)
                ELSE [task EXCEPT !.report = TRUE, !.pc = "validating", !.n = task.n + 1]

\* Mutant: no request is validated, so StopTransaction is sent without an id too.
BeginUnvalidated(t) ==
  LET task == tasks[t]
  IN  /\ \/ task.pc = "ready"
         \/ task.pc = "new" /\ \A u \in 1..(t-1) : tasks[u].pc # "new"
      /\ tasks' = [tasks EXCEPT ![t] =
           IF link = "none" THEN [task EXCEPT !.todo = << >>, !.pc = "done"]
           ELSE [task EXCEPT !.pc = "validating", !.n = task.n + 1,
                             !.transaction = transaction_id]]
      /\ UNCHANGED << owner, waiters, transaction_id, linkVars >>

\* A coroutine starts (in creation order), or wakes, and prepares its call:
\* StopTransaction reads transaction_id here, before the lock, and without one
\* does not pass validation; nor does StatusNotification ever, as simulate_error
\* reports the status "Error", which OCPP 1.6 does not have.
\* send_charging_started looks for charge_point only now.
Begin(t) ==
  LET task    == tasks[t]
      invalid == \/ Head(task.todo) = "StatusNotification"
                 \/ Head(task.todo) = "StopTransaction" /\ transaction_id = NoTransaction
  IN  /\ \/ task.pc = "ready"
         \/ task.pc = "new" /\ \A u \in 1..(t-1) : tasks[u].pc # "new"
      /\ tasks' = [tasks EXCEPT ![t] =
           IF link = "none" THEN [task EXCEPT !.todo = << >>, !.pc = "done"]
           ELSE [task EXCEPT !.pc = "validating", !.report = invalid, !.n = task.n + 1,
                             !.transaction = transaction_id]]
      /\ UNCHANGED << owner, waiters, transaction_id, linkVars >>

\* Validation is through; the task queues at the lock.
Validated(t) ==
  /\ tasks[t].pc = "validating"
  /\ tasks' = [tasks EXCEPT ![t].pc = "queued"]
  /\ waiters' = Append(waiters, t)
  /\ UNCHANGED << owner, transaction_id, linkVars >>

\* The first waiter gets the lock and sends; on a closed link send raises.
Send(t) ==
  /\ owner = 0
  /\ waiters # << >> /\ Head(waiters) = t
  /\ waiters' = Tail(waiters)
  /\ IF link = "open"
     THEN /\ up' = Append(up, [id |-> << t, tasks[t].n >>, op |-> Operation(tasks[t]),
                               transaction |-> tasks[t].transaction])
          /\ owner' = t
          /\ tasks' = [tasks EXCEPT ![t].pc = "calling"]
     ELSE /\ tasks' = [tasks EXCEPT ![t] = Failed(@)]
          /\ UNCHANGED << owner, up >>
  /\ UNCHANGED << transaction_id, link, down >>

\* Mutant: any reply answers the call under way.
ReceiveAny ==
  LET reply == Head(down)
  IN  /\ down # << >>
      /\ down' = Tail(down)
      /\ IF owner # 0
         THEN /\ transaction_id' = IF Operation(tasks[owner]) = "StartTransaction"
                                   THEN reply.transaction ELSE transaction_id
              /\ tasks' = [tasks EXCEPT ![owner] = Advance(@)]
              /\ owner' = 0
         ELSE UNCHANGED << tasks, owner, transaction_id >>
      /\ UNCHANGED << waiters, link, up >>

\* A reply arrives: it ends the call with its id; a late one is dropped.  A
\* CALLERROR, or a reply that fails validation, would raise in call(); the
\* central system sends neither.
Receive ==
  LET reply == Head(down)
  IN  /\ down # << >>
      /\ down' = Tail(down)
      /\ IF owner # 0 /\ reply.id = << owner, tasks[owner].n >>
         THEN /\ transaction_id' = IF Operation(tasks[owner]) = "StartTransaction"
                                   THEN reply.transaction ELSE transaction_id
              /\ tasks' = [tasks EXCEPT ![owner] = Advance(@)]
              /\ owner' = 0
         ELSE UNCHANGED << tasks, owner, transaction_id >>
      /\ UNCHANGED << waiters, link, up >>

\* Mutant: the failed call is reported before its lock is released, so the
\* report queues at a lock its own coroutine holds.
TimeoutKeepsLock(t) ==
  /\ owner = t /\ tasks[t].pc = "calling"
  /\ tasks' = [tasks EXCEPT ![t] = Failed(@)]
  /\ owner' = IF tasks[t].report THEN 0 ELSE t
  /\ UNCHANGED << waiters, transaction_id, linkVars >>

\* 30 s without the reply: the lock is released and the call has failed.
Timeout(t) ==
  /\ owner = t
  /\ tasks' = [tasks EXCEPT ![t] = Failed(@)]
  /\ owner' = 0
  /\ UNCHANGED << waiters, transaction_id, linkVars >>

ChargePointNext ==
  \/ \E t \in DOMAIN tasks : Begin(t) \/ Validated(t) \/ Send(t) \/ Timeout(t)
  \/ Receive

============================================================================
