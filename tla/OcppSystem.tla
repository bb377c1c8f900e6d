----------------------------- MODULE OcppSystem -----------------------------
(* ChargePoint and CentralSystem over one link, with the coroutines created *)
(* in any order, at any time.                                               *)
EXTENDS ChargePoint, CentralSystem

CONSTANT CreatedKinds   \* coroutines the window may create in this instance

ASSUME CreatedKindsAssumption == CreatedKinds \subseteq Kinds

vars == << linkVars, chargePointVars, centralVars >>

Init == LinkInit /\ ChargePointInit /\ CentralInit

\* A slot of the window creates a coroutine; all but send_charging_started
\* only once charge_point is set.
Create(kind) ==
  /\ Len(tasks) < MaxTasks
  /\ link # "none" \/ kind = "send_charging_started"
  /\ CreateTasks(<< kind >>)
  /\ UNCHANGED << owner, waiters, transaction_id, linkVars, centralVars >>

Connect == LinkOpens  /\ UNCHANGED << chargePointVars, centralVars >>
Break   == LinkBreaks /\ UNCHANGED << chargePointVars, centralVars >>

Next ==
  \/ \E kind \in CreatedKinds : Create(kind)
  \/ Connect
  \/ Break
  \/ ChargePointNext /\ UNCHANGED centralVars
  \/ CentralNext /\ UNCHANGED chargePointVars

\* The event loops run what is ready, and the 30 s of a call pass.
Fairness ==
  /\ \A t \in 1..MaxTasks :
       WF_vars(t \in DOMAIN tasks /\ (Begin(t) \/ Validated(t) \/ Send(t) \/ Timeout(t))
               /\ UNCHANGED centralVars)
  /\ WF_vars(Receive /\ UNCHANGED centralVars)
  /\ WF_vars(CentralNext /\ UNCHANGED chargePointVars)

Spec == Init /\ [][Next]_vars /\ Fairness

----------------------------------------------------------------------------
(* Properties                                                               *)

Message == [id : (1..MaxTasks) \X Nat, op : Operations,
            transaction : {NoTransaction, TransactionGiven}]

\* StopTransaction's schema requires the transaction id.
Request == { m \in Message : m.op = "StopTransaction" => m.transaction # NoTransaction }

\* Every field holds a value of its kind; what is sent satisfies its schema.
TypeOK ==
  /\ link \in {"none", "open", "closed"}
  /\ up \in Seq(Request) /\ down \in Seq(Message)
  /\ \A t \in DOMAIN tasks :
       tasks[t] \in [todo : Seq(Operations), report : BOOLEAN, n : Nat,
                     pc : {"new", "ready", "validating", "queued", "calling", "done"},
                     transaction : {NoTransaction, TransactionGiven}]
  /\ owner \in 0..Len(tasks)
  /\ transaction_id \in {NoTransaction, TransactionGiven}
  /\ serving \in BOOLEAN /\ received \in Seq(Request)

\* Once the client knows its transaction no reply makes it forget it, also
\* when replies come after their call has timed out and another one waits.
TransactionKept ==
  [][ transaction_id # NoTransaction => transaction_id' # NoTransaction ]_vars

\* No StopTransaction reaches the server before a StartTransaction, and each
\* names the transaction that was given.
StopsFollowStarts ==
  \A i \in DOMAIN received : received[i].op = "StopTransaction" =>
    /\ received[i].transaction = TransactionGiven
    /\ \E j \in 1..(i-1) : received[j].op = "StartTransaction"

\* The lock's owner is the one task waiting for a reply, and no task is lost
\* between the lock and its queue.
LockAccountsForTasks ==
  /\ \A t \in DOMAIN tasks :
       /\ (owner = t) <=> (tasks[t].pc = "calling")
       /\ Contains(waiters, t) <=> (tasks[t].pc = "queued")
  /\ \A i, j \in DOMAIN waiters : waiters[i] = waiters[j] => i = j

\* Every coroutine ends, whatever times out or breaks: a failed call never
\* keeps the lock the report of its failure needs.
EveryTaskEnds ==
  \A t \in 1..MaxTasks : (t \in DOMAIN tasks) ~> (t \in DOMAIN tasks /\ tasks[t].pc = "done")

\* Once the connection is lost the server notices and stops serving.
ServerNotices == (link = "closed") ~> ~ serving

============================================================================
