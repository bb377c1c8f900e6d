-------------------------- MODULE ChargingStation --------------------------
(* The whole program: the window (MainWindow) creates coroutines on the     *)
(* event loop it shares with the charge point (ChargePoint), which talks to *)
(* the central system (CentralSystem).                                      *)
EXTENDS MainWindow, ChargePoint, CentralSystem

CONSTANT Tracked   \* coroutines followed in this instance; others are dropped

ASSUME TrackedAssumption == Tracked \subseteq Kinds

stationVars == << vars, linkVars, chargePointVars, centralVars >>

StationInit == WindowInit /\ LinkInit /\ ChargePointInit /\ CentralInit

\* A slot of the window: the coroutine it created, if any, joins the event
\* loop, and the charge point is assigned in the step that opens the connection.
WindowStep ==
  LET new == IF created' \in Seq(Tracked) THEN created' ELSE << >>
  IN  /\ WindowNext
      /\ Len(tasks) + Len(new) <= MaxTasks
      /\ CreateTasks(new)
      /\ IF charge_point' # charge_point THEN LinkOpens ELSE UNCHANGED linkVars
      /\ UNCHANGED << owner, waiters, transaction_id, centralVars >>

StationBreak == LinkBreaks /\ UNCHANGED << vars, chargePointVars, centralVars >>

StationNext ==
  \/ WindowStep
  \/ StationBreak
  \/ ChargePointNext /\ UNCHANGED << vars, centralVars >>
  \/ CentralNext /\ UNCHANGED << vars, chargePointVars >>

StationFairness ==
  /\ \A t \in 1..MaxTasks :
       WF_stationVars(t \in DOMAIN tasks /\ (Begin(t) \/ Validated(t) \/ Send(t) \/ Timeout(t))
                      /\ UNCHANGED << vars, centralVars >>)
  /\ WF_stationVars(Receive /\ UNCHANGED << vars, centralVars >>)
  /\ WF_stationVars(CentralNext /\ UNCHANGED << vars, chargePointVars >>)

StationSpec == StationInit /\ [][StationNext]_stationVars /\ StationFairness

----------------------------------------------------------------------------
Count(op) == Len(SelectSeq(received, LAMBDA m : m.op = op))

\* However buttons, timers, coroutines and the loss of the connection
\* interleave, a StopTransaction reaches the server only for a charge that ran
\* to full and whose session is completed and paid in the database.
StopsHaveCompletedSession ==
  (\E i \in DOMAIN received : received[i].op = "StopTransaction") =>
    \E i \in DOMAIN db.rows : db.rows[i].paid

\* main_window.py:298 "send Stop Transaction": the coroutine created when a
\* charge completes stops, at the server, the transaction started there, as long
\* as the connection lives.
StartedTransactionIsStopped ==
  \A t \in 1..MaxTasks :
    (/\ t \in DOMAIN tasks /\ tasks[t].pc = "new"
     /\ tasks[t].todo = << "StopTransaction" >>
     /\ Count("StartTransaction") > 0)
      ~> (Count("StopTransaction") > 0 \/ link = "closed")

============================================================================
