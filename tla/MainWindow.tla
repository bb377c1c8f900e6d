----------------------------- MODULE MainWindow ----------------------------
(* Client/gui/main_window.py: the window that drives the simulator.  Its    *)
(* buttons and two Qt timers (the charge tick and the payment delay) are    *)
(* slots on one thread, so each is one action; what makes it hard is their  *)
(* order, the database that may fail under any statement, and the side      *)
(* effects a button has whether or not the state machine accepts its event. *)
(*                                                                          *)
(* A slot that raises ends the program (PyQt5 aborts on an unhandled Python *)
(* exception); coroutines given to the event loop are only named here, in   *)
(* "created", and modelled in ChargePoint.                                  *)
EXTENDS Simulator

CONSTANTS
  ErrorRules,    \* error message -> states it may be injected in
  InitialLevel,  \* 20 in the code: per cent of charge a car arrives with
  FullLevel,     \* 100 in the code
  PaymentDelay,  \* 6500 ms in the code, in units of time
  Vehicles,      \* rows of the table vehicles
  NoVehicle,     \* None
  DbFailures,    \* subset of {"error", "lost"}: what a statement may run into
  MaxSessions    \* bound on the rows of charging_sessions

ASSUME WindowAssumption ==
  /\ ErrorRules \in [Messages -> SUBSET States]
  /\ InitialLevel \in Nat /\ FullLevel \in Nat /\ InitialLevel < FullLevel
  /\ PaymentDelay \in Nat \ {0}
  /\ NoVehicle \notin Vehicles
  /\ DbFailures \subseteq {"error", "lost"}
  /\ MaxSessions \in Nat
  /\ "SarjEdiliyor" \in States \ {"Error"}
  /\ {"connect_vehicle", "start_cert_check", "auth_ok", "start_charging",
      "start_payment", "payment_complete", "charging_complete", "disconnect"}
       \subseteq Events

\* Charging is entered by start_charging and left by charging_complete or by
\* an error; nothing else leads there (fsm_states.xml).
ASSUME ChargingArcsAssumption ==
  /\ InitialState # "SarjEdiliyor"
  /\ \A i \in DOMAIN Transitions :
       /\ Transitions[i].source = "SarjEdiliyor" =>
            /\ Transitions[i].trigger \in {"charging_complete", "error_occurred"}
            /\ Transitions[i].destination # "SarjEdiliyor"
       /\ Transitions[i].destination = "SarjEdiliyor" =>
            Transitions[i].trigger = "start_charging"

\* The initial state is left by connect_vehicle or an error (fsm_states.xml).
ASSUME StartArcsAssumption ==
  \A i \in DOMAIN Transitions :
    Transitions[i].source = InitialState /\ Transitions[i].destination # InitialState =>
      Transitions[i].trigger \in {"connect_vehicle", "error_occurred"}

VARIABLES
  running,              \* FALSE once an exception left a slot
  charge_level,         \* per cent shown by the progress bar
  charge_timer,         \* whether the 200 ms timer runs
  payment_timer,        \* time left to the single-shot payment timer, 0 when
                        \* it does not run
  selected_vehicle_id,
  session_id,           \* row of the current session, 0 for None
  delivered,            \* whether the global "delivered" was ever assigned
  db,                   \* [conn, rows]: connection and table charging_sessions
  charge_point,         \* whether setup_charge_point has assigned the object
  created               \* coroutines the last slot gave to the event loop

windowVars == << running, charge_level, charge_timer, payment_timer,
                 selected_vehicle_id, session_id, delivered, db, charge_point,
                 created >>
vars == << simulatorVars, windowVars >>

\* A row of charging_sessions.
Session == [vehicle : Vehicles, status : {"pending", "started", "completed"}, paid : BOOLEAN]

----------------------------------------------------------------------------
(* database/connection.py: what a statement does to the connection.  conn   *)
(* is "open", "aborted" (a statement of the current transaction failed and  *)
(* nobody rolled back) or "closed" (never opened, or lost).                 *)

When(condition, outcomes) == IF condition THEN outcomes ELSE {}

MayFail(d, failure) == d.conn # "closed" /\ failure \in DbFailures

\* DatabaseManager.execute_query and execute_and_fetchone, for a statement
\* that makes the rows "rows": commit, or roll back and swallow the error.  On
\* a dead connection rollback itself raises; a commit may be lost either way.
ExecuteQuery(d, rows) ==
  When(d.conn = "open",
    {[db |-> [d EXCEPT !.rows = rows], done |-> TRUE, raised |-> FALSE]})
  \cup
  When(d.conn = "aborted" \/ MayFail(d, "error"),
    {[db |-> [d EXCEPT !.conn = "open"], done |-> FALSE, raised |-> FALSE]})
  \cup
  When(d.conn = "closed" \/ MayFail(d, "lost"),
    { [db |-> [conn |-> "closed", rows |-> r], done |-> FALSE, raised |-> TRUE] :
        r \in {d.rows} \cup When(d.conn = "open", {rows}) })

\* A SELECT run on the raw cursor (mark_session_completed): nobody rolls back.
RawSelect(d) ==
  When(d.conn = "open", {[db |-> d, found |-> TRUE]})
  \cup
  When(d.conn = "aborted" \/ MayFail(d, "error"),
    {[db |-> [d EXCEPT !.conn = "aborted"], found |-> FALSE]})
  \cup
  When(d.conn = "closed" \/ MayFail(d, "lost"),
    {[db |-> [d EXCEPT !.conn = "closed"], found |-> FALSE]})

\* UPDATE charging_sessions SET session_status = 'started': the database after
\* it, the exception (if any) caught by the caller.
MarkStarted(d) ==
  IF session_id = 0 THEN {d}
  ELSE { r.db : r \in ExecuteQuery(d, [d.rows EXCEPT ![session_id].status = "started"]) }

\* MainWindow.mark_session_completed up to its last line: read the capacity,
\* then mark the row completed and paid.  "delivered" is assigned in between,
\* whatever becomes of the UPDATE.
MarkCompleted(d) ==
  IF session_id = 0 THEN {[db |-> d, delivered |-> delivered]}
  ELSE UNION { IF ~ s.found THEN {[db |-> s.db, delivered |-> delivered]}
               ELSE { [db |-> r.db, delivered |-> TRUE] :
                        r \in ExecuteQuery(s.db,
                                [s.db.rows EXCEPT ![session_id].status = "completed",
                                                  ![session_id].paid = TRUE]) } :
               s \in RawSelect(d) }

----------------------------------------------------------------------------
WindowInit ==
  /\ SimulatorInit
  /\ running = TRUE
  /\ charge_level = InitialLevel
  /\ charge_timer = FALSE
  /\ payment_timer = 0
  /\ \/ /\ db = [conn |-> "open", rows |-> << >>]
        /\ selected_vehicle_id \in Vehicles
     \/ /\ "error" \in DbFailures      \* no vehicle could be loaded
        /\ db = [conn |-> "open", rows |-> << >>]
        /\ selected_vehicle_id = NoVehicle
     \/ /\ "lost" \in DbFailures       \* the database was never reached
        /\ db = [conn |-> "closed", rows |-> << >>]
        /\ selected_vehicle_id = NoVehicle
  /\ session_id = 0
  /\ delivered = FALSE
  /\ charge_point = FALSE
  /\ created = << >>

\* The calls that hand a coroutine to the loop only if charge_point is set
\* and, all but the error report, a vehicle is selected.
Creates(kind, needsVehicle) ==
  created' = IF charge_point /\ (needsVehicle => selected_vehicle_id # NoVehicle)
             THEN << kind >> ELSE << >>

\* MainWindow.update_status: the charge timer runs exactly in "SarjEdiliyor".
UpdateStatus == charge_timer' = (current_state' = "SarjEdiliyor")

\* MainWindow.trigger_event for the events with no session bookkeeping.
Trigger(e) == TriggerEvent(e) /\ UpdateStatus

\* setup_charge_point: the object is assigned when the connection is made and
\* is never unset, also when start() ends or fails later.
SetupChargePoint ==
  /\ running /\ ~ charge_point
  /\ charge_point' = TRUE
  /\ created' = << >>
  /\ UNCHANGED << simulatorVars, running, charge_level, charge_timer, payment_timer,
                  selected_vehicle_id, session_id, delivered, db >>

\* on_vehicle_changed.
OnVehicleChanged(v) ==
  /\ running /\ selected_vehicle_id # NoVehicle
  /\ selected_vehicle_id' = v
  /\ created' = << >>
  /\ UNCHANGED << simulatorVars, running, charge_level, charge_timer, payment_timer,
                  session_id, delivered, db, charge_point >>

\* The body of ConnectVehicle; sessionAfter is the session id it ends with,
\* by whether the INSERT returned a row.
OpenSession(sessionAfter) ==
  LET row == [vehicle |-> selected_vehicle_id, status |-> "pending", paid |-> FALSE]
  IN
  /\ running
  /\ Creates("boot_notification", TRUE)
  /\ IF selected_vehicle_id = NoVehicle
     THEN Trigger("connect_vehicle") /\ UNCHANGED << running, session_id, db >>
     ELSE /\ Len(db.rows) < MaxSessions
          /\ \E r \in ExecuteQuery(db, Append(db.rows, row)) :
               /\ db' = r.db
               /\ session_id' = sessionAfter[r.done]
               /\ running' = ~ r.raised
               /\ IF r.raised THEN UNCHANGED << simulatorVars, charge_timer >>
                              ELSE Trigger("connect_vehicle")
  /\ UNCHANGED << charge_level, payment_timer, selected_vehicle_id, delivered, charge_point >>

\* Mutant: takes the id without looking whether the INSERT returned a row.
ConnectVehicleUnchecked == OpenSession([done \in BOOLEAN |-> Len(db.rows) + 1])

\* Mutant: never stores the id.
ConnectVehicleForgetsId == OpenSession([done \in BOOLEAN |-> session_id])

\* Mutant: stores the id only while there is none.
ConnectVehicleKeepsId ==
  OpenSession([done \in BOOLEAN |->
    IF done /\ session_id = 0 THEN Len(db.rows) + 1 ELSE session_id])

\* handle_fsm_event("connect_vehicle"): log_action opens a session whatever
\* state the machine is in, keeps the old session_id when the INSERT yields no
\* row, and lets the exception of a dead connection out of the slot.
ConnectVehicle ==
  OpenSession([done \in BOOLEAN |-> IF done THEN Len(db.rows) + 1 ELSE session_id])

\* Mutant: disconnecting the vehicle stops the transaction as well.
PlainButtonStops(e) ==
  /\ running
  /\ Trigger(e)
  /\ IF e = "disconnect" THEN Creates("stop_transaction", TRUE) ELSE created' = << >>
  /\ UNCHANGED << running, charge_level, payment_timer, selected_vehicle_id, session_id,
                  delivered, db, charge_point >>

\* handle_fsm_event for the buttons that only trigger their event.
PlainButton(e) ==
  /\ running
  /\ Trigger(e)
  /\ created' = << >>
  /\ UNCHANGED << running, charge_level, payment_timer, selected_vehicle_id, session_id,
                  delivered, db, charge_point >>

\* handle_fsm_event("auth_ok").
AuthOk ==
  /\ running
  /\ Creates("authorize", TRUE)
  /\ Trigger("auth_ok")
  /\ UNCHANGED << running, charge_level, payment_timer, selected_vehicle_id, session_id,
                  delivered, db, charge_point >>

\* handle_fsm_event("start_charging"): the row is marked 'started' twice, here
\* and in trigger_event, also when the machine refuses the event.
StartCharging ==
  /\ running
  /\ created' = << "send_charging_started" >>
  /\ \E d \in MarkStarted(db) : db' \in MarkStarted(d)
  /\ Trigger("start_charging")
  /\ UNCHANGED << running, charge_level, payment_timer, selected_vehicle_id, session_id,
                  delivered, charge_point >>

\* handle_fsm_event("start_payment"): starts the payment timer in every state;
\* one that runs starts over.
StartPayment ==
  /\ running
  /\ payment_timer' = PaymentDelay
  /\ Trigger("start_payment")
  /\ created' = << >>
  /\ UNCHANGED << running, charge_level, selected_vehicle_id, session_id, delivered, db,
                  charge_point >>

\* Time passes while the payment timer runs.
PaymentWait ==
  /\ running /\ payment_timer > 1
  /\ payment_timer' = payment_timer - 1
  /\ created' = << >>
  /\ UNCHANGED << simulatorVars, running, charge_level, charge_timer,
                  selected_vehicle_id, session_id, delivered, db, charge_point >>

\* Mutant: the slot triggers an event the table does not have.
CompletePaymentProcessMisspelt ==
  /\ running /\ payment_timer = 1
  /\ payment_timer' = 0
  /\ Trigger("payment_completed")
  /\ created' = << >>
  /\ UNCHANGED << running, charge_level, selected_vehicle_id, session_id, delivered, db,
                  charge_point >>

\* complete_payment_process, the payment timer's slot.
CompletePaymentProcess ==
  /\ running /\ payment_timer = 1
  /\ payment_timer' = 0
  /\ Trigger("payment_complete")
  /\ created' = << >>
  /\ UNCHANGED << running, charge_level, selected_vehicle_id, session_id, delivered, db,
                  charge_point >>

\* update_charge_progress, the charge timer's slot, below full charge.
ChargeTick ==
  /\ running /\ charge_timer /\ charge_level < FullLevel
  /\ charge_level' = charge_level + 1
  /\ created' = << >>
  /\ UNCHANGED << simulatorVars, running, charge_timer, payment_timer,
                  selected_vehicle_id, session_id, delivered, db, charge_point >>

\* ChargeFull with its threshold and the level it leaves as parameters.
CompleteCharge(threshold, levelAfter) ==
  /\ running /\ charge_timer /\ charge_level >= threshold
  /\ TriggerEvent("charging_complete")
  /\ \E r \in MarkCompleted(db) :
       /\ db' = r.db
       /\ delivered' = r.delivered
       /\ running' = r.delivered
       /\ IF r.delivered
          THEN /\ charge_level' = levelAfter
               /\ UpdateStatus
               /\ Creates("stop_transaction", TRUE)
          ELSE /\ UNCHANGED charge_level
               /\ charge_timer' = FALSE
               /\ created' = << >>
  /\ UNCHANGED << payment_timer, selected_vehicle_id, session_id, charge_point >>

\* Mutant: completes one tick early.
ChargeFullEarly == CompleteCharge(FullLevel - 1, InitialLevel)

\* Mutant: leaves the level at full.
ChargeFullKeepsLevel == CompleteCharge(FullLevel, charge_level)

\* update_charge_progress at full charge: stops the timer and triggers
\* charging_complete; mark_session_completed then reads the global
\* "delivered", which raises while nothing has ever assigned it.
ChargeFull == CompleteCharge(FullLevel, InitialLevel)

\* Mutant: without the check for an error that is pending already.
AddSelectedErrorTwice(m) ==
  /\ running
  /\ current_state \in ErrorRules[m]
  /\ SimulateError(m)
  /\ UpdateStatus
  /\ Creates("status_notification", FALSE)
  /\ UNCHANGED << running, charge_level, payment_timer, selected_vehicle_id, session_id,
                  delivered, db, charge_point >>

\* add_selected_error: refused when pending already or not allowed in the
\* current state; otherwise simulate_error.
AddSelectedError(m) ==
  /\ running
  /\ ~ Contains(stack, m)
  /\ current_state \in ErrorRules[m]
  /\ SimulateError(m)
  /\ UpdateStatus
  /\ Creates("status_notification", FALSE)
  /\ UNCHANGED << running, charge_level, payment_timer, selected_vehicle_id, session_id,
                  delivered, db, charge_point >>

\* Mutant: without update_status.
ResolveErrorButtonNoRefresh ==
  /\ running
  /\ ResolveError
  /\ created' = << >>
  /\ UNCHANGED << running, charge_level, charge_timer, payment_timer, selected_vehicle_id,
                  session_id, delivered, db, charge_point >>

\* resolve_error.
ResolveErrorButton ==
  /\ running
  /\ ResolveError
  /\ UpdateStatus
  /\ created' = << >>
  /\ UNCHANGED << running, charge_level, payment_timer, selected_vehicle_id, session_id,
                  delivered, db, charge_point >>

WindowNext ==
  \/ SetupChargePoint
  \/ \E v \in Vehicles : OnVehicleChanged(v)
  \/ ConnectVehicle
  \/ \E e \in {"start_cert_check", "disconnect"} : PlainButton(e)
  \/ AuthOk
  \/ StartCharging
  \/ StartPayment
  \/ PaymentWait
  \/ CompletePaymentProcess
  \/ ChargeTick
  \/ ChargeFull
  \/ \E m \in Messages : AddSelectedError(m)
  \/ ResolveErrorButton

\* Time passes and the Qt timers fire; the operator need not do anything.  The
\* payment timer may be restarted for ever (StartPayment).  Every button restarts
\* the charge timer too (update_status): that it fires at all assumes that the
\* operator does not keep pressing one within 200 ms of the last, without end.
WindowFairness == WF_vars(ChargeTick) /\ WF_vars(ChargeFull)
                  /\ WF_vars(PaymentWait) /\ WF_vars(CompletePaymentProcess)

WindowSafetySpec == WindowInit /\ [][WindowNext]_vars
WindowSpec == WindowSafetySpec /\ WindowFairness

----------------------------------------------------------------------------
(* Properties                                                               *)

\* Every field of the window holds a value of its kind, and session_id names a
\* row of the table.
WindowTypeOK ==
  /\ SimulatorTypeOK
  /\ running \in BOOLEAN
  /\ charge_level \in InitialLevel..FullLevel
  /\ charge_timer \in BOOLEAN
  /\ payment_timer \in 0..PaymentDelay
  /\ selected_vehicle_id \in Vehicles \cup {NoVehicle}
  /\ db \in [conn : {"open", "aborted", "closed"}, rows : Seq(Session)]
  /\ Len(db.rows) <= MaxSessions
  /\ session_id \in 0..Len(db.rows)
  /\ delivered \in BOOLEAN
  /\ charge_point \in BOOLEAN
  /\ created \in Seq({"boot_notification", "authorize", "send_charging_started",
                      "stop_transaction", "status_notification"})

\* The charge timer runs exactly while the machine is in "SarjEdiliyor",
\* whichever mixture of buttons, errors and resolutions led there or away:
\* charging never goes on under a pending error and never stalls without one.
ChargeTimerFollowsState ==
  running => (charge_timer <=> current_state = "SarjEdiliyor")

\* Progress made belongs to a charge under way or suspended by an error: no
\* other charge ever starts from a level an earlier one left behind.
LevelBelongsToCharge ==
  running /\ charge_level # InitialLevel =>
    \/ current_state = "SarjEdiliyor"
    \/ current_state = "Error" /\ previous_state_before_error = "SarjEdiliyor"

\* The errors of an episode respect pda_errors.xml, though only the current
\* state is compared: the first was allowed in the interrupted state, the
\* later ones in "Error", and none is pending twice.
EpisodeLegal ==
  /\ \A i \in DOMAIN stack :
       (IF i = 1 THEN previous_state_before_error ELSE "Error") \in ErrorRules[stack[i]]
  /\ \A i, j \in DOMAIN stack : stack[i] = stack[j] => i = j

\* A session becomes 'completed' only when the current charge has run to full.
CompletedByFullCharge ==
  [][ \A i \in DOMAIN db.rows \cap DOMAIN db'.rows :
        db.rows[i].status # "completed" /\ db'.rows[i].status = "completed" =>
          current_state = "SarjEdiliyor" /\ charge_level = FullLevel /\ i = session_id ]_vars

\* With the timers firing, a charge completes unless errors keep coming (or the
\* program has aborted): suspending it any number of times loses nothing.
ChargeCompletes ==
  <>[](current_state # "Error") =>
    (current_state = "SarjEdiliyor" ~> (current_state = "SarjTamamlandi" \/ ~ running))

\* A payment that is being waited for completes unless an error interrupts it,
\* if the operator stops pressing the payment button: each press restarts the
\* delay, in whatever state, so pressing within it without end postpones the
\* payment for ever.
PaymentCompletes ==
  <>[][payment_timer' < payment_timer]_payment_timer =>
    ((current_state = "OdemeOnayi" /\ payment_timer > 0)
       ~> (current_state \in {"OdemeAlindi", "Error"} \/ ~ running))

----------------------------------------------------------------------------
(* With a database that works (DbFailures = {}) and a vehicle selected.     *)

\* The program never aborts: every way to a full charge leads through
\* connect_vehicle, which leaves a session to complete.
NeverAborts == running

\* The session worked on is the newest one, and there is one whenever the
\* process, suspended or not, has left its initial state.
SessionIsNewest ==
  /\ session_id = Len(db.rows)
  /\ db.conn = "open"
  /\ (IF current_state = "Error" THEN previous_state_before_error ELSE current_state)
       # InitialState => session_id # 0

============================================================================
