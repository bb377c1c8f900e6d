--------------------------- MODULE StationProofs ---------------------------
(* Theorems about the whole program: the window and the OCPP pair, composed,*)
(* still do what each does on its own, and together they stop no charge at  *)
(* the server that has not been completed and paid.                         *)
EXTENDS ChargingStation, MainWindowProofs

\* The OCPP pair with the coroutines created by the window.
Ocpp == INSTANCE OcppProofs WITH CreatedKinds <- Tracked

----------------------------------------------------------------------------
(* The window's part                                                        *)

\* In the station the window behaves as it does alone.
LEMMA StationWindow == [StationNext]_stationVars => [WindowNext]_vars
BY DEF StationNext, WindowStep, StationBreak, stationVars

\* What is proved of the window on its own holds in the whole program.
THEOREM StationImplementsWindow == StationSpec => WindowSafetySpec
<1>1. StationInit => WindowInit
  BY DEF StationInit
<1> QED
  BY <1>1, StationWindow, PTL DEF StationSpec, WindowSafetySpec

----------------------------------------------------------------------------
(* The OCPP part                                                            *)

\* Both modules take the charge point's and the server's operators from the
\* same definitions.
LEMMA SameOcpp ==
  /\ LinkInit <=> Ocpp!LinkInit
  /\ ChargePointInit <=> Ocpp!ChargePointInit
  /\ CentralInit <=> Ocpp!CentralInit
  /\ LinkOpens <=> Ocpp!LinkOpens
  /\ LinkBreaks <=> Ocpp!LinkBreaks
  /\ ChargePointNext <=> Ocpp!ChargePointNext
  /\ CentralNext <=> Ocpp!CentralNext
<1>1. linkVars = Ocpp!linkVars
  BY DEF linkVars, Ocpp!linkVars
<1>2. /\ LinkInit <=> Ocpp!LinkInit
      /\ ChargePointInit <=> Ocpp!ChargePointInit
      /\ CentralInit <=> Ocpp!CentralInit
      /\ LinkOpens <=> Ocpp!LinkOpens
      /\ LinkBreaks <=> Ocpp!LinkBreaks
  BY DEF LinkInit, Ocpp!LinkInit, ChargePointInit, Ocpp!ChargePointInit, CentralInit,
         Ocpp!CentralInit, LinkOpens, Ocpp!LinkOpens, LinkBreaks, Ocpp!LinkBreaks
<1>3. \A task : Advance(task) = Ocpp!Advance(task)
  BY DEF Advance, Ocpp!Advance
<1>4. \A task : Failed(task) = Ocpp!Failed(task)
  BY <1>3 DEF Failed, Ocpp!Failed
<1>5. \A task : Operation(task) = Ocpp!Operation(task)
  BY DEF Operation, Ocpp!Operation
<1>6. \A t : (Begin(t) <=> Ocpp!Begin(t)) /\ (Validated(t) <=> Ocpp!Validated(t))
  BY DEF Begin, Ocpp!Begin, Validated, Ocpp!Validated, linkVars, Ocpp!linkVars
<1>7. \A t : (Send(t) <=> Ocpp!Send(t)) /\ (Timeout(t) <=> Ocpp!Timeout(t))
  <2>1. ASSUME NEW t
        PROVE  [tasks EXCEPT ![t] = Failed(@)] = [tasks EXCEPT ![t] = Ocpp!Failed(@)]
    BY <1>4, Zenon
  <2>2. \A t : Timeout(t) <=> Ocpp!Timeout(t)
    BY <2>1 DEF Timeout, Ocpp!Timeout, linkVars, Ocpp!linkVars
  <2>3. \A t : Send(t) <=> Ocpp!Send(t)
    BY <1>5, <2>1 DEF Send, Ocpp!Send
  <2> QED
    BY <2>2, <2>3
<1>8. Receive <=> Ocpp!Receive
  BY <1>3, <1>5, Zenon DEF Receive, Ocpp!Receive
<1>9. ChargePointNext <=> Ocpp!ChargePointNext
  BY <1>6, <1>7, <1>8 DEF ChargePointNext, Ocpp!ChargePointNext
<1>10. CentralNext <=> Ocpp!CentralNext
  <2>1. /\ \A rows, row : Logged(rows, row) = Ocpp!Logged(rows, row)
        /\ \A rows, new : LoggedErrors(rows, new) = Ocpp!LoggedErrors(rows, new)
        /\ \A m : Reply(m) = Ocpp!Reply(m)
    BY DEF Logged, Ocpp!Logged, LoggedErrors, Ocpp!LoggedErrors, Reply, Ocpp!Reply,
           TransactionGiven, Ocpp!TransactionGiven, InsertedLogColumns,
           Ocpp!InsertedLogColumns, InsertedErrorColumns, Ocpp!InsertedErrorColumns
  <2>2. HandleMessage <=> Ocpp!HandleMessage
    BY <2>1 DEF HandleMessage, Ocpp!HandleMessage
  <2>3. ConnectionClosed <=> Ocpp!ConnectionClosed
    BY <2>1 DEF ConnectionClosed, Ocpp!ConnectionClosed, linkVars, Ocpp!linkVars
  <2> QED
    BY <2>2, <2>3 DEF CentralNext, Ocpp!CentralNext
<1> QED
  BY <1>2, <1>9, <1>10

\* The window's slots know of a charge point exactly when a connection was made.
Linked == charge_point \in BOOLEAN /\ (charge_point <=> link # "none")

\* A slot of the window gives the loop nothing or one coroutine, and that only
\* on a connection, save for send_charging_started; it makes the connection
\* when it gives none.  Only a full charge stops a transaction.
LEMMA SlotCreates ==
  ASSUME Linked, WindowNext
  PROVE  /\ \/ created' = << >>
            \/ \E kind \in Kinds : /\ created' = << kind >>
                                   /\ charge_point \/ kind = "send_charging_started"
                                   /\ kind = "stop_transaction" => ChargeFull
         /\ \/ charge_point' = charge_point
            \/ created' = << >> /\ ~ charge_point /\ charge_point' = TRUE
<1>1. ASSUME NEW kind \in Kinds, NEW b, Creates(kind, b)
      PROVE  \/ created' = << >>
             \/ created' = << kind >> /\ charge_point
  BY <1>1 DEF Creates
<1>2. CASE SetupChargePoint
  BY <1>2 DEF SetupChargePoint
<1>3. ASSUME NEW v \in Vehicles, OnVehicleChanged(v)
      PROVE  created' = << >> /\ charge_point' = charge_point
  BY <1>3 DEF OnVehicleChanged
<1>4. CASE ConnectVehicle
  <2>1. Creates("boot_notification", TRUE) /\ charge_point' = charge_point
    BY <1>4 DEF ConnectVehicle, OpenSession
  <2> QED
    BY <1>1, <2>1 DEF Kinds
<1>5. ASSUME NEW e, PlainButton(e)
      PROVE  created' = << >> /\ charge_point' = charge_point
  BY <1>5 DEF PlainButton
<1>6. CASE AuthOk
  BY <1>1, <1>6 DEF AuthOk, Kinds
<1>7. CASE StartCharging
  BY <1>7 DEF StartCharging, Kinds
<1>8. CASE StartPayment
  BY <1>8 DEF StartPayment
<1>9. CASE CompletePaymentProcess
  BY <1>9 DEF CompletePaymentProcess
<1>90. CASE PaymentWait
  BY <1>90 DEF PaymentWait
<1>10. CASE ChargeTick
  BY <1>10 DEF ChargeTick
<1>11. CASE ChargeFull
  <2>1. /\ created' = << >> \/ Creates("stop_transaction", TRUE)
        /\ charge_point' = charge_point
    BY <1>11 DEF ChargeFull, CompleteCharge
  <2> QED
    BY <1>1, <1>11, <2>1 DEF Kinds
<1>12. ASSUME NEW m \in Messages, AddSelectedError(m)
       PROVE  /\ charge_point' = charge_point
              /\ \/ created' = << >>
                 \/ created' = << "status_notification" >> /\ charge_point
  BY <1>1, <1>12 DEF AddSelectedError, Kinds
<1>13. CASE ResolveErrorButton
  BY <1>13 DEF ResolveErrorButton
<1> QED
  BY <1>2, <1>3, <1>4, <1>5, <1>6, <1>7, <1>8, <1>9, <1>90, <1>10, <1>11, <1>12, <1>13
     DEF WindowNext, Kinds

\* What holds between the steps: the two sides agree on the connection, and
\* the OCPP pair keeps its own invariant.
StationInv == Linked /\ Ocpp!IInv

LEMMA OcppAssumptions ==
  Ocpp!ChargePointAssumption /\ Ocpp!TransactionAssumption /\ Ocpp!CreatedKindsAssumption
BY ChargePointAssumption, TransactionAssumption, TrackedAssumption
   DEF TransactionGiven, Ocpp!TransactionGiven, Kinds, Ocpp!Kinds

\* What is tracked of a slot's coroutines.
LEMMA CreatedTracked ==
  ASSUME Linked, WindowNext
  PROVE  LET new == IF created' \in Seq(Tracked) THEN created' ELSE << >>
         IN  \/ new = << >>
             \/ \E kind \in Tracked : /\ new = << kind >>
                                      /\ charge_point \/ kind = "send_charging_started"
                                      /\ charge_point' = charge_point
<1>1. CASE created' = << >>
  BY <1>1
<1>2. ASSUME NEW kind \in Kinds, created' = << kind >>,
             charge_point \/ kind = "send_charging_started", created' \in Seq(Tracked)
      PROVE  kind \in Tracked
  BY <1>2
<1>3. created' # << >> => charge_point' = charge_point
  BY SlotCreates
<1>4. CASE created' # << >> /\ created' \in Seq(Tracked)
  <2>1. PICK kind \in Kinds : /\ created' = << kind >>
                              /\ charge_point \/ kind = "send_charging_started"
    BY <1>4, SlotCreates
  <2> QED
    BY <1>2, <1>3, <1>4, <2>1
<1> QED
  BY <1>1, <1>4

LEMMA NothingCreated ==
  ASSUME tasks \in Seq(Ocpp!TaskRecord), CreateTasks(<< >>)
  PROVE  tasks' = tasks
<1> DEFINE none == [i \in DOMAIN << >> |-> NewTask(<< >>[i])]
<1>1. tasks' = tasks \o none
  BY DEF CreateTasks
<1>2. none = << >>
  OBVIOUS
<1> HIDE DEF none
<1> QED
  BY <1>1, <1>2

LEMMA SameTasks ==
  ASSUME NEW kind, CreateTasks(<< kind >>)
  PROVE  Ocpp!CreateTasks(<< kind >>)
<1>1. NewTask(kind) = Ocpp!NewTask(kind)
  <2>1. Program(kind) = Ocpp!Program(kind)
    BY DEF Program, Ocpp!Program
  <2> QED
    BY <2>1 DEF NewTask, Ocpp!NewTask
<1>2. \A k : [i \in DOMAIN << k >> |-> NewTask(<< k >>[i])] = [i \in {1} |-> NewTask(k)]
  OBVIOUS
<1>3. \A k : [i \in DOMAIN << k >> |-> Ocpp!NewTask(<< k >>[i])] = [i \in {1} |-> Ocpp!NewTask(k)]
  OBVIOUS
<1> QED
  BY <1>1, <1>2, <1>3 DEF CreateTasks, Ocpp!CreateTasks

\* A step of the station is one of the OCPP pair, or none: the window's slots
\* create coroutines or make the connection.
LEMMA StationOcpp ==
  StationInv /\ [StationNext]_stationVars => [Ocpp!Next]_(Ocpp!vars) /\ Linked'
<1> SUFFICES ASSUME Linked, tasks \in Seq(Ocpp!TaskRecord), [StationNext]_stationVars
             PROVE  [Ocpp!Next]_(Ocpp!vars) /\ Linked'
  BY DEF StationInv, Ocpp!IInv, Ocpp!Typed, Ocpp!TasksTyped
<1>1. CASE WindowStep
  <2> DEFINE new == IF created' \in Seq(Tracked) THEN created' ELSE << >>
  <2>1. /\ WindowNext /\ Len(tasks) + Len(new) <= MaxTasks /\ CreateTasks(new)
        /\ IF charge_point' # charge_point THEN LinkOpens ELSE UNCHANGED << link, up, down >>
        /\ UNCHANGED << owner, waiters, transaction_id >>
        /\ UNCHANGED << serving, received, ocpp_logs, error_logs >>
    BY <1>1 DEF WindowStep, linkVars, centralVars
  <2>2. \/ new = << >>
        \/ \E kind \in Tracked : /\ new = << kind >>
                                 /\ charge_point \/ kind = "send_charging_started"
                                 /\ charge_point' = charge_point
    BY <2>1, CreatedTracked
  <2>3. CASE charge_point' # charge_point
    <3>1. new = << >> /\ LinkOpens /\ ~ charge_point /\ charge_point' = TRUE
      BY <2>1, <2>2, <2>3, SlotCreates
    <3>2. tasks' = tasks
      BY <2>1, <3>1, NothingCreated
    <3>3. Ocpp!Connect
      BY <2>1, <3>1, <3>2, SameOcpp DEF Ocpp!Connect, Ocpp!chargePointVars, Ocpp!centralVars
    <3>4. Linked'
      BY <3>1 DEF Linked, LinkOpens
    <3> QED
      BY <3>3, <3>4 DEF Ocpp!Next
  <2>4. CASE charge_point' = charge_point
    <3> HIDE DEF new
    <3>1. UNCHANGED << link, up, down >>
      BY <2>1, <2>4
    <3>2. Linked'
      BY <2>4, <3>1 DEF Linked
    <3>3. CASE new = << >>
      <4>1. tasks' = tasks
        BY <2>1, <3>3, NothingCreated
      <4>2. UNCHANGED Ocpp!vars
        BY <2>1, <3>1, <4>1
           DEF Ocpp!vars, Ocpp!linkVars, Ocpp!chargePointVars, Ocpp!centralVars
      <4> QED
        BY <3>2, <4>2
    <3>4. ASSUME NEW kind \in Tracked, new = << kind >>,
                 charge_point \/ kind = "send_charging_started"
          PROVE  Ocpp!Create(kind)
      <4>1. Len(tasks) < MaxTasks
        <5>1. Len(tasks) \in Nat
          OBVIOUS
        <5>2. Len(new) = 1
          BY <3>4
        <5> QED
          BY <2>1, <5>1, <5>2, ChargePointAssumption
      <4>2. Ocpp!CreateTasks(<< kind >>)
        BY <2>1, <3>4, SameTasks
      <4>3. link # "none" \/ kind = "send_charging_started"
        BY <3>4 DEF Linked
      <4> QED
        BY <2>1, <3>1, <4>1, <4>2, <4>3
           DEF Ocpp!Create, Ocpp!linkVars, Ocpp!centralVars
    <3> QED
      BY <2>2, <3>2, <3>3, <3>4 DEF Ocpp!Next
  <2> QED
    BY <2>3, <2>4
<1>2. CASE StationBreak
  <2>1. Ocpp!Break
    BY <1>2, SameOcpp DEF StationBreak, Ocpp!Break, chargePointVars, centralVars,
       Ocpp!chargePointVars, Ocpp!centralVars
  <2>2. Linked'
    BY <1>2 DEF StationBreak, LinkBreaks, Linked, vars, windowVars
  <2> QED
    BY <2>1, <2>2 DEF Ocpp!Next
<1>3. CASE ChargePointNext /\ UNCHANGED << vars, centralVars >>
  <2>1. Ocpp!ChargePointNext /\ UNCHANGED Ocpp!centralVars
    BY <1>3, SameOcpp DEF centralVars, Ocpp!centralVars
  <2>2. link' = link
    <3>1. \A t : (Begin(t) \/ Validated(t) \/ Send(t) \/ Timeout(t)) => link' = link
      BY DEF Begin, Validated, Send, Timeout, linkVars
    <3> QED
      BY <1>3, <3>1 DEF ChargePointNext, Receive
  <2> QED
    BY <1>3, <2>1, <2>2 DEF Ocpp!Next, Linked, vars, windowVars
<1>4. CASE CentralNext /\ UNCHANGED << vars, chargePointVars >>
  <2>1. Ocpp!CentralNext /\ UNCHANGED Ocpp!chargePointVars
    BY <1>4, SameOcpp DEF chargePointVars, Ocpp!chargePointVars
  <2>2. link' = link
    BY <1>4 DEF CentralNext, HandleMessage, ConnectionClosed, linkVars
  <2> QED
    BY <1>4, <2>1, <2>2 DEF Ocpp!Next, Linked, vars, windowVars
<1>5. CASE UNCHANGED stationVars
  <2>1. UNCHANGED << << link, up, down >>, << tasks, owner, waiters, transaction_id >>,
                     << serving, received, ocpp_logs, error_logs >>, charge_point >>
    BY <1>5 DEF stationVars, vars, windowVars, linkVars, chargePointVars, centralVars
  <2>2. UNCHANGED Ocpp!vars
    BY <2>1 DEF Ocpp!vars, Ocpp!linkVars, Ocpp!chargePointVars, Ocpp!centralVars
  <2> QED
    BY <2>1, <2>2 DEF Linked
<1> QED
  BY <1>1, <1>2, <1>3, <1>4, <1>5 DEF StationNext

\* With that, what is proved of the OCPP pair on its own holds as well.
OcppSafety == Ocpp!Init /\ [][Ocpp!Next]_(Ocpp!vars)

LEMMA StationInvariant == StationSpec => []StationInv
<1>1. StationInit => StationInv
  <2>1. StationInit => Ocpp!Init
    BY SameOcpp DEF StationInit, Ocpp!Init
  <2>2. Ocpp!Init => Ocpp!IInv
    BY Ocpp!InitIInv, OcppAssumptions
  <2>3. StationInit => Linked
    BY DEF StationInit, WindowInit, LinkInit, Linked
  <2> QED
    BY <2>1, <2>2, <2>3 DEF StationInv
<1>2. StationInv /\ [StationNext]_stationVars => StationInv'
  <2>1. Ocpp!IInv /\ [Ocpp!Next]_(Ocpp!vars) => Ocpp!IInv'
    BY Ocpp!NextIInv, OcppAssumptions
  <2> QED
    BY <2>1, StationOcpp DEF StationInv
<1> QED
  BY <1>1, <1>2, PTL DEF StationSpec

\* The window creates coroutines and the connection only as OcppSystem allows.
THEOREM StationImplementsOcpp == StationSpec => OcppSafety
<1>1. StationInit => Ocpp!Init
  BY SameOcpp DEF StationInit, Ocpp!Init
<1> QED
  BY <1>1, StationInvariant, StationOcpp, PTL DEF StationSpec, OcppSafety

\* In the whole program, too, the call lock belongs to the coroutine that waits
\* for a reply, and the server sees a stop only after the start it belongs to.
THEOREM StationKeepsLock == StationSpec => [](Ocpp!LockAccountsForTasks /\ Ocpp!StopsFollowStarts)
<1>1. StationInv => Ocpp!LockAccountsForTasks /\ Ocpp!StopsFollowStarts
  BY DEF StationInv, Ocpp!IInv
<1> QED
  BY <1>1, StationInvariant, PTL

\* No slot of the window and no reply that comes late makes the charge point
\* forget the transaction it was given.
THEOREM StationKeepsTransaction == StationSpec => Ocpp!TransactionKept
<1>1. StationInv /\ [Ocpp!Next]_(Ocpp!vars) => [Ocpp!KeepStep]_(Ocpp!vars)
  BY Ocpp!TransactionStays, OcppAssumptions DEF StationInv
<1>2. StationSpec => [][Ocpp!KeepStep]_(Ocpp!vars)
  BY <1>1, StationInvariant, StationImplementsOcpp, PTL DEF OcppSafety
<1> QED
  BY <1>2 DEF Ocpp!KeepStep, Ocpp!TransactionKept

\* Whatever the charge point does meanwhile, the window's timer, level and
\* stack of errors keep to the process.
THEOREM StationKeepsWindow ==
  StationSpec => [](ChargeTimerFollowsState /\ LevelBelongsToCharge /\ EpisodeLegal)
BY StationImplementsWindow, ChargeTimerAlwaysFollows, LevelAlwaysBelongs, EpisodesAlwaysLegal, PTL

----------------------------------------------------------------------------
(* A stop is only asked for after a payment                                 *)

PaidIn(rows) == \E i \in DOMAIN rows : rows[i].paid

\* No statement takes back a payment.
LEMMA StartKeepsPaid ==
  ASSUME NEW d \in Databases, session_id \in 0..Len(d.rows), NEW e \in MarkStarted(d),
         PaidIn(d.rows)
  PROVE  PaidIn(e.rows)
<1>1. CASE session_id = 0
  BY <1>1 DEF MarkStarted
<1>2. CASE session_id # 0
  <2> DEFINE rows == [d.rows EXCEPT ![session_id].status = "started"]
  <2>1. PICK r \in ExecuteQuery(d, rows) : e = r.db
    BY <1>2 DEF MarkStarted
  <2>2. d.rows \in Seq(Session) /\ session_id \in 1..Len(d.rows)
    BY <1>2 DEF Databases
  <2>3. rows \in Seq(Session)
    BY <2>2, MarkedRows
  <2>4. PaidIn(rows)
    <3>1. PICK i \in DOMAIN d.rows : d.rows[i].paid
      BY DEF PaidIn
    <3>2. d.rows[i] \in Session
      BY <2>2
    <3>3. i \in DOMAIN rows /\ rows[i].paid
      BY <3>1, <3>2 DEF Session
    <3> QED
      BY <3>3 DEF PaidIn
  <2> HIDE DEF rows, Session
  <2>5. e.rows \in {d.rows, rows}
    BY <2>1, <2>3, QueryOutcome
  <2> QED
    BY <2>4, <2>5
<1> QED
  BY <1>1, <1>2

\* mark_session_completed takes none back and, when the database works, adds one.
LEMMA CompletionPays ==
  ASSUME NEW d \in Databases, session_id \in 0..Len(d.rows), NEW r \in MarkCompleted(d)
  PROVE  /\ PaidIn(d.rows) => PaidIn(r.db.rows)
         /\ DbFailures = {} /\ d.conn = "open" /\ session_id # 0 => PaidIn(r.db.rows)
<1>1. CASE session_id = 0
  BY <1>1 DEF MarkCompleted
<1>2. CASE session_id # 0
  <2> DEFINE rows(s) == [s.db.rows EXCEPT ![session_id].status = "completed",
                                          ![session_id].paid = TRUE]
  <2>1. PICK s \in RawSelect(d) :
          r \in IF ~ s.found THEN {[db |-> s.db, delivered |-> delivered]}
               ELSE { [db |-> q.db, delivered |-> TRUE] : q \in ExecuteQuery(s.db, rows(s)) }
    BY <1>2, Zenon DEF MarkCompleted
  <2>2. /\ s.db \in Databases /\ s.db.rows = d.rows
        /\ DbFailures = {} /\ d.conn = "open" => s.found /\ s.db.conn = "open"
    BY <2>1, SelectOutcome
  <2>3. CASE ~ s.found
    BY <2>1, <2>2, <2>3
  <2>4. CASE s.found
    <3>1. PICK q \in ExecuteQuery(s.db, rows(s)) : r = [db |-> q.db, delivered |-> TRUE]
      BY <2>1, <2>4, Zenon
    <3>2. s.db.rows \in Seq(Session) /\ session_id \in 1..Len(s.db.rows)
      BY <1>2, <2>2 DEF Databases
    <3>3. rows(s) \in Seq(Session)
      <4> HIDE DEF Session
      <4>1. ASSUME NEW old \in Seq(Session), NEW n \in 1..Len(old)
            PROVE  [old EXCEPT ![n].status = "completed", ![n].paid = TRUE] \in Seq(Session)
        BY MarkedRows
      <4> QED
        BY <3>2, <4>1
    <3>4. PaidIn(rows(s))
      <4>1. s.db.rows[session_id] \in Session
        BY <3>2
      <4>2. session_id \in DOMAIN rows(s) /\ rows(s)[session_id].paid = TRUE
        BY <3>2, <4>1 DEF Session
      <4> QED
        BY <4>2 DEF PaidIn
    <3> HIDE DEF rows, Session
    <3>5. /\ q.db.rows \in {s.db.rows, rows(s)}
          /\ q.done => q.db.rows = rows(s)
          /\ DbFailures = {} /\ s.db.conn = "open" => q.done
      BY <2>2, <3>1, <3>3, QueryOutcome
    <3> QED
      BY <2>2, <3>1, <3>4, <3>5
  <2> QED
    BY <2>3, <2>4
<1> QED
  BY <1>1, <1>2

Paid == PaidIn(db.rows)

LEMMA PaidStays ==
  ASSUME Typed, WindowInv, [WindowNext]_vars, Paid
  PROVE  Paid'
<1>1. db \in Databases /\ session_id \in 0..Len(db.rows)
  BY DEF Typed, RowsTyped
<1>2. CASE db' = db
  BY <1>2 DEF Paid, PaidIn
<1>3. CASE ConnectVehicle
  <2> DEFINE row == [vehicle |-> selected_vehicle_id, status |-> "pending", paid |-> FALSE]
             rows == Append(db.rows, row)
  <2>1. CASE selected_vehicle_id = NoVehicle
    <3>1. db' = db
      BY <1>3, <2>1 DEF ConnectVehicle, OpenSession
    <3> QED
      BY <1>2, <3>1
  <2>2. CASE selected_vehicle_id # NoVehicle
    <3>1. PICK r \in ExecuteQuery(db, rows) : db' = r.db
      BY <1>3, <2>2 DEF ConnectVehicle, OpenSession
    <3>2. row \in Session
      BY <2>2 DEF Session, Typed, FieldsTyped
    <3>3. db.rows \in Seq(Session)
      BY <1>1 DEF Databases
    <3> HIDE DEF row, Session
    <3>4. rows \in Seq(Session) /\ \A i \in DOMAIN db.rows : i \in DOMAIN rows /\ rows[i] = db.rows[i]
      BY <3>2, <3>3
    <3>5. PaidIn(rows)
      BY <3>4 DEF Paid, PaidIn
    <3> HIDE DEF rows
    <3>6. db'.rows \in {db.rows, rows}
      BY <1>1, <3>1, <3>4, QueryOutcome
    <3> QED
      BY <3>5, <3>6 DEF Paid, PaidIn
  <2> QED
    BY <2>1, <2>2
<1>4. CASE StartCharging
  <2>1. PICK d \in MarkStarted(db) : db' \in MarkStarted(d)
    BY <1>4 DEF StartCharging
  <2>2. Keeps(db, d) /\ PaidIn(d.rows)
    BY <1>1, <2>1, MarkStartedKeeps, StartKeepsPaid DEF Paid
  <2>3. d \in Databases /\ session_id \in 0..Len(d.rows)
    BY <1>1, <2>2 DEF Keeps
  <2>4. PaidIn(db'.rows)
    BY <2>1, <2>2, <2>3, StartKeepsPaid
  <2> QED
    BY <2>4 DEF Paid, PaidIn
<1>5. CASE ChargeFull
  <2>1. PICK r \in MarkCompleted(db) : db' = r.db
    BY <1>5 DEF ChargeFull, CompleteCharge
  <2>2. PaidIn(r.db.rows)
    BY <1>1, <2>1, CompletionPays DEF Paid
  <2> QED
    BY <2>1, <2>2 DEF Paid, PaidIn
<1> QED
  BY <1>2, <1>3, <1>4, <1>5, OtherSlots DEF vars, windowVars

\* With a database that works a full charge is paid for in the step that stops it.
LEMMA FullChargePays ==
  ASSUME DbFailures = {}, WindowInv, Typed, WorksInv, ChargeFull
  PROVE  Paid'
<1>1. db \in Databases /\ session_id \in 0..Len(db.rows)
  BY DEF Typed, RowsTyped
<1>2. session_id # 0 /\ db.conn = "open"
  <2>1. current_state = "SarjEdiliyor"
    BY DEF ChargeFull, CompleteCharge, WindowInv, ChargeTimerFollowsState
  <2>2. Place # InitialState
    BY <2>1, WindowAssumption, ChargingArcsAssumption DEF Place
  <2> QED
    BY <2>2 DEF WorksInv
<1>3. PICK r \in MarkCompleted(db) : db' = r.db
  BY DEF ChargeFull, CompleteCharge
<1>4. PaidIn(r.db.rows)
  BY <1>1, <1>2, <1>3, CompletionPays
<1> QED
  BY <1>3, <1>4 DEF Paid, PaidIn

\* Nowhere on the way to the server is there a stop.
Asks(task) == \E i \in DOMAIN task.todo : task.todo[i] = "StopTransaction"
NoStops(messages) == \A i \in DOMAIN messages : messages[i].op # "StopTransaction"

NoneAsked ==
  /\ \A t \in DOMAIN tasks : ~ Asks(tasks[t])
  /\ NoStops(up) /\ NoStops(received)

\* The invariant: until a session is paid, no coroutine, no message under way
\* and none that has arrived is a stop.
StopsPaid == Paid \/ NoneAsked

\* What the OCPP pair's invariant says of its variables.
LEMMA OcppTyped ==
  ASSUME Ocpp!IInv
  PROVE  /\ tasks \in Seq(Ocpp!TaskRecord)
         /\ up \in Seq(Ocpp!Request) /\ received \in Seq(Ocpp!Request)
         /\ waiters \in Seq(1..Len(tasks))
BY DEF Ocpp!IInv, Ocpp!Typed, Ocpp!TasksTyped

LEMMA TasksEdited ==
  ASSUME tasks \in Seq(Ocpp!TaskRecord), NEW t \in DOMAIN tasks, NEW r,
         tasks' = [tasks EXCEPT ![t] = r], \A u \in DOMAIN tasks : ~ Asks(tasks[u]), ~ Asks(r)
  PROVE  \A u \in DOMAIN tasks' : ~ Asks(tasks'[u])
<1>1. DOMAIN tasks' = DOMAIN tasks /\ \A u \in DOMAIN tasks : tasks'[u] \in {r, tasks[u]}
  OBVIOUS
<1> QED
  BY <1>1

\* The call that comes next in a list without stops is none.
LEMMA NextCall ==
  ASSUME NEW task \in Ocpp!TaskRecord, ~ Asks(task), task.todo # << >>
  PROVE  /\ Operation(task) # "StopTransaction"
         /\ ~ Asks(Advance(task)) /\ ~ Asks(Failed(task))
<1>1. task.todo \in Seq(Ocpp!Operations)
  BY DEF Ocpp!TaskRecord
<1>2. Operation(task) # "StopTransaction"
  <2>1. Head(task.todo) = task.todo[1] /\ 1 \in DOMAIN task.todo
    BY <1>1
  <2> QED
    BY <2>1 DEF Operation, Asks
<1>3. ~ Asks(Advance(task))
  <2>1. Advance(task).todo = Tail(task.todo)
    BY DEF Advance, Ocpp!TaskRecord
  <2>2. ASSUME NEW i \in DOMAIN Tail(task.todo)
        PROVE  i + 1 \in DOMAIN task.todo /\ Tail(task.todo)[i] = task.todo[i + 1]
    BY <1>1
  <2> QED
    BY <2>1, <2>2 DEF Asks
<1>4. Failed(task) = Advance(task) \/ Failed(task).todo = task.todo
  BY DEF Failed, Ocpp!TaskRecord
<1> QED
  BY <1>2, <1>3, <1>4 DEF Asks

\* A prefix or the tail of messages without stops has none.
LEMMA FewerStops ==
  ASSUME NEW S, NEW q \in Seq(S), NoStops(q)
  PROVE  /\ \A n \in 0..Len(q) : NoStops(SubSeq(q, 1, n))
         /\ q # << >> => NoStops(Tail(q)) /\ Head(q).op # "StopTransaction"
         /\ \A m \in S : m.op # "StopTransaction" => NoStops(Append(q, m))
<1>1. ASSUME NEW n \in 0..Len(q)
      PROVE  NoStops(SubSeq(q, 1, n))
  BY DEF NoStops
<1>2. ASSUME q # << >>
      PROVE  NoStops(Tail(q)) /\ Head(q).op # "StopTransaction"
  <2>1. Head(q) = q[1] /\ 1 \in DOMAIN q
    BY <1>2
  <2>2. ASSUME NEW i \in DOMAIN Tail(q)
        PROVE  i + 1 \in DOMAIN q /\ Tail(q)[i] = q[i + 1]
    BY <1>2
  <2> QED
    BY <2>1, <2>2 DEF NoStops
<1>3. ASSUME NEW m \in S, m.op # "StopTransaction"
      PROVE  NoStops(Append(q, m))
  <2>1. ASSUME NEW i \in DOMAIN Append(q, m)
        PROVE  Append(q, m)[i] = m \/ (i \in DOMAIN q /\ Append(q, m)[i] = q[i])
    OBVIOUS
  <2> QED
    BY <1>3, <2>1 DEF NoStops
<1> QED
  BY <1>1, <1>2, <1>3

----------------------------------------------------------------------------
(* One lemma per kind of step, before anything is paid                      *)

\* The charge point's coroutines ask for nothing they were not created for.
LEMMA ChargePointAsksNone ==
  ASSUME Ocpp!IInv, NoneAsked, ChargePointNext, UNCHANGED received
  PROVE  NoneAsked'
<1>0. /\ tasks \in Seq(Ocpp!TaskRecord) /\ up \in Seq(Ocpp!Request)
      /\ waiters \in Seq(1..Len(tasks)) /\ NoStops(received')
  BY OcppTyped DEF NoneAsked, NoStops
<1>t. ASSUME NEW t \in DOMAIN tasks
      PROVE  /\ tasks[t] \in Ocpp!TaskRecord /\ ~ Asks(tasks[t])
             /\ tasks[t].pc # "done" => tasks[t].todo # << >>
  <2>1. tasks[t].pc # "done" => tasks[t].todo # << >>
    BY DEF Ocpp!IInv, Ocpp!Typed, Ocpp!TasksTyped
  <2>2. tasks[t] \in Ocpp!TaskRecord
    BY <1>0
  <2> QED
    BY <2>1, <2>2 DEF NoneAsked
<1>1. ASSUME NEW t \in DOMAIN tasks, Begin(t)
      PROVE  NoneAsked'
  <2> DEFINE task == tasks[t]
  <2>1. PICK invalid \in BOOLEAN :
          tasks' = [tasks EXCEPT ![t] =
            IF link = "none" THEN [task EXCEPT !.todo = << >>, !.pc = "done"]
            ELSE [task EXCEPT !.pc = "validating", !.report = invalid, !.n = task.n + 1,
                              !.transaction = transaction_id]]
    BY <1>1 DEF Begin
  <2> DEFINE r == IF link = "none" THEN [task EXCEPT !.todo = << >>, !.pc = "done"]
                  ELSE [task EXCEPT !.pc = "validating", !.report = invalid, !.n = task.n + 1,
                                    !.transaction = transaction_id]
  <2>2. r.todo = << >> \/ r.todo = task.todo
    BY <1>t DEF Ocpp!TaskRecord
  <2>3. ~ Asks(r)
    <3> HIDE DEF r
    <3> QED
      BY <1>t, <2>2 DEF Asks
  <2> HIDE DEF r
  <2>4. tasks' = [tasks EXCEPT ![t] = r] /\ up' = up
    BY <1>1, <2>1 DEF r, Begin, linkVars
  <2> QED
    BY <1>0, <2>3, <2>4, TasksEdited DEF NoneAsked, NoStops
<1>2. ASSUME NEW t \in DOMAIN tasks, Validated(t)
      PROVE  NoneAsked'
  <2> DEFINE r == [tasks[t] EXCEPT !.pc = "queued"]
  <2>1. ~ Asks(r)
    <3>1. r.todo = tasks[t].todo
      BY <1>t DEF Ocpp!TaskRecord
    <3> QED
      BY <1>t, <3>1 DEF Asks
  <2>2. tasks' = [tasks EXCEPT ![t] = r] /\ up' = up
    BY <1>2 DEF Validated, linkVars
  <2> HIDE DEF r
  <2> QED
    BY <1>0, <2>1, <2>2, TasksEdited DEF NoneAsked, NoStops
<1>3. ASSUME NEW t \in DOMAIN tasks, Send(t)
      PROVE  NoneAsked'
  <2> DEFINE m == [id |-> << t, tasks[t].n >>, op |-> Operation(tasks[t]),
                   transaction |-> tasks[t].transaction]
  <2>1. tasks[t].pc = "queued"
    BY <1>3, Ocpp!QueueAdvances, OcppAssumptions DEF Send
  <2>2. tasks[t] \in Ocpp!TaskRecord /\ tasks[t].todo # << >> /\ ~ Asks(tasks[t])
    BY <1>t, <2>1
  <2>3. Operation(tasks[t]) # "StopTransaction" /\ ~ Asks(Failed(tasks[t]))
    BY <2>2, NextCall
  <2>4. CASE link = "open"
    <3> DEFINE r == [tasks[t] EXCEPT !.pc = "calling"]
    <3>1. ~ Asks(r)
      <4>1. r.todo = tasks[t].todo
        BY <2>2 DEF Ocpp!TaskRecord
      <4> QED
        BY <2>2, <4>1 DEF Asks
    <3>2. tasks' = [tasks EXCEPT ![t] = r] /\ up' = Append(up, m)
      BY <1>3, <2>4 DEF Send
    <3>3. NoStops(Append(up, m))
      <4>1. m.op # "StopTransaction"
        BY <2>3
      <4> HIDE DEF m
      <4>2. up \in Seq(Ocpp!Request \cup {m}) /\ NoStops(up)
        BY <1>0 DEF NoneAsked
      <4> QED
        BY <4>1, <4>2, FewerStops
    <3> HIDE DEF r, m
    <3>4. \A u \in DOMAIN tasks' : ~ Asks(tasks'[u])
      BY <1>0, <3>1, <3>2, TasksEdited DEF NoneAsked
    <3> QED
      BY <1>0, <3>2, <3>3, <3>4 DEF NoneAsked, NoStops
  <2>5. CASE link # "open"
    <3>1. tasks' = [tasks EXCEPT ![t] = Failed(tasks[t])] /\ up' = up
      BY <1>3, <2>5 DEF Send
    <3> QED
      BY <1>0, <2>3, <3>1, TasksEdited DEF NoneAsked, NoStops
  <2> QED
    BY <2>4, <2>5
<1>o. ASSUME owner \in DOMAIN tasks
      PROVE  ~ Asks(Advance(tasks[owner])) /\ ~ Asks(Failed(tasks[owner]))
  <2>1. tasks[owner].pc = "calling"
    BY <1>o DEF Ocpp!IInv, Ocpp!LockAccountsForTasks
  <2> QED
    BY <1>o, <1>t, <2>1, NextCall
<1>4. ASSUME NEW t \in DOMAIN tasks, Timeout(t)
      PROVE  NoneAsked'
  <2>1. owner = t /\ tasks' = [tasks EXCEPT ![t] = Failed(tasks[t])] /\ up' = up
    BY <1>4 DEF Timeout, linkVars
  <2> QED
    BY <1>0, <1>o, <2>1, TasksEdited DEF NoneAsked, NoStops
<1>5. CASE Receive
  <2>1. CASE owner # 0
    <3>1. owner \in DOMAIN tasks
      BY <1>0, <2>1 DEF Ocpp!IInv, Ocpp!Typed, Ocpp!TasksTyped
    <3>2. /\ up' = up
          /\ tasks' = tasks \/ tasks' = [tasks EXCEPT ![owner] = Advance(tasks[owner])]
      BY <1>5 DEF Receive
    <3> QED
      BY <1>0, <1>o, <3>1, <3>2, TasksEdited DEF NoneAsked, NoStops
  <2>2. CASE owner = 0
    BY <1>0, <1>5, <2>2 DEF Receive, NoneAsked, NoStops
  <2> QED
    BY <2>1, <2>2
<1> QED
  BY <1>1, <1>2, <1>3, <1>4, <1>5 DEF ChargePointNext

\* The server receives what is under way.
LEMMA ServerSeesNone ==
  ASSUME Ocpp!IInv, NoneAsked, CentralNext, UNCHANGED tasks
  PROVE  NoneAsked'
<1>0. up \in Seq(Ocpp!Request) /\ received \in Seq(Ocpp!Request)
  BY OcppTyped
<1>1. CASE HandleMessage
  <2>1. up # << >> /\ up' = Tail(up) /\ received' = Append(received, Head(up))
    BY <1>1 DEF HandleMessage
  <2>2. Head(up) \in Ocpp!Request
    <3> HIDE DEF Ocpp!Request
    <3> QED
      BY <1>0, <2>1
  <2>3. NoStops(Tail(up)) /\ NoStops(Append(received, Head(up)))
    BY <1>0, <2>1, <2>2, FewerStops DEF NoneAsked
  <2> QED
    BY <2>1, <2>3 DEF NoneAsked, NoStops
<1>2. CASE ConnectionClosed
  BY <1>2 DEF ConnectionClosed, linkVars, NoneAsked, NoStops
<1> QED
  BY <1>1, <1>2 DEF CentralNext

\* A slot creates a stop only in a full charge, which pays.
LEMMA WindowAsksNone ==
  ASSUME DbFailures = {}, StationInv, WindowInv, Typed, WorksInv, NoneAsked, WindowStep, ~ Paid'
  PROVE  NoneAsked'
<1> DEFINE new == IF created' \in Seq(Tracked) THEN created' ELSE << >>
<1>1. /\ WindowNext /\ CreateTasks(new) /\ up' = up /\ received' = received
  BY DEF WindowStep, linkVars, centralVars, LinkOpens
<1>2. tasks \in Seq(Ocpp!TaskRecord)
  BY OcppTyped DEF StationInv
<1>3. ~ ChargeFull
  BY FullChargePays
<1>4. \/ new = << >>
      \/ \E kind \in Kinds : kind # "stop_transaction" /\ new = << kind >>
  <2>1. \/ created' = << >>
        \/ \E kind \in Kinds : kind # "stop_transaction" /\ created' = << kind >>
    BY <1>1, <1>3, SlotCreates DEF StationInv
  <2> QED
    BY <2>1
<1> HIDE DEF new
<1>5. CASE new = << >>
  BY <1>1, <1>2, <1>5, NothingCreated DEF NoneAsked, NoStops
<1>6. ASSUME NEW kind \in Kinds, kind # "stop_transaction", new = << kind >>
      PROVE  NoneAsked'
  <2>1. ~ Asks(NewTask(kind))
    <3>1. NewTask(kind).todo = Program(kind)
      BY DEF NewTask
    <3>2. CASE kind = "send_charging_started"
      <4> DEFINE beats == [i \in 1..Heartbeats |-> "Heartbeat"]
      <4>1. Program(kind) = << "StartTransaction" >> \o beats
        BY <3>2 DEF Program
      <4>2. beats \in Seq({"Heartbeat"}) /\ \A i \in DOMAIN beats : beats[i] = "Heartbeat"
        BY ChargePointAssumption
      <4> HIDE DEF beats
      <4>3. ASSUME NEW i \in DOMAIN Program(kind)
            PROVE  Program(kind)[i] # "StopTransaction"
        BY <4>1, <4>2
      <4> QED
        BY <3>1, <4>3 DEF Asks
    <3>3. CASE kind # "send_charging_started"
      <4>1. \E op \in {"BootNotification", "Authorize", "StatusNotification"} :
              Program(kind) = << op >>
        <5>1. kind = "boot_notification" => Program(kind) = << "BootNotification" >>
          BY DEF Program
        <5>2. kind = "authorize" => Program(kind) = << "Authorize" >>
          BY DEF Program
        <5>3. kind = "status_notification" => Program(kind) = << "StatusNotification" >>
          BY DEF Program
        <5> QED
          BY <1>6, <3>3, <5>1, <5>2, <5>3 DEF Kinds
      <4> QED
        BY <3>1, <4>1 DEF Asks
    <3> QED
      BY <3>2, <3>3
  <2>2. tasks' = tasks \o << NewTask(kind) >>
    <3> DEFINE one == [i \in DOMAIN << kind >> |-> NewTask(<< kind >>[i])]
    <3>1. tasks' = tasks \o one
      BY <1>1, <1>6 DEF CreateTasks
    <3>2. one = << NewTask(kind) >>
      OBVIOUS
    <3> HIDE DEF one
    <3> QED
      BY <3>1, <3>2
  <2>3. ASSUME NEW u \in DOMAIN tasks'
        PROVE  tasks'[u] = NewTask(kind) \/ (u \in DOMAIN tasks /\ tasks'[u] = tasks[u])
    <3> HIDE DEF Asks
    <3> QED
      BY <1>2, <2>2
  <2> QED
    BY <1>1, <2>1, <2>3 DEF NoneAsked, NoStops
<1> QED
  BY <1>4, <1>5, <1>6

\* The invariant of the program with a database that works.
CompletedInv == StationInv /\ WindowInv /\ Typed /\ WorksInv /\ StopsPaid

LEMMA CompletedNext ==
  ASSUME DbFailures = {}
  PROVE  CompletedInv /\ [StationNext]_stationVars => CompletedInv'
<1> SUFFICES ASSUME CompletedInv, [StationNext]_stationVars
             PROVE  CompletedInv'
  OBVIOUS
<1>1. [WindowNext]_vars
  BY StationWindow
<1>2. StationInv'
  BY StationOcpp, Ocpp!NextIInv, OcppAssumptions DEF CompletedInv, StationInv
<1>3. WindowInv' /\ Typed' /\ WorksInv'
  BY <1>1, WindowNextInv, TypedNext, WorksNext DEF CompletedInv
<1>4. StopsPaid'
  <2>1. Paid => Paid'
    BY <1>1, PaidStays DEF CompletedInv
  <2>2. SUFFICES ASSUME ~ Paid', NoneAsked
                 PROVE  NoneAsked'
    BY <2>1 DEF CompletedInv, StopsPaid
  <2>3. CASE WindowStep
    BY <2>2, <2>3, WindowAsksNone DEF CompletedInv
  <2>4. CASE StationBreak
    <3>1. up \in Seq(Ocpp!Request)
      BY OcppTyped DEF CompletedInv, StationInv
    <3>2. PICK i \in 0..Len(up) : up' = SubSeq(up, 1, i)
      BY <2>4 DEF StationBreak, LinkBreaks
    <3>3. NoStops(SubSeq(up, 1, i))
      BY <2>2, <3>1, FewerStops DEF NoneAsked
    <3>4. tasks' = tasks /\ received' = received
      BY <2>4 DEF StationBreak, chargePointVars, centralVars
    <3> QED
      BY <2>2, <3>2, <3>3, <3>4 DEF NoneAsked, NoStops
  <2>5. CASE ChargePointNext /\ UNCHANGED << vars, centralVars >>
    BY <2>2, <2>5, ChargePointAsksNone DEF centralVars, CompletedInv, StationInv
  <2>6. CASE CentralNext /\ UNCHANGED << vars, chargePointVars >>
    BY <2>2, <2>6, ServerSeesNone DEF chargePointVars, CompletedInv, StationInv
  <2>7. CASE UNCHANGED stationVars
    BY <2>2, <2>7 DEF stationVars, linkVars, chargePointVars, centralVars, NoneAsked, NoStops
  <2> QED
    BY <2>3, <2>4, <2>5, <2>6, <2>7 DEF StationNext
<1> QED
  BY <1>2, <1>3, <1>4 DEF CompletedInv

\* With a database that works, the server is asked to stop a transaction only
\* for a charge that has been completed and paid: see StopsHaveCompletedSession.
THEOREM StopsAreCompleted ==
  ASSUME DbFailures = {}
  PROVE  StationSpec => []StopsHaveCompletedSession
<1>1. StationInit => StopsPaid
  BY DEF StationInit, ChargePointInit, LinkInit, CentralInit, StopsPaid, NoneAsked, NoStops
<1>2. StationInit => WindowInv /\ Typed /\ WorksInv
  BY WindowInitInv, TypedInit, WorksInit DEF StationInit
<1>3. CompletedInv => StopsHaveCompletedSession
  BY DEF CompletedInv, StopsPaid, Paid, PaidIn, NoneAsked, NoStops, StopsHaveCompletedSession
<1>4. StationSpec => StationInit /\ [][StationNext]_stationVars
  BY DEF StationSpec
<1> QED
  BY <1>1, <1>2, <1>3, <1>4, CompletedNext, StationInvariant, PTL DEF CompletedInv

============================================================================
