# A TLA+ model of the charging station

The repository is a charging station in two programs and a library:

* `src/Client` is the station: a PyQt window (`gui/main_window.py`) in which an
  operator walks a charge through its states and injects errors, a state machine
  under a stack of errors (`simulation/`, `fsm/`, `pda/`) that decides what the
  buttons may do, a PostgreSQL database of charging sessions (`database/`), and an
  OCPP 1.6 charge point (`charge_point/`) on the same event loop;
* `src/Server` is the OCPP central system that answers the station and logs what
  it is sent;
* `src/Client/iso15118` is the ISO 15118 stack for the conversation between car
  (EVCC) and charger (SECC): SDP discovery over UDP, a TCP or TLS connection, and
  the session protocols on it.  The window only uses two of its sample messages;
  the stack runs as programs of its own (`secc/main.py`, `evcc/main.py`).

This directory holds TLA+ modules for these parts, TLC configurations that check
them on small instances, and TLAPS proofs of the properties that matter most.
`PROJECT.json` lists components, runs, the source lines each definition stands
for, the hazards of the code and the properties that watch them.

## Inventory

| Part | State | Operations | What is hard | What makes it correct |
|---|---|---|---|---|
| Error simulator (`Simulator`, `StateMachine`, `PDA`) | `current_state`, `last_valid_state`, the error stack, `previous_state_before_error` | `trigger_event`, `simulate_error`, `resolve_error`, `reset_errors` | errors nest in any order; two memories of the interrupted state; a jump past the transition table | an error suspends the process and never moves it |
| Window and its database bookkeeping | charge level, two Qt timers, `session_id`, the global `delivered`, the connection, table `charging_sessions` | nine buttons, two timer slots, the vehicle box, `setup_charge_point` | side effects happen whether or not the machine accepts the event; any statement may fail; an exception in a slot ends the program | the timer runs exactly while charging; a row completes only for a full charge |
| OCPP charge point | running coroutines, the call lock and its queue, `transaction_id` | five kinds of coroutine, each a list of calls, each call with a 30 s timeout and a failure report | coroutines overtake each other before the lock; late replies; the id is read before the lock | no invalid or early StopTransaction; the lock is never lost; every coroutine ends |
| OCPP central system | whether it serves, its two log tables | the handlers, the logging, the end of a connection | requests that outlive the connection; an INSERT that names a missing column | it notices the end; it never invents a transaction |
| EVCC session handler, UDP client | SDP counters, queue of notifications, UDP inbox, `comm_session` | `restart_sdp`, `receive`, four kinds of notification | late and lost datagrams, timeouts, refused connections, failing sessions | it is owed one thing at a time and comes to rest |
| SECC session handler, UDP and TCP server | `comm_sessions`, `_pause_server`, the TCP server, queue of notifications | an SDP request, a TCP client, the end of a session | requests, connections and ends in any order; closing a server may wait | it ignores SDP requests only during a session, and is available again after it |
| ISO 15118 session and protocol states | the current state object of each end, the EVCC's ongoing timer, the chosen protocol, the authorization, the contactors, high-level charging | one `process_message` per state and side, `check_msg`, `stop_state_machine` | two sets of state machines written apart must fit; an exception or a timeout at any message; one timer for all waits; a message left over when the EVCC stops | two well-behaved ends never meet a sequence error; power only after authorization and on a checked path; no wait lasts for ever; both ends end, and agree how |
| Shipped controllers | the EV's counters of charges, precharges and weldings; the SECC's two data contexts, for its EVs and for itself | the answers to the protocol states; schedules, profiles and their check, commands to the charger, targets, limits set from outside | both outlive the session and nothing resets them; one default argument is one object for all sessions; conversions cut digits off | a session uses its own data only; a schedule fits the departure, a profile the schedule, a target the limit; undisturbed sessions succeed |
| Messages, EXI, certificates, settings | data types | | | inputs to the protocol, abstracted |
| Server windows, loading screen, sample messages | what they show | | | not modelled: they keep no state the system depends on |

Interaction.  The window calls the simulator directly and gives coroutines to the
event loop (`loop.create_task`); the charge point's coroutines meet at one call
lock and talk to the central system over one WebSocket.  The two ISO 15118
handlers meet in UDP datagrams and TCP connections; a session tells its own
handler how it ended by a notification in the handler's queue.

## Modules

| Module | Models | From |
|---|---|---|
| `ErrorEpisodes` | abstract specification: errors suspend a process and never move it | what `simulator.py` promises |
| `FsmConfig` | the two shipped tables | `config/fsm_states.xml`, `config/pda_errors.xml` |
| `Simulator` | the state machine under the error stack | `simulation/simulator.py`, `fsm/state_machine.py`, `pda/pda_stack.py` |
| `MainWindow` | buttons, timers, database; EXTENDS `Simulator` | `gui/main_window.py`, `database/connection.py` |
| `OcppLink` | the WebSocket, reliable and ordered until it breaks (external) | its use in both programs |
| `ChargePoint` | coroutines, call lock, timeouts, error reports | `charge_point/charge_point.py` |
| `CentralSystem` | `on_connect`'s loop, handlers and log statements | `Server/central_system.py`, `Server/db_logger.py` |
| `OcppSystem` | the two joined by the link, coroutines created at any time | |
| `ChargingStation` | window, charge point and central system as one program | |
| `V2GLink` | SDP datagrams and TCP connections (external), and the life of a session's two ends | `shared/comm_session.py` |
| `EvccHandler` | the EVCC's handler and UDP client | `evcc/comm_session_handler.py`, `evcc/transport/` |
| `SeccHandler` | the SECC's handler, UDP and TCP server | `secc/comm_session_handler.py`, `secc/transport/` |
| `SessionHandlers` | the two joined by the network | |
| `V2GSession` | a session over one connection: receive loop, `check_msg`, `stop_state_machine`, ongoing timer, protocol handshake | `shared/comm_session.py`, `shared/states.py`, `secc_state.py`, `evcc_state.py`, `sap_states.py` of both ends |
| `DinSecc`, `DinEvcc` | DIN SPEC 70121 at the charger and in the car | `secc/states/din_spec_states.py`, `evcc/states/din_spec_states.py` |
| `Iso2Secc`, `Iso2Evcc` | ISO 15118-2 | `…/iso15118_2_states.py` of both ends |
| `Iso20Secc`, `Iso20Evcc` | ISO 15118-20, AC and DC | `…/iso15118_20_states.py` of both ends |
| `SimControllers` | the two shipped controllers' answers in a session, and the EV's counters | `evcc/controller/simulator.py`, `secc/controller/simulator.py` |
| `ChargingSession` | a session in whichever protocol the ends agree on: instances of the six, with controllers of any kind or the shipped ones | |
| `EnergyHandover` | abstract specification: the order in which car, contactors and station go on and off | what the protocols' calls of `enable_charging`, `set_hlc_charging` and the contactors have in common |
| `SaSchedule` | -2's schedules, the profile an EV makes of one, and the SECC's check of a profile (functions) | `secc/controller/simulator.py`, `evcc/controller/simulator.py`, `secc/states/iso15118_2_states.py` |
| `ExponentValue` | the conversion of a number into a 16-bit value and an exponent (functions) | `shared/messages/datatypes.py` |
| `ChargerData` | the SECC controller's data contexts over any number of sessions, one after another | `secc/controller/interface.py`, `simulator.py`, `ev_data.py`, `evse_data.py`, and their use in `secc/states/` |
| `*Proofs` | theorems about the module they are named for; `MainWindowProofs` begins with the simulator's, on which the window's rest, and `StationProofs` is about `ChargingStation` | |
| `SessionSteps`, `SeccSteps`, `EvccSteps` | what `ChargingSessionProofs` rests on: what a step of either end may do and the inductive invariant (definitions only); the effects of `V2GSession`'s operators, and one lemma per protocol for either end | |
| `MC*` | values for the constants | |

One action is one Python call that runs without giving up the thread: a Qt slot,
a coroutine between two awaits that matter, one pass of a handler's loop.  A slot
that can raise is one action whose alternatives include the one in which it
raised, so that an INSERT lost half way and a program that ended are states like
any other.  Operators whose comment starts with "Mutant:" are not part of the
model: each is a definition changed the way a plausible bug would change it,
and putting it in the place of the original must make a property fail.

### Correspondence worth knowing

* `Simulator`: each action is the whole method.  `Takes(i, s, e)` is the first
  matching transition in file order, as the loop in `StateMachine.trigger` finds it.
* `MainWindow`: `ExecuteQuery` returns the set of outcomes of one statement
  (committed; failed and rolled back; connection lost, with the commit kept or
  not, and the `rollback` that raises out of it).  `RawSelect` is the SELECT of
  `mark_session_completed`, which nobody rolls back: the transaction stays aborted
  and the next statement fails as well.  `created` names the coroutine the last
  slot gave to the loop, if it gave one.  State names are the XML's, without their diacritics.
  `payment_timer` is what is left of the payment's delay of 6.5 s, 0 when it does not run:
  `StartPayment` starts it anew in any state, `PaymentWait` lets time pass, and at 1 it fires.
* `ChargePoint`: `ocpp.v16.ChargePoint.call` is external.  A call is `Begin` (prepare
  the request and read `transaction_id`), `Validated` (validation ends in a worker
  thread, so that coroutines may overtake each other here), `Send` (the lock),
  and `Receive` or `Timeout`.  A request that fails validation (a stop without an id; every
  report of an error, see Observations) goes on as the report of a failed call.  A CALLERROR
  or an invalid reply, which the central system never sends, is left out.
* `CentralSystem`: `Logged` is decided by comparing the columns the INSERT names
  with the columns `CreateTables.sql` creates.
* `EvccHandler`: `evcc_pc` says where the handler's one task is.  `RestartSdp(new,
  failed)` is `restart_sdp` up to its wait, and `Receive` what follows.  `SendSdp` is
  `send_sdp`: it waits ("polling") for `udp_client.started`, here `udp_started`, which an
  error at the socket clears (`ErrorReceived`, also from within the `sendto` of the request)
  and nothing sets again.
* `SeccHandler`: `HandleNotice` is the handler taking an SDP request or the end of a
  session up to closing the TCP server.  On CPython 3.12 and later
  `Server.wait_closed` waits for the server's open connections, on earlier
  versions it returns at once; `config.drains` is the version.  If it waits,
  `secc_task` holds the notification and `ServerClosed` finishes it.
* A TCP connection is a record of its two ends.  What happens in a session is, for
  the handlers, only how and when either end stops.
* Protocol states: one action is one state's whole `process_message`, with the
  response or request it makes.  A message is a name, a response code and the set of
  those of its fields the other end's next step depends on (`wire.info`).  The
  protocols are requests and responses, so that at most one message is under way.
* `state[e]` is the state *object*: its class, the flags it keeps (`marks`; "answered" is
  an `expecting_*` flag that has fallen), and its last message.  When an SECC state gets a
  request it accepts for another state, it makes a new object of that state and
  delegates (`Object`); whether it does so or remains is why flags are lost or kept.
* `Poll` is a wait for the SECC's processing with `ongoing_timer`; `TimerOn` and `TimerOff`
  are where the code starts and resets it.  `Overdue` is what the code tests on the next
  response; nothing else ends the wait.
* `EvccStop` sends `state["evcc"].out`: `stop_state_machine` does not clear the message the
  state made before, and the receive loop sends it once more before it stops.
* The controllers answer anything the code distinguishes.  Answers that the interface
  allows and the protocol does not foresee are the setting's `quirks`, so that a
  property can say whether it needs controllers without them.  Where `settings.shipped`
  is set, `SimControllers` narrows the choices to what the two shipped controllers answer:
  it constrains the step the protocol module takes, so that both read one definition.
* `se.judged` is a fact about the past that no field of the code holds: -20's last
  authorization answer was not "Ongoing".  `se.granted` says that one was accepted.
* `ChargerData`: an action is a request's effect on the contexts `ev_data_context` and
  `evse_data_context`.  A value an EV sent is told apart by when it came ("unset",
  "before" this session, "now"); departure times, schedules, profiles and the AC limits
  keep their numbers.  `evse.shared` says that the AC limits are the object in the default
  argument of `EVSESessionLimits` (a class-level default, made once).  `out` is what the
  last request made the controller do; "raised" is an exception, which ends the session.
  A profile in -2 is checked before the progress it comes with is looked at: an EV may send
  one to start, stop or renegotiate, this project's sends one to start.
* `ExponentValue`: `Multiplied` and `Divided` are the two loops of
  `get_exponent_value_repr`, by the number of turns they take.
* `Cached`, `Visited` and `Done` are the two indices and the inner loop of
  `_is_charging_profile_valid`, with its mistake of reading an entry at the wrong index.

## Runs

Properties that hold:

| Run | Question | Bounds |
|---|---|---|
| `simulator` | With the shipped tables, do errors nested in any order suspend the process without moving it?  Does the simulator implement `ErrorEpisodes`? | three errors pending, of four: enough for a first, a middle and a last one |
| `window` | Do buttons, timers, errors and a database that fails at any statement, or is lost or never there, keep timer, level, stack and rows consistent? | two rows (one session may follow another), a charge of two ticks, a payment delay of two (one that has not run down can be started anew), all four errors |
| `window_live` | With a working database, does the program never end or deadlock, and do charges and payments complete? | the same, two vehicles, a payment delay of three |
| `ocpp` | Coroutines that overtake each other, late replies, timeouts, a link that breaks anywhere: is every StopTransaction valid and late enough, is the lock kept in order, does everything end? | two coroutines, one heartbeat: a lock owner and a waiter with a call left |
| `station` | In the whole program, does a StopTransaction reach the server only for a finished, paid charge? | one charge, a table without the certificate and payment states (a payment delay of one), starts and stops only |
| `session` | In each protocol, from handshake to both connections closed: do the two state machines fit, is power authorized and its path checked, do waits and sessions end, and does what the EV reports as success end as success at the charger?  Does every session keep `EnergyHandover`?  Do undisturbed sessions of the shipped controllers succeed, whatever earlier ones left? | 13 settings with controllers of any kind: each protocol, AC and DC, with and without TLS, Plug & Charge and certificate installation, an offer of several protocols, none in common, no quirk and all; messages, polls and loops unbounded.  Five with the shipped controllers (DIN, -2 and -20 each with AC and DC), from 0 to 3 charges left, with the precharge and welding counters at their start, between and at their end |
| `handlers` | Lost, late and garbled datagrams, refused connections, sessions that fail at either end, ends that are told late, an error at the UDP socket at any time: is the EVCC owed one thing at a time, does it come to rest, is the SECC paused only for a session and available again after it? | two connections (one end may be told after the next connection), two requests a cycle, two cycles, four settings |

| `data` | Sessions of any protocol and service, one after another on one controller: is a command or a target ever made of what another session left?  Do offer, profile and check fit; do targets keep to the limits; when are limits lost? | departures: none, 1000 s, three days and 100 s (the last slot a short one), 25 days (a profile has 24 entries at most), 103 days (a tariff has 102); profiles of up to three entries in the first two slots; the shipped AC limits and four others (a fraction that does not fit, discharging, one direction unset, none) |

Disagreements between the code and what it says of itself (one property each, which TLC
finds violated):

| Run | What is said | What happens |
|---|---|---|
| `station_stopped` | `main_window.py:298`: send StopTransaction | the id is read before the lock; while StartTransaction is unanswered it is None, the request does not pass validation, and the transaction is never stopped |
| `handlers_resumed` | `udp_server.py:204`: called once a TCP connection is terminated | on CPython 3.12, closing the TCP server waits for a connection whose notification is queued behind the one being handled: the SECC's handler waits for ever |
| `session_schedules` | `evcc/comm_session_handler.py:113`: once the ongoing timer is up, the EV terminates the session | ISO 15118-20's `ScheduleExchange` asks again without starting or testing that timer: an SECC that stays "Ongoing" keeps the EV there for ever |
| `data_profile` | `secc/states/iso15118_2_states.py`, PowerDelivery ([V2G2-225]): a profile above the schedule is refused | from the second scheduled entry on, the check reads the end of a profile's entry at the wrong index, skips entries, and lets a profile through that exceeds a later slot (profiles of up to five entries) |

`CHECK_DEADLOCK FALSE` stands where the program may really stop: an exception ended it
(`window`), every coroutine is done (`ocpp`, `station`), both handlers are at rest
(`handlers`), both ends of a session have closed (`session`).  `window_live` and `simulator` check for deadlock.

### Fairness

* `WindowFairness`: time passes and the two Qt timers fire.  The operator owes nothing, but can
  start either timer anew.  For the payment's 6.5 s that is part of the model and nothing
  forbids it: `PaymentCompletes` therefore speaks of behaviours in which from some point on
  `payment_timer` only runs down, and without this premise TLC finds the payment that is
  postponed for ever.  The charge timer, which `update_status` restarts under every button
  (`gui/main_window.py:606`), has an interval of 200 ms; fairness of `ChargeTick` and `ChargeFull`
  assumes that nobody presses a button within 200 ms of the last without end.
* `OcppSystem`, `ChargingStation`: the event loops run what is ready, a call's 30 s
  pass, replies that have arrived are read.  The link may break or not.
* `SessionHandlers`: the loops run what is ready; the 250 ms wait for an SDP answer,
  a session's message timeout (`SeccStops(c, "failed")`) and its 5 s in `stop()`
  pass.  No datagram has to arrive, and no error (`ErrorReceived`) has to happen.  Fairness is per connection, since each is a
  task of its own.  `Prompt` is an assumption on speed: a free handler takes a
  connection or an end from its queue before anybody's 5 s have passed.
* `ChargingSession`: each end serves the message that arrived, time passes for the
  ongoing timer, `stop()` finishes (it has a bounded wait), and an end that reads
  notices a closed connection.  Message timeouts (`TimesOut`) may happen and need
  not; the controllers owe nothing, so that `PhasesEnd` rests on the timer alone.
  With the shipped controllers the EV's power profile of -20 is ready by a random bit
  (`evcc/controller/simulator.py`); that it is 1 some time is the one strong fairness, and
  only of those settings.
* `Simulator` and `ChargerData` promise nothing: what happens is up to operators and EVs.

## Proofs

TLAPS proves, for every value of the constants that satisfies the named
assumptions:

* `MainWindowProofs`, of the simulator (from `TableAssumption` and `ErrorArcsAssumption`, which
  TLC evaluates on the shipped tables): type correctness, `PendingErrorHalts`, `EpisodeMemory`,
  `ReturnsToInterrupted`, and that the simulator implements `ErrorEpisodes`.  The inductive
  invariant is `SimulatorInv`: the types, `PendingErrorHalts` and `EpisodeMemory`
  together.  None is inductive alone: `resolve_error` jumps to the remembered
  state, so that "not in Error" needs the memory not to be "Error", and the memory is
  right only because the first error alone writes it.
  Of the window (and from `WindowAssumption`; `ChargingArcsAssumption`: charging is entered by
  `start_charging` and left by `charging_complete` or an error; `StartArcsAssumption`: the
  initial state is left only by `connect_vehicle` or an error): the types,
  `ChargeTimerFollowsState`, `LevelBelongsToCharge`, `EpisodeLegal`, `CompletedByFullCharge`,
  and that the simulator as the window drives it still implements `ErrorEpisodes`.
  `WindowInv` adds to `SimulatorInv` that in the window "Error" always means a pending error
  (it never calls `reset_errors`).  With a working database (`DbFailures = {}`, an
  assumption of the theorems) also `NeverAborts` and `SessionIsNewest`.  `NeverAborts` is
  not inductive: a full charge must find a session, which exists because the process cannot
  have left its initial state, not even through an error and its resolution, but by
  `connect_vehicle`; `WorksInv` says so.
* `OcppProofs` (from `TransactionAssumption`: the transaction given is not `None`; any number of
  coroutines, heartbeats, timeouts and prepared requests): the types, `LockAccountsForTasks`,
  `StopsFollowStarts` and `TransactionKept`.  `StopsFollowStarts` is about the server, but
  the transaction id travels: from the server's reply into `transaction_id`, from there into
  the request prepared before the lock.  `KnownIsStarted` says of each of these places
  that an id in it comes from a start the server has received, `StopPrepared` that a stop
  past its preparation has one, and `MessagesFit` that a message under way with the id of
  the current call is about that call, while all older ones have smaller ids; on it
  rests `TransactionKept`.
* `StationProofs` (from both parts' assumptions): the whole program implements the window's
  specification and the OCPP pair's, so that the lock, the order of starts and stops,
  `TransactionKept` and the window's timer, level and stack hold in it; and with a working
  database `StopsHaveCompletedSession`.  See below.
* `SessionHandlersProofs` (any settings, retries, connections, any kind of garbling):
  `EvccOneAtATime`, `PausedForSession`, that a StopNotification always finds its session, and the
  types: no counter leaves its range.
  `EvccOneAtATime` is inductive with the types of the queue, the inbox and the connections;
  `PausedForSession` with the connections the queue speaks of.  Each handler's invariant
  holds because the other handler's steps touch only the other end of a connection.

* `ChargerDataProofs`: `OfferFitsRequest`, `NothingStaleIsUsed`, `OwnProfileAccepted`,
  `FirstSlotsWatched`, `TargetsWithinLimits`, `DischargeLimitsThere`, `LimitsLostOnce`, the
  types, and that the needs in a Dynamic loop are this session's.  The assumptions are
  `DeparturesAssumption` (departures are numbers, and an EV may give none),
  `ProfilesAssumption` (an EV sends the entries of its profile in the order of their start,
  as the check's comment takes for granted; nothing enforces it, so that of other profiles
  nothing is said) and `LimitsAssumption` (each limit is a number or unset, and the second
  phase's are not negative: `evse_data.py:78` has separate maxima for charging and
  discharging).  The inductive invariant `IInv` says of each phase what is fresh by then; no
  property is inductive alone, because a loop relies on what discovery left several requests
  earlier.  Its parts `OfferMade`, `ProfileChecked` and `Sent` rest on facts about functions,
  for every departure, profile and number:
  * an offer covers the time asked for (`OfferCovers`); the profile this project's EV makes of
    it exceeds no slot (`OwnProfileAdheres`), and the SECC's check accepts it
    (`OwnProfileIsValid`);
  * the check, whatever entries it skips later, has looked at every entry in the first two
    slots (`FirstSlotsChecked`); that it fails from the third on is `data_profile`;
  * `get_exponent_value_repr` ends, with a value of 16 bits (`ExponentValueFits`) of the same
    sign and not further from zero (`ExponentValueKeeps`).

  `Cached` (the check's running index) and `Pow10` are recursive functions.  The library's
  induction theorems cannot be used here, so `LeastNatural` takes their place: a set of numbers
  that is not empty has a least member, and a least counterexample to a claim about `f[n]`
  is none, as the claim holds of `f[n - 1]`.  `Divided` looks for the number of divisions in
  `0..(Abs(x.n) + 3)`, where there always is one, so that the model puts no bound on numbers.
* `ChargingSessionProofs` (from `SettingsAssumption` and `LeftoversAssumption`; any settings and
  quirks, any priorities on offer, messages and loops without bound): the types,
  `PowerOnlyAfterAuthorization`, `EnergyPathReady`, `GracefulStopIsSafe`, `AgreedEnd`,
  `TimerOfPhase`, `SequenceAgreement`, and that a session implements `EnergyHandover`.  See
  below.

### The session's invariant

Each of the seven properties relates the SECC's object, the EVCC's, and a message between
them, and none is inductive.  Power is on because a request arrived, so the invariant must
say what the request on the wire means for the end that will take it.  `Inv` in
`ChargingSessionProofs` is `Typed` and these parts (`SessionSteps`):

* `WireInv`: a message is for an end that runs; an EVCC's left-over message, which
  `stop_state_machine` sends once more, is never a PowerDelivery.
* `ProtocolInv`: the state's class belongs to the protocol, and until the handshake nothing is
  set; the EVCC follows the SECC's choice.
* `EndInv`, `CarInv`: success is final; the car is enabled where power may flow, and the timer
  is of the phase or off.
* per protocol `…Auth` (a state past the authorization, or a positive answer that leads there,
  means it was given), `…Path` (which states imply that contactors are closed, the insulation
  checked, or everything off) and `…Stop` (an EVCC that is stopping has asked for
  it, and the positive answer to SessionStop comes from a success).  ISO 15118-20, whose SECC
  takes some requests out of turn (`Iso20Lenient`), needs three more: the SECC's place
  while power may be on (`Iso20Place`), what the EVCC was told of renegotiation
  (`Iso20Told`), and that only a renegotiation keeps energy past a SessionStop (`Iso20Again`,
  `Iso20Ends`).
* per protocol `…Turn`, on which `SequenceAgreement` rests: while both ends run and no quirk is set,
  `…Fits` says that a request under way is one the SECC's state takes (its own, or one that
  may follow after it has answered), and `…Leads` that a response under way has left the SECC in
  a state in which whatever the EVCC asks next will fit.  The two alone are not
  inductive.  Which request PowerDelivery will be depends on `ev.stop`, `ev.renegotiating` and
  `ev.computing`, and must agree with what is on the wire; whether a state has answered
  (`Answered`) decides whether it gives way; and -20's DCPreCharge finishes only after
  the EVCC's state object has asked and reached its voltage.  `NoneRefused` then says that no
  response was a sequence error.

The proof follows the composition.  `SeccSteps` and `EvccSteps` first say what each operator of
`V2GSession` does to the wire and the state objects (`SeccDoes`, `EvccDoes`) and that the six
protocol modules' copies are the same (`SeccDinSame`, …), so that a handler's proof never
expands one.  Then they have one lemma per protocol (`DinSeccStep`, …), in
each one case per handler with the same seven steps: the request it takes, its effect,
the types, its place, the invariant part by part, and what it may do with the energy
(`SeccEnergy`, `EvccEnergy`).  `ChargingSessionProofs` adds the handshake, requests out of
sequence, refused responses, timeouts and closings, and composes.  The last conjunct is what the
refinement needs: `StationKeepsOrder` and `CarKeepsOrder` turn it into a step of
`EnergyHandover`.

### The station's invariant

`StationProofs` puts the theorems about the parts to use in the whole.  A slot of the window
gives the event loop at most one coroutine (`SlotCreates`), and gives one without a connection
only where the code does not look for it (`send_charging_started`); with `Linked` (the window
has a charge point exactly if a connection was made) each step of the program is a step of
`OcppSystem` or leaves it alone (`StationOcpp`), and likewise of the window.  So
`IInv` of `OcppProofs` and `WindowInv` of `MainWindowProofs` hold in the program, for any number of
coroutines, of which any set may be `Tracked`.

`StopsHaveCompletedSession` speaks of the server and of the database, and a stop passes through three
places on its way: a coroutine that still has to call, a request under way, and
the requests received.  The invariant `StopsPaid` says that until some session is paid none
of the three holds a stop.  It is kept because only a full charge creates one
(`WindowAsksNone`), because that charge pays in the same step (`FullChargePays`, which needs
`WorksInv` for the session to exist), because no statement takes a payment back
(`PaidStays`), and because neither a failed call's report nor a reply makes a coroutine ask for more
than it was created for (`ChargePointAsksNone`).  `DbFailures = {}` is a hypothesis: in the
code a payment that fails to be recorded does not keep `send_charging_completed` from
stopping the transaction.

### What is only model-checked

Every invariant, action property and refinement that a passing run checks is proved.  TLC alone
checks

* what is temporal and rests on fairness, which the provers cannot do: `ChargeCompletes`,
  `PaymentCompletes`, `EveryTaskEnds`, `ServerNotices`, `EvccComesToRest`,
  `SeccAvailableAgain`, `PhasesEnd`, `BothClose` and `ShippedSessionsSucceed`;
* the four disagreements, which are shown by counterexamples.

The type invariants of all six systems (`Simulator`, `MainWindow`, `OcppSystem`,
`SessionHandlers`, `ChargerData`, `ChargingSession`) are proved.

## Not modelled, and why

* Widgets, labels and log lines; the server's and the loading screen's windows.
* `main_window.py`'s service-discovery samples: they write and read back a file.
* `charge_point.py`'s `send_meter_values` (no caller) and `main` (connects, one heartbeat).
* `DatabaseManager`'s methods without a caller.
* `SeccHandler`: several peer addresses (one EVCC here, so one key in `comm_sessions`);
  `close_session`, which nothing calls; `stop()` itself failing on a broken socket.
* `MeteringReceipt` (the SECC never sets `receipt_required`), the EVCC's -20
  `CertificateInstallation` (the SECC has no answer to it), pausing a session and standby
  (no controller of the repository asks for them), and what messages carry beyond what decides a
  step: limits, prices, schedules, certificates and signatures.
* `EvccHandler`: a duplicated datagram (it reads as a late one).
* `ChargerData`: the station's own limits (`get_evse_max_*` of the interface are overridden by
  constants), reactive powers and the third phase (they are computed as the active
  power and the second phase are), meter values, and the rounding of floating point numbers:
  a number is given by its decimal digits.
* Prices and the bodies of -20's schedules, which the shipped controllers fill with constants
  and no state looks into; signatures and certificate chains (`shared/security.py`); the EXI
  codec, a Java program.

## Observations

Behaviours that are what the code does, and which no document contradicts:

* `start_charging` marks the current row 'started' in any state, a completed row
  included; `MarkStarted` does so, and `CompletedByFullCharge` speaks of completion only.
* Every transaction has id 1, and `transaction_id` is never cleared.
* The payment timer is single-shot: an error at the wrong moment swallows it, and only
  the button starts it again.  Every press starts its 6.5 s anew, in any state
  (`gui/main_window.py:372`), so pressing again in time postpones the payment as long as one likes.
* Reports of errors never reach the central system: `simulate_error` gives them the status
  "Error" (`gui/main_window.py:563`), which OCPP 1.6 does not have, so that the StatusNotification
  fails validation and only its failure is sent, as a DataTransfer.
* An error at the EVCC's UDP socket, be it from the request just sent, clears
  `udp_client.started` for good (`evcc/transport/udp_client.py:114`).  The next SDP request then waits in
  `send_sdp` (`evcc/comm_session_handler.py:326`) for ever, at the start of the 50 that
  `restart_sdp`'s docstring allows (`:344`).  `EvccComesToRest` therefore counts as rest that the handler has
  ended, or waits at a queue nothing will fill, or polls a client that an error has stopped;
  a handler that polls a started client or goes on searching is not at rest.
* After a failed SDP cycle the request counter is reset but no retry cycle is used; that
  the EVCC still comes to rest is because nothing wakes it (`EvccComesToRest`).
* `insert_ocpp_log` names a column `action` that `CreateTables.sql` does not create, so on the shipped
  schema no OCPP message is logged (`CentralSystem!Logged` stays empty).
* ISO 15118-20's SECC answers a rejected authorization as finished, with response code OK
  (`secc/states/iso15118_20_states.py:472`): the EV goes on and may charge.
  Of -20, `PowerOnlyAfterAuthorization` asks only that the authorization is not "Ongoing".
* DIN's `ContractAuthentication` leaves the ongoing timer running
  (`evcc/states/din_spec_states.py:296`), so that `ChargeParameterDiscovery` is measured from
  the authorization on: `TimerOfPhase` leaves DIN out.  Like `ScheduleExchange`, -20's
  `DCPreCharge` polls without a timer.
* -2's SECC raises when `get_sa_schedule_list` has no list yet
  (`secc/states/iso15118_2_states.py:1397`), the quirk "computing".
* -2's SECC that supports only Plug & Charge and has no TLS offers no payment option, a response
  that cannot be built: the session ends there.
* A contactor that does not close leaves -2's high-level charging on
  (`secc/states/iso15118_2_states.py:1698`) while the session stops; -20's is reset.
* With the quirk "delays" (-2), "quits" (DIN) or "dips" (-20) the EVCC sends a request the SECC's state
  does not accept, and the session ends in a sequence error.
* In -20, a renegotiation asked for by a controller raises in the EVCC's `SessionStop`
  (`evcc/states/iso15118_20_states.py:1160`), and a service without a control mode ("modeless")
  raises a few lines above; `DCWeldingDetection` does not check the response it gets.
* The window's slot for a finished payment logs that no session is there to be updated and
  reads a global nobody assigned in the next lines (`gui/main_window.py:289`, `:291`): without a session the program ends.
* After "Shutting down high-level communication" the EVCC's handler waits at a queue that
  nothing will fill (`evcc/comm_session_handler.py:377`, `:558`).
* `validate_sa_schedule_list` (`secc/states/iso15118_2_states.py:1486`) tests the opposite of what its
  comment says, and only logs.  `_is_charging_profile_valid` also refuses some good
  profiles: those whose last entry has more power than a slot that has ended.
* `send_charging_command`'s third parameter is `is_precharge`, and -20's loop passes
  `is_session_bpt` there (`secc/states/iso15118_20_states.py:1810`).
* The first DC session of -20 puts the shared default in place of the AC limits the controller
  started with; an AC session after it raises a `TypeError` unless limits are set again.
  A limit on discharging alone raises as well, since None is compared with 0.
* `max_charge_reactive_power or 0 > 0` tests the number itself.  An AC session that is not
  bidirectional may be given a negative target, if the limits say so.
* A departure in more than 102 days raises in the SECC, even where charging is free and the
  tariff is not sent; one in more than 23 days makes this project's EV raise, whose profile
  is an entry longer than 24.
* Two examples in `get_exponent_value_repr`'s docstring are not what it computes (0.0001
  is (0, 0)).
* A controller that gives no needs leaves the last session's in the context, for
  Dynamic sessions without needs of their own.
* DIN SPEC 70121 with fewer than two charges left always ends in a sequence error: the
  counter runs out before the first CurrentDemand, the EV takes the start of power for its end
  (`evcc/controller/simulator.py:584`), and switches itself off while the station is on.
* `set_hlc_charging(True)` is not taken back when a session ends abnormally.
* `charging_complete` of DIN's and -2's requests is set to `continue_charging()`, its opposite.

## Plan

1. (done) Simulator and window, with their proofs; OCPP and the composed station; the
   ISO 15118 handlers, with their proofs.
2. (done) The ISO 15118 session: one module per protocol and side, and the session that
   composes them.
3. (done) The shipped controllers: their data over many sessions, with proofs, and their answers in
   whole sessions; `EnergyHandover`, which `ChargingSession` implements.
4. Two charges in the composed station, to tell apart the transaction a stop is for (each
   has id 1), on a bounded schedule of coroutines.
5. (done) The safety of the session, its refinement, the window's bookkeeping and the OCPP
   system, proved.
6. (done) `SequenceAgreement`, the check of profiles and the conversion of targets, and the
   composed station, proved.
7. Proof: the safe half of `ShippedSessionsSucceed`, that with the shipped controllers no end of
   an undisturbed session stops without success.
