-------------------------- MODULE ChargingSession --------------------------
(* A whole session between this EVCC and this SECC, in whichever protocol   *)
(* they agree on, with controllers of any kind or the shipped ones.         *)
EXTENDS SimControllers

SeccDin == INSTANCE DinSecc
EvccDin == INSTANCE DinEvcc
Secc2   == INSTANCE Iso2Secc
Evcc2   == INSTANCE Iso2Evcc
Secc20  == INSTANCE Iso20Secc
Evcc20  == INSTANCE Iso20Evcc

SeccHandles == SeccSupportedAppProtocol \/ SeccDin!Next \/ Secc2!Next \/ Secc20!Next
EvccHandles == EvccSupportedAppProtocol \/ Rejects \/ EvccDin!Next \/ Evcc2!Next \/ Evcc20!Next

SeccServes == SeccHandles /\ IF settings.shipped THEN SimEVSEController ELSE UNCHANGED sim
EvccServes == EvccHandles /\ IF settings.shipped THEN SimEVController ELSE UNCHANGED sim

\* With the shipped controllers no end is slow.
Elapses == ~ settings.shipped /\ TimeElapses /\ UNCHANGED sim
IsLate(e) == ~ settings.shipped /\ TimesOut(e) /\ UNCHANGED sim
Closes(e) == Close(e) /\ UNCHANGED sim
Notices(e) == PeerCloses(e) /\ UNCHANGED sim

Init == SessionInit /\ SimInit
Next == SeccServes \/ EvccServes \/ Elapses \/ \E e \in Ends : IsLate(e) \/ Closes(e) \/ Notices(e)

sessionVars == << settings, wire, state, run, success, protocol, ev, se, sim >>

\* Both ends serve what arrives, time passes, a stop() runs to its end and a
\* closed connection is noticed.  Nothing is assumed of how long it takes.  The
\* shipped EV's random bit for its power profile is 1 some time.
Fairness ==
  /\ WF_sessionVars(SeccServes) /\ WF_sessionVars(EvccServes) /\ WF_sessionVars(Elapses)
  /\ \A e \in Ends : WF_sessionVars(Closes(e)) /\ WF_sessionVars(Notices(e))
  /\ SF_sessionVars(settings.shipped /\ EvccServes /\ ~ ev'.computing)

Spec == Init /\ [][Next]_sessionVars /\ Fairness

-----------------------------------------------------------------------------
\* The variables hold what the two sessions can hold.
TypeOK ==
  /\ settings \in Settings
  /\ wire.kind \in { "none", "req", "res" }
  /\ wire.code \in { "OK", "FAILED", "FAILED_SEQUENCE_ERROR" }
  /\ run \in [Ends -> { "running", "stopping", "closed" }]
  /\ success \in [Ends -> BOOLEAN]
  /\ protocol \in [Ends -> Protocols \union { "UNKNOWN" }]
  /\ sim \in Counters

\* The EVCC's and the SECC's state machines fit: as long as the controllers
\* behave, no request is out of sequence for the SECC, every response is the
\* one the EVCC waits for, and after the handshake both speak one protocol.
SequenceAgreement ==
  settings.quirks = {} =>
    /\ wire.code # "FAILED_SEQUENCE_ERROR"
    /\ wire.kind = "res" => wire.name = state["evcc"].name
    /\ wire.kind = "req" => wire.name = "SupportedAppProtocol" \/ protocol["evcc"] = protocol["secc"]

\* No charging is controlled by the station, and none enabled in the car,
\* before the SECC's authorization was accepted.  ISO 15118-20's SECC takes a
\* rejection for a finished authorization: there it is at least not ongoing.
PowerOnlyAfterAuthorization ==
  se.hlc \/ ev.enabled => IF protocol["secc"] = ISO20 THEN se.judged ELSE se.granted

\* While a session that charges runs, the contactors are closed and, for DC,
\* the insulation has been found good: PowerDelivery, CableCheck and a
\* renegotiation never leave the energy on an unchecked path.
EnergyPathReady ==
  se.hlc /\ run["secc"] = "running" =>
    se.contactor = "closed" /\ (~ Ac => se.insulated)

\* A session the SECC reports as successful has left the high-level charging
\* and opened the contactors.
GracefulStopIsSafe == success["secc"] => ~ se.hlc /\ se.contactor = "open"

\* What the EVCC reports as a successful end, the SECC does too.
AgreedEnd == success["evcc"] => success["secc"]

\* The one ongoing timer of the EVCC measures the phase the session is in and
\* no earlier one.  (DIN SPEC 70121's ContractAuthentication leaves it running.)
TimedPhases == { "Authorization", "ContractAuthentication", "ChargeParameterDiscovery",
                 "CableCheck", "DCCableCheck", "PreCharge", "WeldingDetection",
                 "DCWeldingDetection" }
TimerOfPhase ==
  protocol["evcc"] # DIN /\ state["evcc"].name \in TimedPhases =>
    ev.timer \in { "off", state["evcc"].name }

\* No phase in which the SECC may answer "Ongoing" lasts forever, however
\* often it does: the EVCC leaves it or gives the session up.
PhasesEnd ==
  \A p \in TimedPhases :
    state["evcc"].name = p ~> state["evcc"].name # p \/ run["evcc"] # "running"

\* Once either end stops, for whatever reason, both close the connection, and
\* the car's charging is disabled.
BothClose ==
  (\E e \in Ends : run[e] # "running")
    ~> (~ ev.enabled /\ \A e \in Ends : run[e] = "closed")

\* An end has left when its receive loop has ended.  A car that speaks DIN SPEC
\* 70121 and may change its mind before the first CurrentDemand goes off while
\* the station is on, and is not held to the order.
Handover == INSTANCE EnergyHandover WITH
  car <- ev.enabled, path <- se.contactor = "closed", station <- se.hlc,
  left <- (IF run["evcc"] # "running" \/ (protocol["evcc"] = DIN /\ "quits" \in settings.quirks)
           THEN { "car" } ELSE {})
          \union (IF run["secc"] # "running" THEN { "station" } ELSE {})

\* Refinement: enable_charging at the car and set_hlc_charging and the
\* contactors at the station, each called in states of its own and of three
\* protocols, keep the order of EnergyHandover over every session.
ImplementsHandover == Handover!Spec

\* With the shipped controllers every session that nothing disturbs ends
\* successfully at both ends, in every protocol, whatever the sessions before
\* it left of the counters; only DIN SPEC 70121 needs two charges to be left.
ShippedSessionsSucceed ==
  settings.shipped /\ (settings.offered # << DIN >> \/ sim.charges >= 2)
    => <>[](\A e \in Ends : run[e] = "closed" /\ success[e])

-----------------------------------------------------------------------------
\* evcc/comm_session_handler.py:113 "The Ongoing timer starts running once the
\* EVCC receives a response with the field EVSEProcessing set to 'Ongoing'.  Once
\* the timer is up, the EV will terminate the communication session": so the
\* exchange of schedules cannot go on for ever.
ScheduleExchangeEnds ==
  state["evcc"].name = "ScheduleExchange"
    ~> state["evcc"].name # "ScheduleExchange" \/ run["evcc"] # "running"

============================================================================
