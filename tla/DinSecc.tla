------------------------------- MODULE DinSecc -------------------------------
(* The SECC's states of DIN SPEC 70121 (secc/states/din_spec_states.py).    *)
(* The charging is always DC and the authorization always external.         *)
EXTENDS V2GSession

Expected ==
  [SessionSetup             |-> << "SessionSetup" >>,
   ServiceDiscovery         |-> << "ServiceDiscovery" >>,
   ServicePaymentSelection  |-> << "ServicePaymentSelection" >>,
   ContractAuthentication   |-> << "ContractAuthentication" >>,
   ChargeParameterDiscovery |-> << "ChargeParameterDiscovery" >>,
   CableCheck               |-> << "CableCheck" >>,
   PreCharge                |-> << "PreCharge", "PowerDelivery" >>,
   PowerDelivery            |-> << "PowerDelivery", "SessionStop", "WeldingDetection" >>,
   CurrentDemand            |-> << "CurrentDemand", "PowerDelivery" >>,
   WeldingDetection         |-> << "WeldingDetection", "SessionStop" >>,
   SessionStop              |-> << "SessionStop" >>]

Accepted == Accepts(Expected[state["secc"].name])
Takes(r) == Request(r) /\ r \in Accepted

SessionSetup ==
  /\ Takes("SessionSetup")
  /\ GoOn("SessionSetup", {}, "ServiceDiscovery")
  /\ UNCHANGED se

ServiceDiscovery ==
  /\ Takes("ServiceDiscovery")
  /\ GoOn("ServiceDiscovery", { "EIM" }, "ServicePaymentSelection")
  /\ se' = [se EXCEPT !.offered = { "EIM" }]

ServicePaymentSelection ==
  /\ Takes("ServicePaymentSelection")
  /\ IF "EIM" \in wire.info
     THEN /\ GoOn("ServicePaymentSelection", {}, "ContractAuthentication")
          /\ se' = [se EXCEPT !.auth = "EIM"]
     ELSE Refuse("ServicePaymentSelection") /\ UNCHANGED se

\* A status other than ACCEPTED, REJECTED too, lets the EVCC ask again.
ContractAuthentication ==
  /\ Takes("ContractAuthentication")
  /\ \/ /\ GoOn("ContractAuthentication", { "finished" }, "ChargeParameterDiscovery")
        /\ se' = [se EXCEPT !.granted = TRUE]
     \/ Remain("ContractAuthentication", {}, {}) /\ UNCHANGED se

\* Refused for the energy mode; Ongoing while there are no schedules.
ChargeParameterDiscovery ==
  /\ Takes("ChargeParameterDiscovery")
  /\ \/ Refuse("ChargeParameterDiscovery")
     \/ GoOn("ChargeParameterDiscovery", { "finished" }, "CableCheck")
     \/ Remain("ChargeParameterDiscovery", {}, {})
  /\ UNCHANGED se

CableCheck ==
  /\ Takes("CableCheck")
  /\ \E level \in { "VALID", "WARNING" } : CheckCable("CableCheck", { level }, "PreCharge")

PreCharge ==
  /\ Takes("PreCharge")
  /\ Remain("PreCharge", {}, {}) \/ Refuse("PreCharge")
  /\ UNCHANGED se

\* ready_to_charge starts the energy transfer, otherwise it ends.
PowerDelivery ==
  /\ Takes("PowerDelivery")
  /\ \/ /\ "Start" \in wire.info
        /\ GoOn("PowerDelivery", {}, "CurrentDemand")
        /\ se' = [se EXCEPT !.hlc = TRUE, !.started = TRUE]
     \/ /\ "Start" \notin wire.info
        /\ \E opened \in BOOLEAN :
             /\ se' = [se EXCEPT !.hlc = FALSE, !.contactor = IF opened THEN "open" ELSE @]
             /\ IF opened THEN Remain("PowerDelivery", {}, {}) ELSE Refuse("PowerDelivery")

\* The response's status code may say that the station is not ready (any more).
CurrentDemand ==
  /\ Takes("CurrentDemand")
  /\ \/ \E status \in { {}, { "stop" } } : Remain("CurrentDemand", status, {})
     \/ Refuse("CurrentDemand")
  /\ UNCHANGED se

WeldingDetection ==
  /\ Takes("WeldingDetection")
  /\ Remain("WeldingDetection", {}, {})
  /\ UNCHANGED se

SessionStop ==
  /\ Takes("SessionStop")
  /\ Last("SessionStop", "OK", TRUE)
  /\ UNCHANGED se

Handle ==
  \/ SessionSetup \/ ServiceDiscovery \/ ServicePaymentSelection \/ ContractAuthentication
  \/ ChargeParameterDiscovery \/ CableCheck \/ PreCharge \/ PowerDelivery \/ CurrentDemand
  \/ WeldingDetection \/ SessionStop

Next ==
  /\ protocol["secc"] = DIN
  /\ Handle \/ OutOfSequence(Accepted)
  /\ UNCHANGED << settings, protocol, ev >>

============================================================================
