------------------------------- MODULE DinEvcc -------------------------------
(* The EVCC's states of DIN SPEC 70121 (evcc/states/din_spec_states.py),    *)
(* whose loops stay in one state object.                                    *)
EXTENDS V2GSession

SessionSetup ==
  /\ Response("SessionSetup")
  /\ Ask("ServiceDiscovery", {})
  /\ UNCHANGED ev

\* Stops when the energy mode it wants is not offered.
ServiceDiscovery ==
  /\ Response("ServiceDiscovery")
  /\ IF "EIM" \in wire.info
     THEN /\ ev' = [ev EXCEPT !.auth = "EIM"]
          /\ Ask("ServicePaymentSelection", { "EIM" }) \/ EvccStop(FALSE)
     ELSE EvccStop(FALSE) /\ UNCHANGED ev

ServicePaymentSelection ==
  /\ Response("ServicePaymentSelection")
  /\ Ask("ContractAuthentication", {})
  /\ UNCHANGED ev

\* The ongoing timer starts with the first response, even one that says
\* "Finished", and nothing here stops it.
ContractAuthentication ==
  /\ Response("ContractAuthentication")
  /\ \/ Overdue /\ EvccStop(FALSE) /\ UNCHANGED ev
     \/ /\ ~ Overdue
        /\ IF "finished" \in wire.info THEN Ask("ChargeParameterDiscovery", {})
           ELSE AskAgain("ContractAuthentication", {})
        /\ ev' = TimerOn("ContractAuthentication")

ChargeParameterDiscovery ==
  /\ Response("ChargeParameterDiscovery")
  /\ IF "finished" \in wire.info
     THEN Ask("CableCheck", {}) /\ ev' = [TimerOff EXCEPT !.enabled = TRUE]
     ELSE Poll("ChargeParameterDiscovery", AskAgain)

\* The station must have found the insulation valid.
CableCheck ==
  /\ Response("CableCheck")
  /\ IF "finished" \in wire.info
     THEN /\ ev' = TimerOff
          /\ IF "VALID" \in wire.info THEN Ask("PreCharge", {}) ELSE EvccStop(FALSE)
     ELSE Poll("CableCheck", AskAgain)

PreCharge ==
  /\ Response("PreCharge")
  /\ \/ Ask("PowerDelivery", { "Start" }) /\ ev' = TimerOff
     \/ Poll("PreCharge", AskAgain)

\* Whether the response is to the start or to the end of the energy transfer
\* is told by continue_charging, which is False ever after stop_charging.
PowerDelivery ==
  /\ Response("PowerDelivery")
  /\ \/ ~ ev.complete /\ Ask("CurrentDemand", {}) /\ UNCHANGED ev
     \/ /\ ev.complete \/ "quits" \in settings.quirks
        /\ Ask("WeldingDetection", {})
        /\ ev' = [ev EXCEPT !.enabled = FALSE]

CurrentDemand ==
  /\ Response("CurrentDemand")
  /\ \E continue_charging \in BOOLEAN :
       IF continue_charging /\ "stop" \notin wire.info
       THEN AskAgain("CurrentDemand", {}) /\ UNCHANGED ev
       ELSE Ask("PowerDelivery", {}) /\ ev' = [ev EXCEPT !.complete = TRUE]

WeldingDetection ==
  /\ Response("WeldingDetection")
  /\ \/ Overdue /\ EvccStop(FALSE) /\ UNCHANGED ev
     \/ /\ ~ Overdue
        /\ Ask("SessionStop", {}) \/ AskAgain("WeldingDetection", {})
        /\ ev' = TimerOn("WeldingDetection")

SessionStop ==
  /\ Response("SessionStop")
  /\ EvccStop(TRUE)
  /\ UNCHANGED ev

Handle ==
  \/ SessionSetup \/ ServiceDiscovery \/ ServicePaymentSelection \/ ContractAuthentication
  \/ ChargeParameterDiscovery \/ CableCheck \/ PreCharge \/ PowerDelivery \/ CurrentDemand
  \/ WeldingDetection \/ SessionStop

Next ==
  /\ protocol["evcc"] = DIN
  /\ Handle
  /\ UNCHANGED << settings, protocol, se >>

============================================================================
