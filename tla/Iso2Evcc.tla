------------------------------ MODULE Iso2Evcc ------------------------------
(* The EVCC's states of ISO 15118-2 (evcc/states/iso15118_2_states.py), one *)
(* action per state: what it does with the response it waits for.  What the *)
(* EV controller answers is a choice; a state that may find the response    *)
(* unfit, or a key or certificate missing, may stop instead.                *)
EXTENDS V2GSession

SessionSetup ==
  /\ Response("SessionSetup")
  /\ Ask("ServiceDiscovery", {})
  /\ UNCHANGED ev

\* Plug & Charge whenever it is offered under TLS, otherwise EIM.
ServiceDiscovery ==
  LET auth == IF "PnC" \in wire.info /\ settings.tls THEN "PnC" ELSE "EIM"
      install == "Certificate" \in wire.info /\ settings.tls /\ auth = "PnC" /\ settings.install
  IN /\ Response("ServiceDiscovery")
     /\ \/ IF install THEN Ask("ServiceDetail", {}) ELSE Ask("PaymentServiceSelection", { auth })
        \/ EvccStop(FALSE)
     /\ ev' = [ev EXCEPT !.auth = auth]

\* At most one service is asked about.
ServiceDetail ==
  /\ Response("ServiceDetail")
  /\ Ask("PaymentServiceSelection", { ev.auth })
  /\ UNCHANGED ev

PaymentServiceSelection ==
  /\ Response("PaymentServiceSelection")
  /\ \/ Ask(IF ev.auth # "PnC" THEN "Authorization"
            ELSE IF settings.install THEN "CertificateInstallation" ELSE "PaymentDetails", {})
     \/ ev.auth = "PnC" /\ EvccStop(FALSE)
  /\ UNCHANGED ev

CertificateInstallation ==
  /\ Response("CertificateInstallation")
  /\ Ask("PaymentDetails", {}) \/ EvccStop(FALSE)
  /\ UNCHANGED ev

PaymentDetails ==
  /\ Response("PaymentDetails")
  /\ Ask("Authorization", {}) \/ EvccStop(FALSE)
  /\ UNCHANGED ev

Authorization ==
  /\ Response("Authorization")
  /\ IF "finished" \in wire.info
     THEN Ask("ChargeParameterDiscovery", {}) /\ ev' = TimerOff
     ELSE Poll("Authorization", Ask)

\* process_sa_schedules_v2 chooses the progress an AC PowerDelivery asks for.
ChargeParameterDiscovery ==
  /\ Response("ChargeParameterDiscovery")
  /\ IF "finished" \in wire.info
     THEN /\ \E progress \in { "Start" } \union
                             IF "delays" \in settings.quirks THEN { "Stop" } ELSE {} :
               IF settings.ac THEN Ask("PowerDelivery", { progress }) ELSE Ask("CableCheck", {})
          /\ ev' = [TimerOff EXCEPT !.enabled = TRUE]
     ELSE Poll("ChargeParameterDiscovery", Ask)

\* After a stop the session ends, at DC by way of WeldingDetection.
PowerDelivery ==
  /\ Response("PowerDelivery")
  /\ \/ /\ ev.stop # "none" /\ settings.ac
        /\ Ask("SessionStop", { ev.stop })
        /\ UNCHANGED ev
     \/ /\ ev.stop # "none" /\ ~ settings.ac
        /\ Ask("WeldingDetection", {})
        /\ ev' = [ev EXCEPT !.enabled = FALSE]
     \/ /\ ev.stop = "none" /\ ev.renegotiating
        /\ Ask("ChargeParameterDiscovery", {})
        /\ ev' = [ev EXCEPT !.renegotiating = FALSE]
     \/ /\ ev.stop = "none" /\ ~ ev.renegotiating
        /\ Ask(IF settings.ac THEN "ChargingStatus" ELSE "CurrentDemand", {})
        /\ UNCHANGED ev

\* Mutant: the car goes off when it asks for the end, not when it is answered.
StopChargingAtOnce ==
  /\ Ask("PowerDelivery", { "Stop" })
  /\ ev' = [ev EXCEPT !.stop = "Terminate", !.enabled = FALSE]

StopCharging ==
  /\ Ask("PowerDelivery", { "Stop" })
  /\ ev' = [ev EXCEPT !.stop = "Terminate"]

\* The SECC never asks for a metering receipt.
ChargingStatus ==
  /\ Response("ChargingStatus")
  /\ IF "renegotiate" \in wire.info
     THEN Ask("PowerDelivery", { "Renegotiate" }) /\ ev' = [ev EXCEPT !.renegotiating = TRUE]
     ELSE \E continue_charging \in BOOLEAN :
            IF continue_charging /\ "stop" \notin wire.info
            THEN Ask("ChargingStatus", {}) /\ UNCHANGED ev
            ELSE StopCharging

\* The station must have found the insulation valid.
CableCheck ==
  /\ Response("CableCheck")
  /\ IF "finished" \in wire.info
     THEN /\ ev' = TimerOff
          /\ IF "VALID" \in wire.info THEN Ask("PreCharge", {}) ELSE EvccStop(FALSE)
     ELSE Poll("CableCheck", Ask)

PreCharge ==
  /\ Response("PreCharge")
  /\ \/ Ask("PowerDelivery", { "Start" }) /\ ev' = TimerOff
     \/ Poll("PreCharge", Ask)

CurrentDemand ==
  /\ Response("CurrentDemand")
  /\ \E continue_charging \in BOOLEAN :
       IF continue_charging /\ "stop" \notin wire.info
       THEN Ask("CurrentDemand", {}) /\ UNCHANGED ev
       ELSE StopCharging

\* Its timer starts with the first response, whatever that says.
WeldingDetection ==
  /\ Response("WeldingDetection")
  /\ \/ Overdue /\ EvccStop(FALSE) /\ UNCHANGED ev
     \/ /\ ~ Overdue
        /\ Ask("SessionStop", { ev.stop }) \/ AskAgain("WeldingDetection", {})
        /\ ev' = TimerOn("WeldingDetection")

SessionStop ==
  /\ Response("SessionStop")
  /\ EvccStop(TRUE)
  /\ UNCHANGED ev

Handle ==
  \/ SessionSetup \/ ServiceDiscovery \/ ServiceDetail \/ PaymentServiceSelection
  \/ CertificateInstallation \/ PaymentDetails \/ Authorization \/ ChargeParameterDiscovery
  \/ PowerDelivery \/ ChargingStatus \/ CableCheck \/ PreCharge \/ CurrentDemand
  \/ WeldingDetection \/ SessionStop

Next ==
  /\ protocol["evcc"] = ISO2
  /\ Handle
  /\ UNCHANGED << settings, protocol, se >>

============================================================================
