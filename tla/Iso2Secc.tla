------------------------------ MODULE Iso2Secc ------------------------------
(* The SECC's states of ISO 15118-2 (secc/states/iso15118_2_states.py), one *)
(* action per state: what it does with the request it is named after.       *)
EXTENDS V2GSession

\* What check_msg_v2 is told to expect in each state.
Expected ==
  [SessionSetup             |-> << "SessionSetup" >>,
   ServiceDiscovery         |-> << "ServiceDiscovery", "ServiceDetail", "PaymentServiceSelection" >>,
   ServiceDetail            |-> << "ServiceDetail", "PaymentServiceSelection" >>,
   PaymentServiceSelection  |-> << "PaymentServiceSelection", "CertificateInstallation",
                                   "PaymentDetails", "Authorization" >>,
   CertificateInstallation  |-> << "CertificateInstallation" >>,
   PaymentDetails           |-> << "PaymentDetails" >>,
   Authorization            |-> << "Authorization" >>,
   ChargeParameterDiscovery |-> << "ChargeParameterDiscovery", "PowerDelivery", "CableCheck" >>,
   PowerDelivery            |-> << "PowerDelivery", "SessionStop", "WeldingDetection" >>,
   SessionStop              |-> << "SessionStop" >>,
   ChargingStatus           |-> << "ChargingStatus", "PowerDelivery", "MeteringReceipt" >>,
   CableCheck               |-> << "CableCheck" >>,
   PreCharge                |-> << "PreCharge", "PowerDelivery" >>,
   CurrentDemand            |-> << "CurrentDemand", "PowerDelivery" >>,
   WeldingDetection         |-> << "WeldingDetection", "SessionStop" >>]

\* ServiceDiscovery refuses a second request of its own kind itself.
Accepted ==
  LET name == state["secc"].name
  IN Accepts(Expected[name]) \
       (IF name = "ServiceDiscovery" /\ Marked(name, "answered") THEN { name } ELSE {})

Takes(r) == Request(r) /\ r \in Accepted

SessionSetup ==
  /\ Takes("SessionSetup")
  /\ GoOn("SessionSetup", {}, "ServiceDiscovery")
  /\ UNCHANGED se

\* get_services; a response that offers no way to authorize cannot be built.
ServiceDiscovery ==
  /\ Takes("ServiceDiscovery")
  /\ \E eim_authorized \in BOOLEAN, allow_cert_install_service \in BOOLEAN :
       LET options == IF eim_authorized THEN { "EIM" }
                      ELSE { a \in settings.auth : a = "PnC" => settings.tls }
           services == IF settings.tls /\ allow_cert_install_service THEN { "Certificate" } ELSE {}
       IN /\ se' = [se EXCEPT !.offered = options]
          /\ IF options = {} THEN Crash("secc")
             ELSE Remain("ServiceDiscovery", options \union services, {})

\* The EVCC asks for the details of offered services only.
ServiceDetail ==
  /\ Takes("ServiceDetail")
  /\ Remain("ServiceDetail", {}, {})
  /\ UNCHANGED se

PaymentServiceSelection ==
  /\ Takes("PaymentServiceSelection")
  /\ \E a \in wire.info :
       IF a \in se.offered
       THEN Remain("PaymentServiceSelection", {}, {}) /\ se' = [se EXCEPT !.auth = a]
       ELSE Refuse("PaymentServiceSelection") /\ UNCHANGED se

\* Refused for its signature, or when no certificate can be had.
CertificateInstallation ==
  /\ Takes("CertificateInstallation")
  /\ \/ GoOn("CertificateInstallation", {}, "PaymentDetails")
     \/ Refuse("CertificateInstallation")
  /\ UNCHANGED se

\* Refused for the contract certificates, or by is_authorized, whose response
\* code it takes over; that may be OK when the status is REJECTED.
PaymentDetails ==
  /\ Takes("PaymentDetails")
  /\ \/ Refuse("PaymentDetails") /\ UNCHANGED se
     \/ /\ se' = [se EXCEPT !.chain = TRUE]
        /\ \E code \in { "OK", "FAILED" } :
             \/ Respond("PaymentDetails", code, {}, New("Authorization"))
             \/ Last("PaymentDetails", code, FALSE)

CompletesUnlessOngoing(status) == status # "ONGOING"   \* mutant: a rejection completes it
Completes(status) == status = "ACCEPTED"

\* is_authorized is asked until it accepts; the session goes on once the
\* station is ready as well.  The first request of Plug & Charge is verified.
Authorization ==
  LET object == Object("Authorization")
      done == Marked("Authorization", "complete")
      Statuses == IF done THEN { "ONGOING" } ELSE { "ACCEPTED", "ONGOING", "REJECTED" }
  IN /\ Takes("Authorization")
     /\ \/ /\ se.auth = "PnC" /\ (~ se.chain \/ ~ Marked("Authorization", "verified"))
           /\ Refuse("Authorization")
           /\ UNCHANGED se
        \/ \E status \in Statuses, ready_to_charge \in BOOLEAN,
              code \in IF done THEN { "OK" } ELSE { "OK", "FAILED" } :
             LET complete == done \/ Completes(status)
             IN /\ se.auth = "PnC" => se.chain
                /\ se' = [se EXCEPT !.granted = @ \/ status = "ACCEPTED"]
                /\ IF complete /\ ready_to_charge
                   THEN Respond("Authorization", code, { "finished" },
                                New("ChargeParameterDiscovery"))
                   ELSE IF status = "REJECTED" THEN Last("Authorization", code, FALSE)
                   ELSE Respond("Authorization", code, {},
                          [object EXCEPT !.marks = { "verified" } \union
                                                   IF complete THEN { "complete" } ELSE {}])

\* Refused for the energy mode.  validate_sa_schedule_list iterates over the
\* schedules, which fails when there are none yet; an empty list is Ongoing.
ChargeParameterDiscovery ==
  /\ Takes("ChargeParameterDiscovery")
  /\ \/ Refuse("ChargeParameterDiscovery")
     \/ GoOn("ChargeParameterDiscovery", { "finished" },
             IF Ac THEN "PowerDelivery" ELSE "CableCheck")
     \/ Answer("ChargeParameterDiscovery", {}, Object("ChargeParameterDiscovery"))
     \/ "computing" \in settings.quirks /\ Crash("secc")
  /\ UNCHANGED se

\* Refused for the schedule or profile, and for contactors that do not follow.
PowerDelivery ==
  /\ Takes("PowerDelivery")
  /\ \/ Refuse("PowerDelivery") /\ UNCHANGED se
     \/ "Start" \in wire.info /\ \E closed \in BOOLEAN :
          /\ se' = [se EXCEPT !.hlc = TRUE, !.started = @ \/ closed,
                              !.contactor = IF closed THEN "closed" ELSE @]
          /\ IF closed THEN GoOn("PowerDelivery", {}, IF Ac THEN "ChargingStatus"
                                                           ELSE "CurrentDemand")
             ELSE Refuse("PowerDelivery")
     \/ "Stop" \in wire.info /\ \E opened \in BOOLEAN :
          /\ se' = [se EXCEPT !.hlc = FALSE, !.contactor = IF opened THEN "open" ELSE @]
          /\ IF ~ opened THEN Refuse("PowerDelivery")
             ELSE IF Ac THEN GoOn("PowerDelivery", {}, "SessionStop")
             ELSE Remain("PowerDelivery", {}, {})
     \/ "Renegotiate" \in wire.info /\ UNCHANGED se
        /\ IF se.started THEN GoOn("PowerDelivery", {}, "ChargeParameterDiscovery")
           ELSE Refuse("PowerDelivery")

\* The response's status carries the EVSENotification.
ChargingStatus ==
  /\ Takes("ChargingStatus")
  /\ \E notification \in { {}, { "stop" }, { "renegotiate" } } :
       Remain("ChargingStatus", notification, {})
  /\ UNCHANGED se

CableCheck ==
  /\ Takes("CableCheck")
  /\ \E level \in { "VALID", "WARNING" } : CheckCable("CableCheck", { level }, "PreCharge")

PreCharge ==
  /\ Takes("PreCharge")
  /\ Remain("PreCharge", {}, {}) \/ Refuse("PreCharge")
  /\ UNCHANGED se

CurrentDemand ==
  /\ Takes("CurrentDemand")
  /\ \/ \E notification \in { {}, { "stop" } } : Remain("CurrentDemand", notification, {})
     \/ Refuse("CurrentDemand")
  /\ UNCHANGED se

WeldingDetection ==
  /\ Takes("WeldingDetection")
  /\ Remain("WeldingDetection", {}, {})
  /\ UNCHANGED se

\* The EVCC never asks for a pause.
SessionStop ==
  /\ Takes("SessionStop")
  /\ Last("SessionStop", "OK", TRUE)
  /\ UNCHANGED se

Handle ==
  \/ SessionSetup \/ ServiceDiscovery \/ ServiceDetail \/ PaymentServiceSelection
  \/ CertificateInstallation \/ PaymentDetails \/ Authorization \/ ChargeParameterDiscovery
  \/ PowerDelivery \/ ChargingStatus \/ CableCheck \/ PreCharge \/ CurrentDemand
  \/ WeldingDetection \/ SessionStop

Next ==
  /\ protocol["secc"] = ISO2
  /\ Handle \/ OutOfSequence(Accepted)
  /\ UNCHANGED << settings, protocol, ev >>

============================================================================
