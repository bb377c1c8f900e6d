------------------------------ MODULE Iso20Secc ------------------------------
(* The SECC's states of ISO 15118-20 (secc/states/iso15118_20_states.py),   *)
(* one action per state: what it does with the request it is named after.   *)
EXTENDS V2GSession

Expected ==
  [SessionSetup       |-> << "SessionSetup" >>,
   AuthorizationSetup |-> << "AuthorizationSetup", "Authorization", "CertificateInstallation",
                             "SessionStop" >>,
   Authorization      |-> << "Authorization", "CertificateInstallation", "ServiceDiscovery",
                             "SessionStop" >>,
   ServiceDiscovery   |-> << "ServiceDiscovery", "ServiceDetail", "SessionStop" >>,
   ServiceDetail      |-> << "ServiceDetail", "ServiceSelection", "SessionStop" >>,
   ServiceSelection   |-> << "ServiceSelection", "SessionStop" >>,
   ACChargeParameterDiscovery |-> << "ACChargeParameterDiscovery", "SessionStop" >>,
   DCChargeParameterDiscovery |-> << "DCChargeParameterDiscovery", "SessionStop" >>,
   ScheduleExchange   |-> << "ScheduleExchange", "DCCableCheck", "PowerDelivery",
                             "SessionStop" >>,
   DCCableCheck       |-> << "DCCableCheck", "SessionStop" >>,
   DCPreCharge        |-> << "DCPreCharge", "PowerDelivery" >>,
   PowerDelivery      |-> << "PowerDelivery", "DCWeldingDetection", "SessionStop" >>,
   ACChargeLoop       |-> << "ACChargeLoop", "PowerDelivery", "SessionStop" >>,
   DCChargeLoop       |-> << "DCChargeLoop", "PowerDelivery" >>,
   DCWeldingDetection |-> << "DCWeldingDetection", "SessionStop" >>,
   SessionStop        |-> << "SessionStop" >>]

\* Mutant: PowerDelivery insists on another PowerDelivery.
LenientButDelivery == { "ServiceSelection", "ACChargeParameterDiscovery",
  "DCChargeParameterDiscovery", "ScheduleExchange", "DCCableCheck", "ACChargeLoop", "SessionStop" }

\* The states that never insist on the first (expect_first is False).
Lenient == { "ServiceSelection", "ACChargeParameterDiscovery", "DCChargeParameterDiscovery",
             "ScheduleExchange", "DCCableCheck", "PowerDelivery", "ACChargeLoop", "SessionStop" }

Accepted ==
  LET name == state["secc"].name
  IN IF name \in Lenient THEN { Expected[name][i] : i \in DOMAIN Expected[name] }
                         ELSE Accepts(Expected[name])

Takes(r) == Request(r) /\ r \in Accepted

SessionSetup ==
  /\ Takes("SessionSetup")
  /\ GoOn("SessionSetup", {}, "AuthorizationSetup")
  /\ UNCHANGED se

\* Plug & Charge is offered with or without TLS.
AuthorizationSetup ==
  /\ Takes("AuthorizationSetup")
  /\ \E eim_authorized \in BOOLEAN, allow_cert_install_service \in BOOLEAN :
       LET options == IF eim_authorized THEN { "EIM" } ELSE settings.auth
           services == IF allow_cert_install_service THEN { "Certificate" } ELSE {}
       IN /\ Remain("AuthorizationSetup", options \union services, {})
          /\ se' = [se EXCEPT !.offered = options]

\* Raises NotImplementedError.
CertificateInstallation ==
  /\ Takes("CertificateInstallation")
  /\ Crash("secc")
  /\ UNCHANGED se

\* Refused for its signature; otherwise is_authorized decides.  ACCEPTED and
\* REJECTED both finish the authorization, with whatever code came along.
Authorization ==
  /\ Takes("Authorization")
  /\ \/ /\ "PnC" \in wire.info
        /\ Refuse("Authorization")
        /\ se' = [se EXCEPT !.auth = "PnC"]
     \/ \E a \in wire.info, status \in { "ACCEPTED", "ONGOING", "REJECTED" },
           code \in { "OK", "FAILED" } :
          /\ se' = [se EXCEPT !.auth = a, !.granted = status = "ACCEPTED",
                              !.judged = status # "ONGOING"]
          /\ IF status = "ONGOING"
             THEN Respond("Authorization", code, {}, New("Authorization"))
             ELSE Respond("Authorization", code, { "finished" },
                    [New("Authorization") EXCEPT !.marks = { "answered" }])

ServiceDiscovery ==
  /\ Takes("ServiceDiscovery")
  /\ Remain("ServiceDiscovery", IF settings.renegotiates THEN { "renegotiates" } ELSE {}, {})
  /\ UNCHANGED se

\* A service that was not offered is answered FAILED, and the state stays.
ServiceDetail ==
  /\ Takes("ServiceDetail")
  /\ \E code \in { "OK", "FAILED" } :
       Respond("ServiceDetail", code, {},
               [Object("ServiceDetail") EXCEPT !.marks = @ \union { "answered" }])
  /\ UNCHANGED se

\* Refused for a parameter set that was not offered.
ServiceSelection ==
  /\ Takes("ServiceSelection")
  /\ \/ GoOn("ServiceSelection", {}, IF Ac THEN "ACChargeParameterDiscovery"
                                           ELSE "DCChargeParameterDiscovery")
     \/ Refuse("ServiceSelection")
  /\ UNCHANGED se

ChargeParameterDiscovery(r) ==
  /\ Takes(r)
  /\ GoOn(r, {}, "ScheduleExchange") \/ Refuse(r)
  /\ UNCHANGED se

ACChargeParameterDiscovery == ChargeParameterDiscovery("ACChargeParameterDiscovery")
DCChargeParameterDiscovery == ChargeParameterDiscovery("DCChargeParameterDiscovery")

\* Refused for parameters of the other control mode; finished once the
\* station is ready to charge.
ScheduleExchange ==
  /\ Takes("ScheduleExchange")
  /\ \/ Refuse("ScheduleExchange")
     \/ Answer("ScheduleExchange", {}, Object("ScheduleExchange"))
     \/ Answer("ScheduleExchange", { "finished" },
               IF Ac THEN New("PowerDelivery") ELSE Object("ScheduleExchange"))
  /\ UNCHANGED se

\* While the EV still computes its power profile, it is only answered.
PowerDelivery ==
  /\ Takes("PowerDelivery")
  /\ \/ /\ "computing" \in wire.info
        /\ Answer("PowerDelivery", {}, Object("PowerDelivery"))
        /\ UNCHANGED se
     \/ /\ "computing" \notin wire.info /\ "Start" \in wire.info
        /\ Refuse("PowerDelivery")           \* for the selected schedule
        /\ UNCHANGED se
     \/ "computing" \notin wire.info /\ "Start" \in wire.info /\ \E closed \in BOOLEAN :
          /\ se' = [se EXCEPT !.hlc = closed, !.started = @ \/ closed,
                              !.contactor = IF closed THEN "closed" ELSE @]
          /\ IF closed THEN GoOn("PowerDelivery", {}, IF Ac THEN "ACChargeLoop"
                                                           ELSE "DCChargeLoop")
             ELSE Refuse("PowerDelivery")
     \/ "Stop" \in wire.info /\ \E opened \in BOOLEAN :
          /\ se' = [se EXCEPT !.hlc = FALSE, !.contactor = IF opened THEN "open" ELSE @]
          /\ IF opened THEN Answer("PowerDelivery", {}, Object("PowerDelivery"))
             ELSE Refuse("PowerDelivery")

\* get_evse_status: none, or a notification, of which the EVCC knows two.
Statuses == { {}, { "renegotiate" }, { "stop" }, { "pause" } }

ACChargeLoop ==
  /\ Takes("ACChargeLoop")
  /\ \E status \in Statuses : Answer("ACChargeLoop", status, Object("ACChargeLoop"))
  /\ UNCHANGED se

DCChargeLoop ==
  /\ Takes("DCChargeLoop")
  /\ (\E status \in Statuses : Remain("DCChargeLoop", status, {})) \/ Refuse("DCChargeLoop")
  /\ UNCHANGED se

DCCableCheck ==
  /\ Takes("DCCableCheck")
  /\ CheckCable("DCCableCheck", {}, "DCPreCharge")

\* The EV says when it is precharged.
DCPreCharge ==
  /\ Takes("DCPreCharge")
  /\ IF "finished" \in wire.info THEN GoOn("DCPreCharge", {}, "PowerDelivery")
     ELSE Remain("DCPreCharge", {}, {}) \/ Refuse("DCPreCharge")
  /\ UNCHANGED se

DCWeldingDetection ==
  /\ Takes("DCWeldingDetection")
  /\ Remain("DCWeldingDetection", {}, {})
  /\ UNCHANGED se

\* A renegotiation goes back to ServiceDiscovery in the same session.
SessionStop ==
  /\ Takes("SessionStop")
  /\ IF "ServiceRenegotiation" \in wire.info /\ settings.renegotiates
     THEN GoOn("SessionStop", { "finished" }, "ServiceDiscovery")
     ELSE Last("SessionStop", "OK", TRUE)
  /\ UNCHANGED se

Handle ==
  \/ SessionSetup \/ AuthorizationSetup \/ CertificateInstallation \/ Authorization
  \/ ServiceDiscovery \/ ServiceDetail \/ ServiceSelection \/ ACChargeParameterDiscovery
  \/ DCChargeParameterDiscovery \/ ScheduleExchange \/ PowerDelivery \/ ACChargeLoop
  \/ DCChargeLoop \/ DCCableCheck \/ DCPreCharge \/ DCWeldingDetection \/ SessionStop

Next ==
  /\ protocol["secc"] = ISO20
  /\ Handle \/ OutOfSequence(Accepted)
  /\ UNCHANGED << settings, protocol, ev >>

==============================================================================
