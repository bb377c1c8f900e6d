------------------------------ MODULE Iso20Evcc ------------------------------
(* The EVCC's states of ISO 15118-20 (evcc/states/iso15118_20_states.py),   *)
(* one action per state: what it does with the response it waits for.       *)
EXTENDS V2GSession

SessionSetup ==
  /\ Response("SessionSetup")
  /\ Ask("AuthorizationSetup", {})
  /\ UNCHANGED ev

\* A private key that cannot be read costs the certificate installation, or
\* Plug & Charge; a certificate that cannot be loaded raises.  The answer to
\* CertificateInstallation never comes: the SECC does not implement it.
AuthorizationSetup ==
  LET install == "Certificate" \in wire.info /\ settings.install
      Offered(a) == a \in { "EIM" } \union (wire.info \intersect { "PnC" })
  IN /\ Response("AuthorizationSetup")
     /\ \/ /\ install /\ Ask("CertificateInstallation", {})
           /\ UNCHANGED ev
        \/ \E a \in { "EIM", "PnC" } :
             /\ Offered(a)
             /\ Ask("Authorization", { a })
             /\ ev' = [ev EXCEPT !.auth = a]
        \/ /\ install \/ "PnC" \in wire.info
           /\ Crash("evcc")
           /\ UNCHANGED ev

Authorization ==
  LET Repeat(r, info) == Ask(r, { ev.auth })
  IN /\ Response("Authorization")
     /\ IF "finished" \in wire.info
        THEN Ask("ServiceDiscovery", {}) /\ ev' = TimerOff
        ELSE Poll("Authorization", Repeat)

\* The details of every matching service are asked for, one at a time; with
\* none, the session is to end.
ServiceDiscovery ==
  LET known == [ev EXCEPT !.renegotiates = "renegotiates" \in wire.info]
  IN /\ Response("ServiceDiscovery")
     /\ \/ \E more \in BOOLEAN :
             Ask("ServiceDetail", {}) /\ ev' = [known EXCEPT !.more = more]
        \/ /\ Ask("SessionStop", { "Terminate" })
           /\ ev' = [known EXCEPT !.stop = "Terminate"]

\* A service without a control mode ends the session, whose reason is not noted.
ServiceDetail ==
  /\ Response("ServiceDetail")
  /\ \/ ev.more /\ Ask("ServiceDetail", {}) /\ ev' = [ev EXCEPT !.more = FALSE]
     \/ ~ ev.more /\ Ask("ServiceSelection", {}) /\ UNCHANGED ev
     \/ /\ ~ ev.more /\ "modeless" \in settings.quirks
        /\ Ask("SessionStop", { "Terminate" }) /\ UNCHANGED ev

ServiceSelection ==
  /\ Response("ServiceSelection")
  /\ Ask(IF settings.ac THEN "ACChargeParameterDiscovery" ELSE "DCChargeParameterDiscovery", {})
  /\ UNCHANGED ev

ChargeParameterDiscovery(r) ==
  /\ Response(r)
  /\ Ask("ScheduleExchange", {})
  /\ UNCHANGED ev

ACChargeParameterDiscovery == ChargeParameterDiscovery("ACChargeParameterDiscovery")
DCChargeParameterDiscovery == ChargeParameterDiscovery("DCChargeParameterDiscovery")

\* The power profile may not be ready when PowerDelivery asks to start.
StartCharging(current) ==
  \E ready \in BOOLEAN :
    /\ Ask("PowerDelivery", { "Start" } \union IF ready THEN {} ELSE { "computing" })
    /\ ev' = [current EXCEPT !.computing = ~ ready]

\* No timer bounds how often it asks again.
ScheduleExchange ==
  LET enabled == [ev EXCEPT !.enabled = TRUE]
  IN /\ Response("ScheduleExchange")
     /\ IF "finished" \notin wire.info THEN Ask("ScheduleExchange", {}) /\ UNCHANGED ev
        ELSE IF settings.ac THEN StartCharging(enabled)
        ELSE Ask("DCCableCheck", {}) /\ ev' = enabled    \* the profile is asked for again

\* After a stop the session ends, at DC by way of DCWeldingDetection.
PowerDelivery ==
  /\ Response("PowerDelivery")
  /\ \/ ev.computing /\ StartCharging(ev)
     \/ /\ ~ ev.computing /\ ev.stop # "none"
        /\ IF settings.ac THEN Ask("SessionStop", { ev.stop }) ELSE Ask("DCWeldingDetection", {})
        /\ ev' = [ev EXCEPT !.enabled = FALSE]
     \/ /\ ~ ev.computing /\ ev.stop = "none"
        /\ Ask(IF settings.ac THEN "ACChargeLoop" ELSE "DCChargeLoop", {})
        /\ UNCHANGED ev

\* Mutant: the session is stopped without ending the energy transfer first.
StopSession(renegotiation) ==
  /\ Ask("SessionStop", { "Terminate" })
  /\ ev' = [ev EXCEPT !.stop = "Terminate"]

\* stop_v20_charging
StopCharging(renegotiation) ==
  /\ Ask("PowerDelivery", { "Stop" })
  /\ ev' = IF renegotiation
           THEN [ev EXCEPT !.renegotiating = TRUE, !.stop = "ServiceRenegotiation"]
           ELSE [ev EXCEPT !.stop = "Terminate"]

\* A status that asks for neither a renegotiation nor the end raises.
ChargeLoop(r, AskOnce(_, _)) ==
  /\ Response(r)
  /\ \/ "pause" \in wire.info /\ Crash("evcc") /\ UNCHANGED ev
     \/ "renegotiate" \in wire.info /\ StopCharging(TRUE)
     \/ "stop" \in wire.info /\ StopCharging(FALSE)
     \/ /\ wire.info = {}
        /\ StopCharging(FALSE) \/ (AskOnce(r, {}) /\ UNCHANGED ev)

ACChargeLoop == ChargeLoop("ACChargeLoop", Ask)
DCChargeLoop == ChargeLoop("DCChargeLoop", AskAgain)

DCCableCheck ==
  /\ Response("DCCableCheck")
  /\ IF "finished" \in wire.info
     THEN Ask("DCPreCharge", {}) /\ ev' = TimerOff
     ELSE Poll("DCCableCheck", AskAgain)

\* At least one more request is sent, which tells whether the voltage is
\* reached; no timer bounds how many.  is_precharged is asked twice, to decide
\* and to build the request.
DCPreCharge ==
  LET object == state["evcc"]
      Levels == IF "reached" \in object.marks /\ "dips" \notin settings.quirks
                THEN { TRUE } ELSE BOOLEAN
  IN /\ Response("DCPreCharge")
     /\ \/ "asked" \in object.marks /\ StartCharging(ev)
        \/ /\ "asked" \in object.marks => FALSE \in Levels
           /\ \E is_precharged \in Levels :
                LET info == IF is_precharged THEN { "finished" } ELSE {}
                    marks == { "asked" } \union IF is_precharged THEN { "reached" } ELSE {}
                IN /\ Send("secc", Message("req", "DCPreCharge", "OK", info))
                   /\ state' = [state EXCEPT !["evcc"].marks = @ \union marks,
                                             !["evcc"].out = Message("req", "DCPreCharge", "OK", info)]
           /\ UNCHANGED << run, success, ev >>

\* Any message at all is taken for the response (check_msg is not called).
\* The end is asked for as a termination, whatever was decided.
DCWeldingDetection ==
  /\ run["evcc"] = "running" /\ wire.kind = "res" /\ Unchecked
  /\ \/ Overdue /\ EvccStop(FALSE) /\ UNCHANGED ev
     \/ /\ ~ Overdue
        /\ IF "complete" \in state["evcc"].marks THEN Ask("SessionStop", { "Terminate" })
           ELSE \E finished \in BOOLEAN :
                  /\ Send("secc", Message("req", "DCWeldingDetection", "OK", {}))
                  /\ state' = [state EXCEPT
                       !["evcc"].marks = IF finished THEN { "complete" } ELSE {},
                       !["evcc"].out = Message("req", "DCWeldingDetection", "OK", {})]
                  /\ UNCHANGED << run, success >>
        /\ ev' = TimerOn("DCWeldingDetection")

\* Mutant: a renegotiation is overlooked.
SessionStopAnyway ==
  /\ Response("SessionStop")
  /\ IF ev.stop = "none" THEN Crash("evcc") ELSE EvccStop(TRUE)
  /\ UNCHANGED ev

\* Without a noted reason to stop it raises, and so does a renegotiation,
\* which has a next state but no message.
SessionStop ==
  /\ Response("SessionStop")
  /\ IF ev.stop = "none" THEN Crash("evcc") /\ UNCHANGED ev
     ELSE IF ev.renegotiates /\ ev.renegotiating
     THEN Crash("evcc") /\ ev' = [ev EXCEPT !.renegotiating = FALSE]
     ELSE EvccStop(TRUE) /\ UNCHANGED ev

Handle ==
  \/ SessionSetup \/ AuthorizationSetup \/ Authorization
  \/ ServiceDiscovery \/ ServiceDetail \/ ServiceSelection \/ ACChargeParameterDiscovery
  \/ DCChargeParameterDiscovery \/ ScheduleExchange \/ PowerDelivery \/ ACChargeLoop
  \/ DCChargeLoop \/ DCCableCheck \/ DCPreCharge \/ DCWeldingDetection \/ SessionStop

Next ==
  /\ protocol["evcc"] = ISO20
  /\ Handle
  /\ UNCHANGED << settings, protocol, se >>

==============================================================================
