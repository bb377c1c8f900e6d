----------------------------- MODULE SessionSteps -----------------------------
(* The vocabulary of the proofs about ChargingSession: the types, what a    *)
(* step of either end may do, whatever the protocol, and the inductive      *)
(* invariant.  The facts about them are in SeccSteps and EvccSteps.         *)
EXTENDS ChargingSession, TLAPS

-----------------------------------------------------------------------------
(* Types.                                                                    *)

Codes == { "OK", "FAILED", "FAILED_SEQUENCE_ERROR" }
Names == { "none", "SupportedAppProtocol", "SessionSetup", "ServiceDiscovery",
  "ServicePaymentSelection", "ContractAuthentication", "ServiceDetail",
  "PaymentServiceSelection", "CertificateInstallation", "PaymentDetails", "AuthorizationSetup",
  "Authorization", "ServiceSelection", "ChargeParameterDiscovery",
  "ACChargeParameterDiscovery", "DCChargeParameterDiscovery", "ScheduleExchange", "CableCheck",
  "DCCableCheck", "PreCharge", "DCPreCharge", "PowerDelivery", "CurrentDemand",
  "ChargingStatus", "ACChargeLoop", "DCChargeLoop", "WeldingDetection", "DCWeldingDetection",
  "SessionStop" }
Words == Protocols \union
  { "EIM", "PnC", "Certificate", "finished", "VALID", "WARNING", "Start", "Stop",
    "Renegotiate", "computing", "stop", "renegotiate", "pause", "renegotiates", "Terminate",
    "ServiceRenegotiation", "none" }
Marks == { "answered", "closed", "complete", "verified", "asked", "reached" }
Messages == [kind : { "none", "req", "res" }, name : Names, code : Codes, info : SUBSET Words]
Objects == [name : Names, marks : SUBSET Marks, out : Messages]
EvFields == [auth : { "none", "EIM", "PnC" }, enabled : BOOLEAN, timer : Names \union { "off" },
             elapsed : BOOLEAN, stop : { "none", "Terminate", "ServiceRenegotiation" },
             renegotiating : BOOLEAN, complete : BOOLEAN, renegotiates : BOOLEAN,
             more : BOOLEAN, computing : BOOLEAN]
SeFields == [auth : Words, offered : SUBSET { "EIM", "PnC" },
             chain : BOOLEAN, granted : BOOLEAN, judged : BOOLEAN, started : BOOLEAN,
             hlc : BOOLEAN, contactor : { "open", "closed" }, insulated : BOOLEAN]

\* Where the two ends are.
S == state["secc"].name
E == state["evcc"].name
SeccMarked(mark) == mark \in state["secc"].marks
EvccMarked(mark) == mark \in state["evcc"].marks
SeccRuns == run["secc"] = "running"
EvccRuns == run["evcc"] = "running"
Requested == wire.kind = "req"
Granted == wire.kind = "res" /\ wire.code = "OK"
Speaks(p) == protocol["secc"] = p

\* The variables that the operators of V2GSession change.
CoreTyped ==
  /\ wire \in Messages
  /\ state \in [Ends -> Objects]
  /\ run \in [Ends -> { "running", "stopping", "closed" }]
  /\ success \in [Ends -> BOOLEAN]

Typed ==
  /\ settings \in Settings
  /\ CoreTyped
  /\ protocol \in [Ends -> Protocols \union { "UNKNOWN" }]
  /\ ev \in EvFields
  /\ se \in SeFields
  /\ sim \in Counters

-----------------------------------------------------------------------------
(* What the SECC may do.                                                     *)

\* What Object(r) remembers.
Kept(r) == IF S = r THEN state["secc"].marks ELSE {}

\* The response to r is under way, if the EVCC still reads it, and the SECC is
\* in the state name.
Responds(r, code, info, name, marks) ==
  /\ CoreTyped'
  /\ wire'.kind = IF EvccRuns THEN "res" ELSE "none"
  /\ EvccRuns => wire'.name = r /\ wire'.code = code /\ wire'.info = info
  /\ ~ EvccRuns => wire'.code = "OK"
  /\ state'["evcc"] = state["evcc"]
  /\ S' = name /\ state'["secc"].marks = marks

RunsOn == UNCHANGED << run, success >>
SeccStops(ok) ==
  /\ run'["secc"] = "stopping" /\ run'["evcc"] = run["evcc"]
  /\ success'["secc"] = ok /\ success'["evcc"] = success["evcc"]

Proceeds(r, info, name, marks) == Responds(r, "OK", info, name, marks) /\ RunsOn
\* The request is answered in the state, and others may follow from now on.
Stays(r, info) == Proceeds(r, info, r, Kept(r) \union { "answered" })
Finishes(r, code, ok) == Responds(r, code, { "finished" }, r, Kept(r)) /\ SeccStops(ok)
Fails(e) ==
  /\ CoreTyped'
  /\ wire'.kind = "none" /\ wire'.code = "OK" /\ UNCHANGED << state, success >>
  /\ run'[e] = "stopping" /\ run'[Peer(e)] = run[Peer(e)]

-----------------------------------------------------------------------------
(* What the EVCC may do.                                                     *)

\* The request r is under way, if the SECC still reads it, and the EVCC is in
\* the state that waits for the response.
Asks(r, info, marks, out) ==
  /\ CoreTyped'
  /\ wire'.kind = (IF SeccRuns THEN "req" ELSE "none") /\ wire'.code = "OK"
  /\ SeccRuns => wire'.name = r /\ wire'.info = info
  /\ state'["secc"] = state["secc"]
  /\ E' = r /\ state'["evcc"].marks = marks /\ state'["evcc"].out = out
  /\ RunsOn
\* The state asks once more.
AsksAgain(r, info) == Asks(r, info, state["evcc"].marks, Message("req", r, "OK", info))

EvccStops(ok) ==
  /\ run'["evcc"] = "stopping" /\ run'["secc"] = run["secc"]
  /\ success'["evcc"] = ok /\ success'["secc"] = success["secc"]

Leaves(ok) ==
  /\ CoreTyped'
  /\ wire' = IF SeccRuns THEN state["evcc"].out ELSE NoMessage
  /\ EvccStops(ok) /\ UNCHANGED state
Completes == Leaves(TRUE)
GivesUp == Leaves(FALSE)

-----------------------------------------------------------------------------
(* Which requests a state of the SECC takes.                                *)

\* What a state of the SECC takes after its own request.
DinFollows == { << "PreCharge", "PowerDelivery" >>, << "PowerDelivery", "SessionStop" >>,
  << "PowerDelivery", "WeldingDetection" >>, << "CurrentDemand", "PowerDelivery" >>,
  << "WeldingDetection", "SessionStop" >> }

\* ISO 15118-2.
Iso2Follows == { << "ServiceDiscovery", "ServiceDetail" >>,
  << "ServiceDiscovery", "PaymentServiceSelection" >>,
  << "ServiceDetail", "PaymentServiceSelection" >>,
  << "PaymentServiceSelection", "CertificateInstallation" >>,
  << "PaymentServiceSelection", "PaymentDetails" >>,
  << "PaymentServiceSelection", "Authorization" >>,
  << "ChargeParameterDiscovery", "PowerDelivery" >>, << "ChargeParameterDiscovery", "CableCheck" >>,
  << "PowerDelivery", "SessionStop" >>, << "PowerDelivery", "WeldingDetection" >>,
  << "ChargingStatus", "PowerDelivery" >>, << "ChargingStatus", "MeteringReceipt" >>,
  << "PreCharge", "PowerDelivery" >>, << "CurrentDemand", "PowerDelivery" >>,
  << "WeldingDetection", "SessionStop" >> }

\* ISO 15118-20, and what it takes unasked.
Iso20Follows == { << "AuthorizationSetup", "Authorization" >>,
  << "AuthorizationSetup", "CertificateInstallation" >>,
  << "Authorization", "CertificateInstallation" >>, << "Authorization", "ServiceDiscovery" >>,
  << "ServiceDiscovery", "ServiceDetail" >>, << "ServiceDetail", "ServiceSelection" >>,
  << "DCPreCharge", "PowerDelivery" >>, << "DCChargeLoop", "PowerDelivery" >> }
Iso20Lenient == { << "ScheduleExchange", "DCCableCheck" >>,
  << "ScheduleExchange", "PowerDelivery" >>, << "PowerDelivery", "DCWeldingDetection" >>,
  << "ACChargeLoop", "PowerDelivery" >> }

-----------------------------------------------------------------------------
(* The inductive invariant of the session: what holds in every protocol,   *)
(* and what holds of each.                                                  *)

\* A message on the wire is the EVCC's last request or the response to it, and
\* the end it is for listens; what the EVCC would send once more is fit to be.
WireInv ==
  /\ wire.kind # "none" => wire.name = E
  /\ wire.kind # "res" => wire.code = "OK"
  /\ Requested => SeccRuns
  /\ wire.kind = "res" => EvccRuns
  /\ LET out == state["evcc"].out
     IN /\ out.code = "OK"
        /\ out.kind # "none" =>
          /\ out.kind = "req" /\ out.name = E
          /\ out.info \subseteq { "finished" } /\ out.name # "PowerDelivery"

\* The states of the three protocols at the SECC.
DinStates == { "SessionSetup", "ServiceDiscovery", "ServicePaymentSelection",
  "ContractAuthentication", "ChargeParameterDiscovery", "CableCheck", "PreCharge",
  "PowerDelivery", "CurrentDemand", "WeldingDetection", "SessionStop" }
Iso2States == { "SessionSetup", "ServiceDiscovery", "ServiceDetail", "PaymentServiceSelection",
  "CertificateInstallation", "PaymentDetails", "Authorization", "ChargeParameterDiscovery",
  "PowerDelivery", "SessionStop", "ChargingStatus", "CableCheck", "PreCharge", "CurrentDemand",
  "WeldingDetection" }
Iso20States == { "SessionSetup", "AuthorizationSetup", "Authorization", "ServiceDiscovery",
  "ServiceDetail", "ServiceSelection", "ACChargeParameterDiscovery",
  "DCChargeParameterDiscovery", "ScheduleExchange", "DCCableCheck", "DCPreCharge",
  "PowerDelivery", "ACChargeLoop", "DCChargeLoop", "DCWeldingDetection", "SessionStop" }

\* The EVCC speaks the SECC's protocol once it has read what that is.
ProtocolInv ==
  /\ Speaks("UNKNOWN") => ~ se.hlc /\ se.contactor = "open" /\ S = "SupportedAppProtocol"
  /\ Speaks(DIN) => S \in DinStates
  /\ Speaks(ISO2) => S \in Iso2States
  /\ Speaks(ISO20) => S \in Iso20States
  /\ protocol["evcc"] \in { protocol["secc"], "UNKNOWN" }
  /\ protocol["evcc"] = "UNKNOWN" =>
       E = "SupportedAppProtocol" /\ ~ ev.enabled /\ ~ ev.complete /\ ev.stop = "none"
       /\ ~ ev.renegotiating
  /\ E = "SupportedAppProtocol" => protocol["evcc"] = "UNKNOWN"
  /\ Granted /\ E = "SupportedAppProtocol" =>
       wire.info = { protocol["secc"] } /\ ~ Speaks("UNKNOWN")

\* What has ended has ended.
EndInv ==
  /\ success["secc"] => ~ SeccRuns
  /\ success["evcc"] => ~ EvccRuns
  /\ success["evcc"] => success["secc"]

PowerStates == { "CableCheck", "PreCharge", "PowerDelivery", "CurrentDemand", "ChargingStatus",
                 "DCCableCheck", "DCPreCharge", "ACChargeLoop", "DCChargeLoop" }

\* The car is enabled where power may flow, and the timer runs for one phase.
CarEnabled == E \in PowerStates /\ EvccRuns => ev.enabled
CarTimed ==
  protocol["evcc"] # DIN /\ ev.timer # "off" =>
    ev.timer \in TimedPhases /\ (ev.timer = E \/ E = "SessionStop")
CarInv == CarEnabled /\ CarTimed

\* No energy.
Off == ~ se.hlc /\ se.contactor = "open"

GrantedV1 == { "ChargeParameterDiscovery", "CableCheck", "PreCharge", "PowerDelivery",
               "ChargingStatus", "CurrentDemand", "WeldingDetection", "SessionStop" }

\* The EVCC asks for the end.
Stopping == E = "PowerDelivery" /\ (IF Speaks(DIN) THEN ev.complete ELSE ev.stop # "none")

DinAuth == Speaks(DIN) =>
  /\ S \in GrantedV1 => se.granted
  /\ Granted /\ E = "ChargeParameterDiscovery" => se.granted
  /\ se.hlc \/ ev.enabled => se.granted

DinPath == Speaks(DIN) =>
  /\ se.hlc /\ SeccRuns => se.contactor = "closed" /\ se.insulated
  /\ S \in { "PreCharge", "CurrentDemand" } => se.contactor = "closed" /\ se.insulated
  /\ S = "CableCheck" /\ SeccMarked("closed") => se.contactor = "closed"
  /\ S \in { "PowerDelivery", "WeldingDetection", "SessionStop" } /\ SeccRuns => Off
  /\ Granted /\ E = "PreCharge" => S = "PreCharge"
  /\ Requested /\ E = "PowerDelivery" /\ "Start" \in wire.info => S = "PreCharge"
  /\ Granted /\ Stopping => S = "PowerDelivery"
  /\ success["secc"] => Off

DinStop == Speaks(DIN) =>
  /\ Requested /\ Stopping => wire.info = {}
  /\ ev.complete => E \in { "PowerDelivery", "WeldingDetection", "SessionStop" }
  /\ Granted /\ E = "SessionStop" => success["secc"]

ChargesV1 == { "PreCharge", "PowerDelivery", "ChargingStatus", "CurrentDemand",
               "WeldingDetection" }

Iso2Auth == Speaks(ISO2) =>
  /\ S \in GrantedV1 => se.granted
  /\ S = "Authorization" /\ SeccMarked("complete") => se.granted
  /\ Granted /\ E = "ChargeParameterDiscovery" => se.granted
  /\ se.hlc \/ ev.enabled => se.granted

Iso2Path == Speaks(ISO2) =>
  /\ se.hlc /\ SeccRuns => se.contactor = "closed"
  /\ ~ settings.ac /\ (S \in ChargesV1 \/ se.hlc) => se.insulated
  /\ S = "ChargeParameterDiscovery" => ~ SeccMarked("answered")
  /\ SeccRuns /\ (\/ S \in { "SessionStop", "WeldingDetection" }
                  \/ S = "PowerDelivery" /\ SeccMarked("answered")) => Off
  /\ Granted /\ Stopping /\ SeccRuns => Off
  /\ success["secc"] => Off

Iso2Stop == Speaks(ISO2) =>
  /\ Requested /\ Stopping => wire.info = { "Stop" }
  /\ ev.stop # "none" => E \in { "PowerDelivery", "WeldingDetection", "SessionStop" }
  /\ Granted /\ E = "SessionStop" => success["secc"]

Judged20 == { "ServiceDiscovery", "ServiceDetail", "ServiceSelection",
              "ACChargeParameterDiscovery", "DCChargeParameterDiscovery", "ScheduleExchange",
              "DCCableCheck", "DCPreCharge", "PowerDelivery", "ACChargeLoop", "DCChargeLoop",
              "DCWeldingDetection", "SessionStop" }
Charges20 == { "DCPreCharge", "PowerDelivery", "ACChargeLoop", "DCChargeLoop",
               "DCWeldingDetection" }
Before20 == { "SessionSetup", "AuthorizationSetup", "Authorization", "ServiceDiscovery",
              "ServiceDetail", "ServiceSelection", "ACChargeParameterDiscovery",
              "DCChargeParameterDiscovery", "ScheduleExchange" }

Iso20Auth == Speaks(ISO20) =>
  /\ se.hlc \/ ev.enabled => se.judged
  /\ SeccRuns /\ (S \in Judged20 \/ (S = "Authorization" /\ SeccMarked("answered"))) => se.judged
  /\ Granted /\ E = "ScheduleExchange" => se.judged

Iso20Place == Speaks(ISO20) =>
  /\ SeccRuns /\ (se.hlc \/ ev.enabled) => S \in Judged20
  /\ SeccRuns /\ Granted /\ E \in Judged20 => S \in Judged20
  /\ Requested /\ "ServiceRenegotiation" \in wire.info => S \in Judged20
  /\ SeccRuns /\ ev.stop = "ServiceRenegotiation" => S \in Judged20

Iso20Path == Speaks(ISO20) =>
  /\ se.hlc /\ SeccRuns => se.contactor = "closed"
  /\ ~ settings.ac /\ (E \in Charges20 \/ se.hlc) => se.insulated
  /\ ~ settings.ac /\ Granted /\ E = "DCCableCheck" /\ "finished" \in wire.info => se.insulated
  /\ S \in Before20 /\ SeccRuns => Off
  /\ SeccRuns /\ (\/ E \in { "SessionStop", "DCWeldingDetection" }
                  \/ Granted /\ Stopping) => Off
  /\ Granted /\ E \in { "ServiceDiscovery", "ServiceDetail" } => S = E
  /\ success["secc"] => Off

Iso20Stop == Speaks(ISO20) =>
  /\ Requested /\ Stopping => wire.info = { "Stop" }
  /\ Stopping => ~ ev.computing
  /\ E \in { "ACChargeLoop", "DCChargeLoop" } => ~ ev.computing
  /\ ev.stop # "none" => E \in { "PowerDelivery", "DCWeldingDetection", "SessionStop" }

Iso20Told == Speaks(ISO20) =>
  /\ Granted /\ E = "ServiceDiscovery" =>
       ("renegotiates" \in wire.info <=> settings.renegotiates)
  /\ E \in Judged20 \ { "ServiceDiscovery" } => ev.renegotiates = settings.renegotiates

Iso20Again == Speaks(ISO20) =>
  /\ ev.stop = "ServiceRenegotiation" /\ EvccRuns => ev.renegotiating
  /\ Requested /\ "ServiceRenegotiation" \in wire.info => ev.renegotiating

Iso20Ends == Speaks(ISO20) =>
  (Granted /\ E = "SessionStop" =>
     success["secc"] \/ (settings.renegotiates /\ ev.renegotiating))

-----------------------------------------------------------------------------
(* Whose turn it is: without quirks, a request under way is one that the    *)
(* SECC's state takes, because a response under way has left the SECC where *)
(* the EVCC's next request fits.                                            *)

Orderly == settings.quirks = {} /\ SeccRuns /\ EvccRuns
Answered(r) == S = r /\ SeccMarked("answered")

\* Where the SECC is when it has answered E, in the states that hand over at once.
DinNext == { << "SupportedAppProtocol", "SessionSetup" >>,
  << "SessionSetup", "ServiceDiscovery" >>, << "ServiceDiscovery", "ServicePaymentSelection" >>,
  << "ServicePaymentSelection", "ContractAuthentication" >> }
Iso2Next == { << "SupportedAppProtocol", "SessionSetup" >>,
  << "SessionSetup", "ServiceDiscovery" >>, << "CertificateInstallation", "PaymentDetails" >>,
  << "PaymentDetails", "Authorization" >> }
Iso20Next == { << "SupportedAppProtocol", "SessionSetup" >>,
  << "SessionSetup", "AuthorizationSetup" >>,
  << "ACChargeParameterDiscovery", "ScheduleExchange" >>,
  << "DCChargeParameterDiscovery", "ScheduleExchange" >> }

\* Where it is when its processing in the state E is finished.
Advances(r, next) == E = r /\ S = IF "finished" \in wire.info THEN next ELSE r

DinFits == S = E \/ (SeccMarked("answered") /\ << S, E >> \in DinFollows)
DinLeads ==
  \/ << E, S >> \in DinNext
  \/ Advances("ContractAuthentication", "ChargeParameterDiscovery")
  \/ Advances("ChargeParameterDiscovery", "CableCheck")
  \/ Advances("CableCheck", "PreCharge")
  \/ E \in { "PreCharge", "CurrentDemand", "WeldingDetection" } /\ Answered(E)
  \/ E = "PowerDelivery" /\ IF ev.complete THEN Answered(E) ELSE S = "CurrentDemand"

DinTurn == Speaks(DIN) /\ Orderly =>
  /\ Requested => DinFits
  /\ Requested /\ E = "PowerDelivery" /\ ~ ev.complete => "Start" \in wire.info
  /\ wire.kind = "res" => DinLeads

\* The SECC of ISO 15118-2 takes no second ServiceDiscovery.
Iso2Fits ==
  \/ S = E /\ ~ (E = "ServiceDiscovery" /\ SeccMarked("answered"))
  \/ SeccMarked("answered") /\ << S, E >> \in Iso2Follows
Iso2Asks == IF ev.stop # "none" THEN "Stop" ELSE IF ev.renegotiating THEN "Renegotiate" ELSE "Start"
Iso2Leads ==
  \/ << E, S >> \in Iso2Next /\ ~ Answered("ServiceDiscovery")
  \/ Advances("Authorization", "ChargeParameterDiscovery")
  \/ Advances("ChargeParameterDiscovery", IF settings.ac THEN "PowerDelivery" ELSE "CableCheck")
  \/ Advances("CableCheck", "PreCharge")
  \/ /\ E \in { "ServiceDiscovery", "ServiceDetail", "PaymentServiceSelection",
                 "ChargingStatus", "PreCharge", "CurrentDemand", "WeldingDetection" }
     /\ Answered(E)
  \/ /\ E = "PowerDelivery"
     /\ CASE Iso2Asks = "Stop" -> IF settings.ac THEN S = "SessionStop" ELSE Answered(E)
          [] Iso2Asks = "Renegotiate" -> S = "ChargeParameterDiscovery"
          [] Iso2Asks = "Start" -> S = IF settings.ac THEN "ChargingStatus" ELSE "CurrentDemand"

Iso2Turn == Speaks(ISO2) /\ Orderly =>
  /\ Requested => Iso2Fits
  /\ Requested /\ E = "PowerDelivery" => wire.info = { Iso2Asks }
  /\ ev.renegotiating => E = "PowerDelivery" /\ ev.stop = "none"
  /\ wire.kind = "res" => Iso2Leads

\* Of the stops that ISO 15118-20 takes, those this EVCC asks for.
Iso20Fits ==
  \/ S = E
  \/ SeccMarked("answered") /\ << S, E >> \in Iso20Follows
  \/ << S, E >> \in Iso20Lenient
  \/ E = "SessionStop" /\ \/ S = "PowerDelivery"
                          \/ S \in { "ServiceDiscovery", "DCWeldingDetection" } /\ SeccMarked("answered")
Iso20Leads ==
  \/ << E, S >> \in Iso20Next
  \/ E \in { "AuthorizationSetup", "ServiceDiscovery", "ServiceDetail", "DCChargeLoop",
             "DCWeldingDetection" } /\ Answered(E)
  \/ E = "Authorization" /\ S = E /\ ("finished" \in wire.info => SeccMarked("answered"))
  \/ /\ E = "ServiceSelection"
     /\ S = IF settings.ac THEN "ACChargeParameterDiscovery" ELSE "DCChargeParameterDiscovery"
  \/ Advances("ScheduleExchange", IF settings.ac THEN "PowerDelivery" ELSE "ScheduleExchange")
  \/ Advances("DCCableCheck", "DCPreCharge")
  \/ /\ E = "DCPreCharge"
     /\ Answered(E) \/ (S = "PowerDelivery" /\ EvccMarked("asked") /\ EvccMarked("reached"))
  \/ /\ E = "PowerDelivery"
     /\ S = IF ev.computing \/ ev.stop # "none" THEN E
            ELSE IF settings.ac THEN "ACChargeLoop" ELSE "DCChargeLoop"
  \/ E = "ACChargeLoop" /\ S = E
  \/ E = "SessionStop"

Iso20Turn == Speaks(ISO20) /\ Orderly =>
  /\ Requested => Iso20Fits
  /\ Requested /\ E = "PowerDelivery" /\ ev.stop = "none" =>
       wire.info = { "Start" } \union IF ev.computing THEN { "computing" } ELSE {}
  /\ Requested /\ E = "DCPreCharge" /\ "finished" \in wire.info =>
       EvccMarked("asked") /\ EvccMarked("reached")
  /\ wire.kind = "res" => Iso20Leads

NoneRefused == settings.quirks = {} => wire.code # "FAILED_SEQUENCE_ERROR"

-----------------------------------------------------------------------------
(* The whole of it.                                                          *)

DinInv == DinAuth /\ DinPath /\ DinStop /\ DinTurn
Iso2Inv == Iso2Auth /\ Iso2Path /\ Iso2Stop /\ Iso2Turn
Iso20Inv ==
  /\ Iso20Auth /\ Iso20Place /\ Iso20Path /\ Iso20Stop
  /\ Iso20Told /\ Iso20Again /\ Iso20Ends /\ Iso20Turn

IInv ==
  /\ WireInv /\ ProtocolInv /\ EndInv /\ CarInv /\ DinInv /\ Iso2Inv /\ Iso20Inv
  /\ NoneRefused

=============================================================================
