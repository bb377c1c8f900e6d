----------------------------- MODULE SimControllers -----------------------------
(* The two controllers the project ships: SimEVController                   *)
(* (evcc/controller/simulator.py) and SimEVSEController (secc/controller/   *)
(* simulator.py).  The protocol modules leave what a controller answers to  *)
(* choice; where settings.shipped is set, the choices are these.  One       *)
(* SimEVController serves every session of the EVCC and nothing resets its  *)
(* counters, so that a session starts from what others have left over.      *)
EXTENDS V2GSession

CONSTANT Leftovers   \* the counters a session may find

VARIABLE sim         \* SimEVController's counters

\* charges: how often continue_charging will still say yes, for the cycles
\* that are left and a state of charge below 100.
Counters == [charges : Nat, precharges : 0..5, weldings : 0..3]
Unused == [charges |-> 0, precharges |-> 0, weldings |-> 0]

ASSUME LeftoversAssumption == Leftovers \subseteq Counters

SimInit == sim \in IF settings.shipped THEN Leftovers ELSE { Unused }

-----------------------------------------------------------------------------
(* The EV's controller.                                                      *)

\* The EVCC's handler goes on with request r.
GoesOn(r) == state'["evcc"].name = r

\* Mutant: the loop is stopped without counting, and starts anew.
ChargedAnew(s) == s
\* continue_charging, and get_dc_ev_power_delivery_parameter, which calls it.
Charged(s) == [s EXCEPT !.charges = IF @ = 0 THEN 0 ELSE @ - 1]

\* The station's voltage of 1 V never equals the one this EV reports.
IsPrecharged(s) == s.precharges = 5
Precharged(s) == [s EXCEPT !.precharges = IF @ = 5 THEN 5 ELSE @ + 1]
HasWelded(s) == s.weldings = 3
Welded(s) == [s EXCEPT !.weldings = IF @ = 3 THEN 3 ELSE @ + 1]

ChargeLoops == { "CurrentDemand", "ChargingStatus", "ACChargeLoop", "DCChargeLoop" }

Loop(r) ==
  /\ GoesOn(IF sim.charges > 0 THEN r ELSE "PowerDelivery")
  /\ sim' = Charged(sim)

\* DIN SPEC 70121 asks continue_charging on every response to PowerDelivery.
Delivered ==
  IF protocol["evcc"] # DIN THEN UNCHANGED sim
  ELSE /\ GoesOn(IF sim.charges > 0 THEN "CurrentDemand" ELSE "WeldingDetection")
       /\ sim' = Charged(sim)

\* PowerDeliveryReq carries the parameters that use up a charge.
Precharge ==
  IF IsPrecharged(sim) THEN GoesOn("PowerDelivery") /\ sim' = Charged(sim)
  ELSE GoesOn("PreCharge") /\ sim' = Precharged(sim)

\* -20 asks once to decide, and again to build the next request.
Precharge20 ==
  IF IsPrecharged(sim) /\ "asked" \in state["evcc"].marks
  THEN GoesOn("PowerDelivery") /\ UNCHANGED sim
  ELSE /\ GoesOn("DCPreCharge")
       /\ "finished" \in wire'.info <=> IsPrecharged(Precharged(sim))
       /\ sim' = Precharged(Precharged(sim))

Weld ==
  /\ GoesOn(IF HasWelded(sim) THEN "SessionStop" ELSE "WeldingDetection")
  /\ sim' = Welded(sim)
Weld20 ==
  IF "complete" \in state["evcc"].marks THEN UNCHANGED sim
  ELSE /\ "complete" \in state'["evcc"].marks <=> HasWelded(sim)
       /\ sim' = Welded(sim)

\* Every controller call the EVCC's state makes is answered, no certificate is
\* missing and a service fits; process_scheduled_se_params and
\* process_dynamic_se_params say by chance whether they are ready.
SimEVController ==
  LET at == state["evcc"].name
  IN /\ run'["evcc"] = "running" \/ at = "SessionStop" \/ wire.code # "OK"
     /\ at = "ServiceDiscovery" => ~ GoesOn("SessionStop")
     /\ CASE wire.code # "OK" -> UNCHANGED sim
          [] wire.code = "OK" /\ at \in ChargeLoops -> Loop(at)
          [] wire.code = "OK" /\ at = "PowerDelivery" -> Delivered
          [] wire.code = "OK" /\ at = "PreCharge" -> Precharge
          [] wire.code = "OK" /\ at = "DCPreCharge" -> Precharge20
          [] wire.code = "OK" /\ at = "WeldingDetection" -> Weld
          [] wire.code = "OK" /\ at = "DCWeldingDetection" -> Weld20
          [] OTHER -> UNCHANGED sim

-----------------------------------------------------------------------------
(* The station's controller: everyone is authorized, everything is ready at *)
(* once, the contactors follow, the insulation is valid, and the station    *)
(* never asks for anything.                                                 *)

AtOnce == { "Authorization", "ContractAuthentication", "ChargeParameterDiscovery",
            "ScheduleExchange" }
Authorizes == { "Authorization", "ContractAuthentication" }
Offers == { "ServiceDiscovery", "AuthorizationSetup" }

SimEVSEController ==
  LET r == wire.name
      inTurn == wire'.code # "FAILED_SEQUENCE_ERROR"
  IN /\ wire'.kind = "res" /\ wire'.code # "FAILED"
     /\ wire'.info \intersect { "stop", "renegotiate", "pause", "WARNING", "Certificate" } = {}
     /\ inTurn =>
          /\ r \in AtOnce => "finished" \in wire'.info
          /\ r \in Authorizes => se'.granted
          /\ r \in Offers => se'.offered \in { settings.auth, se.offered }
          /\ r \in { "CableCheck", "DCCableCheck" } =>
               IF Marked(r, "closed") THEN "finished" \in wire'.info
               ELSE "closed" \in state'["secc"].marks
     /\ UNCHANGED sim

=============================================================================
