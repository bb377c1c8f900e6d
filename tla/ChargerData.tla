---------------------------- MODULE ChargerData ----------------------------
(* What the SECC's controller keeps of its EVs and of itself, and what it   *)
(* makes of it: secc/controller/interface.py, simulator.py, ev_data.py and  *)
(* evse_data.py, as the protocol states of DIN 70121, ISO 15118-2 and -20   *)
(* use them.  Both data contexts live as long as the controller: nothing    *)
(* calls reset_ev_data_context, so that a session finds in them what        *)
(* sessions before it left.  A value an EV has sent is told apart only by   *)
(* when it came: "unset", "before" this session or "now".                   *)
EXTENDS SaSchedule, ExponentValue

CONSTANTS Departures,  \* departure times an EV asks for; 0 for none given
          Profiles,    \* charging profiles of EVs other than this project's
          AcLimits,    \* AC limits set from outside, records of AcLimit
          Shipped      \* the AC limits the controller starts with

ASSUME DeparturesAssumption == Departures \subseteq Nat /\ 0 \in Departures
\* What an EV that keeps to the protocol sends; no code checks the order.
ASSUME ProfilesAssumption ==
  \A profile \in Profiles : profile \in Seq(ProfileEntry) /\ InOrder(profile)

VARIABLES session,   \* the session being served, with what its EV has asked
          phase,     \* where the session is
          ev,        \* ev_data_context
          evse,      \* evse_data_context
          wanted,    \* the AC limits set last from outside, for the properties
          offered,   \* comm_session.offered_schedules, of ISO 15118-2
          delivery,  \* the profile the last PowerDeliveryReq brought
          out        \* what the last request made the controller do

vars == <<session, phase, ev, evse, wanted, offered, delivery, out>>

Services == {"AC", "DC", "AC_BPT", "DC_BPT"}
Kinds ==
  [protocol : {"DIN"}, service : {"DC"}, control : {"none"}] \cup
  [protocol : {"ISO2"}, service : {"AC", "DC"}, control : {"none"}] \cup
  [protocol : {"ISO20"}, service : Services, control : {"Scheduled", "Dynamic"}]

IsAC == session.service \in {"AC", "AC_BPT"}
IsBpt == session.service \in {"AC_BPT", "DC_BPT"}

Stamps == {"unset", "before", "now"}
Aged(stamp) == IF stamp = "now" THEN "before" ELSE stamp

\* A power of EVSEACCLLimits: None, or a number.
None == [n |-> 0, p |-> -1]
NoLimits == [charge |-> None, discharge |-> None, charge2 |-> None, discharge2 |-> None]

\* A limit is a finite number, and the second phase's are the most it may
\* charge and discharge: the direction is told by the limit that is set and
\* never by a sign.
ASSUME LimitsAssumption ==
  \A limits \in AcLimits \cup {Shipped} :
    /\ \A x \in {limits.charge, limits.discharge, limits.charge2, limits.discharge2} :
         x = None \/ (x.n \in Int /\ x.p \in Nat)
    /\ limits.charge2.n >= 0 /\ limits.discharge2.n >= 0

NoOutput == [kind |-> "none"]
NoDelivery == [kind |-> "none"]
NoSession == [protocol |-> "none"]

Init ==
  /\ session = NoSession
  /\ phase = "idle"
  /\ ev = [departure |-> 0, voltage |-> "unset", current |-> "unset",
           ac |-> "unset", dc |-> "unset"]
  /\ evse = [type |-> "none", ac |-> Shipped, shared |-> FALSE, discharge |-> TRUE,
             needs |-> "unset"]
  /\ wanted = Shipped
  /\ offered = <<>>
  /\ delivery = NoDelivery
  /\ out = NoOutput

-----------------------------------------------------------------------------
(* Sessions begin and end; both contexts stay. *)

Begin(kind) ==
  /\ phase = "idle"
  /\ session' = [protocol |-> kind.protocol, service |-> kind.service,
                 control |-> kind.control, asked |-> 0, exchanged |-> FALSE,
                 needs |-> FALSE, started |-> FALSE]
  /\ phase' = "Discovery"
  /\ ev' = [ev EXCEPT !.voltage = Aged(@), !.current = Aged(@), !.ac = Aged(@),
                      !.dc = Aged(@)]
  /\ evse' = [evse EXCEPT !.needs = Aged(@)]
  /\ offered' = <<>>
  /\ delivery' = NoDelivery
  /\ out' = NoOutput
  /\ UNCHANGED wanted

Over ==
  /\ session' = NoSession
  /\ phase' = "idle"
  /\ offered' = <<>>

\* A session may end in any state: stopped, failed, timed out or cut.
End ==
  /\ phase # "idle"
  /\ Over
  /\ delivery' = NoDelivery
  /\ out' = NoOutput
  /\ UNCHANGED <<ev, evse, wanted>>

\* A smart charging application sets the limits of the object in use.
SetLimits(limits) ==
  /\ evse' = [evse EXCEPT !.ac = limits]
  /\ wanted' = limits
  /\ delivery' = NoDelivery
  /\ out' = NoOutput
  /\ UNCHANGED <<session, phase, ev, offered>>

-----------------------------------------------------------------------------
(* ChargeParameterDiscovery *)

\* Mutant: a departure time an earlier EV gave stands in for one not given.
KeptDeparture(d) == IF d = 0 THEN ev.departure ELSE d
\* update_ac_charge_parameters_v2 and update_dc_charge_parameters take over
\* the message's departure time, given or not.
NewDeparture(d) == d

DiscoverV2(d) ==
  LET schedule == SaScheduleList(NewDeparture(d))
  IN /\ phase = "Discovery" /\ session.protocol = "ISO2"
     /\ ev' = [ev EXCEPT !.departure = NewDeparture(d),
                         !.ac = IF IsAC THEN "now" ELSE @,
                         !.dc = IF IsAC THEN @ ELSE "now"]
     /\ evse' = [evse EXCEPT !.type = IF IsAC THEN "AC" ELSE "DC"]
     /\ delivery' = NoDelivery
     /\ IF Encodable(schedule)
        THEN /\ session' = [session EXCEPT !.asked = d]
             /\ offered' = schedule
             /\ phase' = IF IsAC THEN "Delivery" ELSE "PreCharge"
             /\ out' = NoOutput
        ELSE Over /\ out' = [kind |-> "raised", by |-> "schedule"]
     /\ UNCHANGED wanted

DiscoverDIN ==
  /\ phase = "Discovery" /\ session.protocol = "DIN"
  /\ ev' = [ev EXCEPT !.dc = "now"]
  /\ evse' = [evse EXCEPT !.type = "DC"]
  /\ phase' = "PreCharge"
  /\ delivery' = NoDelivery
  /\ out' = NoOutput
  /\ UNCHANGED <<session, wanted, offered>>

\* Mutant: every DC discovery makes AC limits of its own.
FreshLimits(e) == [e EXCEPT !.ac = NoLimits, !.shared = TRUE]
\* EVSESessionLimits() in update_dc_charge_parameters_v20: the AC limits are
\* the default argument, one object for every call, which is empty until
\* something is set in it.
ReplacedLimits(e) == [e EXCEPT !.ac = IF e.shared THEN @ ELSE NoLimits, !.shared = TRUE]

\* Mutant: the discharge limits are updated, not made anew, and once gone
\* have nothing to be updated from.
UpdatedDischarge(e) == e.discharge /\ IsBpt
\* The DC limits are new ones, with those of discharging in a BPT session.
NewDischarge(e) == IsBpt

DiscoverV20 ==
  /\ phase = "Discovery" /\ session.protocol = "ISO20"
  /\ ev' = [ev EXCEPT !.ac = IF IsAC THEN "now" ELSE @, !.dc = IF IsAC THEN @ ELSE "now"]
  /\ evse' = IF IsAC THEN [evse EXCEPT !.type = "AC"]
             ELSE [ReplacedLimits(evse) EXCEPT !.type = "DC", !.discharge = NewDischarge(evse)]
  /\ phase' = "Schedules"
  /\ delivery' = NoDelivery
  /\ out' = NoOutput
  /\ UNCHANGED <<session, wanted, offered>>

-----------------------------------------------------------------------------
(* ScheduleExchange of -20: departure time d, answered as finished or not, *)
(* with mobility needs from the controller or without                      *)

\* The needs are taken over with the answer that ends the exchange.
NeedsTaken(ready) == ready

ScheduleExchange(d, ready, given) ==
  LET dynamic == session.control = "Dynamic"
      taken == NeedsTaken(ready) /\ dynamic /\ given
  IN /\ phase = "Schedules"
     /\ ev' = [ev EXCEPT !.departure = IF d = 0 THEN @ ELSE d]
     /\ evse' = [evse EXCEPT !.needs = IF taken THEN "now" ELSE @]
     /\ session' = [session EXCEPT !.exchanged = @ \/ ready,
                                   !.needs = IF ready THEN dynamic /\ given ELSE @]
     /\ phase' = IF ready /\ IsAC THEN "Delivery" ELSE phase
     /\ delivery' = NoDelivery
     /\ out' = NoOutput
     /\ UNCHANGED <<wanted, offered>>

-----------------------------------------------------------------------------
(* PreCharge and the DC charge loops: send_charging_command *)

Command(voltage, current, isPrecharge) ==
  [kind |-> "command", voltage |-> voltage, current |-> current,
   precharge |-> isPrecharge, phase |-> phase]

\* The present or the target current is above 2 A: the session fails.
PreCharge(tooHigh) ==
  /\ phase \in {"PreCharge", "Precharged"} /\ session.protocol \in {"DIN", "ISO2"}
  /\ ev' = [ev EXCEPT !.voltage = "now", !.current = "now"]
  /\ delivery' = NoDelivery
  /\ IF tooHigh THEN Over /\ out' = NoOutput
     ELSE /\ phase' = "Precharged"
          /\ out' = Command("now", "now", TRUE)
          /\ UNCHANGED <<session, offered>>
  /\ UNCHANGED <<evse, wanted>>

PreChargeV20(finished) ==
  /\ phase \in {"Schedules", "Precharged"} /\ session.protocol = "ISO20" /\ ~ IsAC
  /\ ev' = [ev EXCEPT !.voltage = "now"]
  /\ phase' = IF finished THEN "Delivery" ELSE "Precharged"
  /\ out' = IF finished THEN NoOutput ELSE Command("now", "zero", TRUE)
  /\ delivery' = NoDelivery
  /\ UNCHANGED <<session, evse, wanted, offered>>

CurrentDemand ==
  /\ phase = "Loop" /\ session.protocol \in {"DIN", "ISO2"} /\ ~ IsAC
  /\ ev' = [ev EXCEPT !.voltage = "now", !.current = "now"]
  /\ out' = Command("now", "now", FALSE)
  /\ delivery' = NoDelivery
  /\ UNCHANGED <<session, phase, evse, wanted, offered>>

\* Mutant: the context's targets are passed on in either control mode.
AnyTarget(control, stamp) == stamp
\* In Dynamic mode the charger gets no targets.
LoopTarget(control, stamp) == IF control = "Scheduled" THEN stamp ELSE "none"

\* The third argument of send_charging_command is is_precharge, and the loop
\* passes is_session_bpt there.  In Dynamic mode the loop's answer carries the
\* needs, and in a BPT session must carry discharge limits.
DCChargeLoop ==
  LET scheduled == session.control = "Scheduled"
      next == IF scheduled THEN [ev EXCEPT !.voltage = "now", !.current = "now"] ELSE ev
  IN /\ phase = "Loop" /\ session.protocol = "ISO20" /\ ~ IsAC
     /\ ev' = next
     /\ delivery' = NoDelivery
     /\ IF IsBpt /\ ~ scheduled /\ ~ evse.discharge
        THEN Over /\ out' = [kind |-> "raised", by |-> "DC"]
        ELSE /\ out' = Command(LoopTarget(session.control, next.voltage),
                               LoopTarget(session.control, next.current), IsBpt)
             /\ UNCHANGED <<session, phase, offered>>
     /\ UNCHANGED <<evse, wanted>>

-----------------------------------------------------------------------------
(* PowerDelivery, and the AC charge loop of -20 *)

Start ==
  /\ phase' = "Loop"
  /\ session' = [session EXCEPT !.started = TRUE]
  /\ UNCHANGED offered

\* A start of DIN 70121 or -20, or one of -2 without a profile.  In Scheduled
\* mode a schedule must have been offered.
Deliver ==
  /\ phase \in {"Precharged", "Delivery", "Loop"} \cup
               (IF session.protocol = "ISO20" THEN {"Schedules"} ELSE {})
  /\ IF session.control = "Scheduled" /\ ~ session.exchanged THEN Over ELSE Start
  /\ delivery' = NoDelivery
  /\ out' = NoOutput
  /\ UNCHANGED <<ev, evse, wanted>>

\* The parameters are discovered again once charging has started.
Rediscover ==
  IF session.started THEN phase' = "Discovery" /\ UNCHANGED <<session, offered>> ELSE Over

\* [V2G2-225]: in -2 a profile is checked first, whichever of the progresses it
\* comes with.
DeliverProfile(profile, own, progresses) ==
  LET valid == ProfileValid(profile, offered)
  IN /\ phase \in {"Precharged", "Delivery", "Loop"} /\ session.protocol = "ISO2"
     /\ IF ~ valid THEN Over
        ELSE \/ "Start" \in progresses /\ Start
             \/ "Stop" \in progresses /\ Over
             \/ "Renegotiate" \in progresses /\ Rediscover
     /\ delivery' = [kind |-> "profile", own |-> own, profile |-> profile,
                     schedule |-> offered, accepted |-> valid]
     /\ out' = NoOutput
     /\ UNCHANGED <<ev, evse, wanted>>

\* This project's EV sends a profile of its own in AC only, to start.
DeliverOwn ==
  /\ phase \in {"Delivery", "Loop"} /\ session.protocol = "ISO2" /\ IsAC
  /\ Len(OwnProfile(offered)) <= MaxProfileEntries
  /\ DeliverProfile(OwnProfile(offered), TRUE, {"Start"})

Renegotiate ==
  /\ phase \in {"Precharged", "Delivery", "Loop"} /\ session.protocol = "ISO2"
  /\ Rediscover
  /\ delivery' = NoDelivery
  /\ out' = NoOutput
  /\ UNCHANGED <<ev, evse, wanted>>

Positive(x) == x # None /\ x.n > 0
Given(x) == x # None /\ x.n # 0
Negative(x) == Number(-x.n, x.p)

\* None is compared with 0 when there is no charge limit, and when there is
\* no discharge limit and charging is limited to nothing.
Raises(limits) ==
  \/ limits.charge = None
  \/ ~ Positive(limits.charge) /\ limits.discharge = None

DischargeMode(limits) == ~ Positive(limits.charge) /\ Positive(limits.discharge)

\* get_target_power_limits: charging goes before discharging.
ActivePower(limits) ==
  IF Positive(limits.charge) THEN limits.charge
  ELSE IF DischargeMode(limits) THEN Negative(limits.discharge) ELSE Number(0, 0)

\* get_phase_power_limits: the other phases go the first one's way.
PhasePower(limits) ==
  IF DischargeMode(limits)
  THEN IF Given(limits.discharge2) THEN Negative(limits.discharge2) ELSE None
  ELSE IF Given(limits.charge2) THEN limits.charge2 ELSE None

NoTarget == [exponent |-> 0, value |-> 0]

ACChargeLoop(d) ==
  /\ phase = "Loop" /\ session.protocol = "ISO20" /\ IsAC
  /\ ev' = [ev EXCEPT !.departure =
                        IF session.control = "Dynamic" /\ d # 0 THEN d ELSE @]
  /\ delivery' = NoDelivery
  /\ IF Raises(evse.ac)
     THEN Over /\ out' = [kind |-> "raised", by |-> "AC"]
     ELSE /\ out' = [kind |-> "targets",
                     active |-> ExponentValue(ActivePower(evse.ac)),
                     active2 |-> LET x == PhasePower(evse.ac)
                                 IN IF x = None THEN NoTarget ELSE ExponentValue(x)]
          /\ UNCHANGED <<session, phase, offered>>
  /\ UNCHANGED <<evse, wanted>>

-----------------------------------------------------------------------------
Next ==
  \/ \E kind \in Kinds : Begin(kind)
  \/ End
  \/ \E limits \in AcLimits : SetLimits(limits)
  \/ \E d \in Departures : DiscoverV2(d)
  \/ DiscoverDIN
  \/ DiscoverV20
  \/ \E d \in Departures, ready \in BOOLEAN, given \in BOOLEAN :
       ScheduleExchange(d, ready, given)
  \/ \E tooHigh \in BOOLEAN : PreCharge(tooHigh)
  \/ \E finished \in BOOLEAN : PreChargeV20(finished)
  \/ CurrentDemand
  \/ DCChargeLoop
  \/ Deliver
  \/ \E profile \in Profiles :
       DeliverProfile(profile, FALSE, {"Start", "Stop", "Renegotiate"})
  \/ DeliverOwn
  \/ Renegotiate
  \/ \E d \in Departures : ACChargeLoop(d)

Spec == Init /\ [][Next]_vars

-----------------------------------------------------------------------------
(* Properties *)

\* The variables' types; a schedule offered is one the messages can hold.
TypeOK ==
  /\ phase \in {"idle", "Discovery", "Schedules", "PreCharge", "Precharged",
                "Delivery", "Loop"}
  /\ IF phase = "idle" THEN session = NoSession
     ELSE session \in [protocol : {"DIN", "ISO2", "ISO20"}, service : Services,
                       control : {"none", "Scheduled", "Dynamic"}, asked : Departures,
                       exchanged : BOOLEAN, needs : BOOLEAN, started : BOOLEAN]
  /\ ev \in [departure : Departures, voltage : Stamps, current : Stamps,
             ac : Stamps, dc : Stamps]
  /\ evse \in [type : {"none", "AC", "DC"}, ac : AcLimits \cup {Shipped, NoLimits},
               shared : BOOLEAN, discharge : BOOLEAN, needs : Stamps]
  /\ wanted \in AcLimits \cup {Shipped}
  /\ Len(offered) <= MaxTariffEntries
  /\ delivery.kind \in {"none", "profile"}
  /\ out.kind \in {"none", "command", "targets", "raised"}

\* Although nothing resets the contexts between sessions, no command or
\* target sent to the charger rests on what an earlier session left: the
\* targets are this EV's, and so are the limits and the kind of current the
\* contexts hold by then (send_charging_command, get_ac_charge_loop_params_v20).
NothingStaleIsUsed ==
  /\ out.kind = "command" =>
       /\ out.voltage \in {"now", "none"} /\ out.current \in {"now", "zero", "none"}
       /\ ev.dc = "now" /\ evse.type = "DC"
  /\ out.kind = "targets" => ev.ac = "now" /\ evse.type = "AC"

\* What -2 offers is a schedule for the time this EV gave and no other's,
\* after other sessions and after renegotiations: from the start, slot after
\* slot, to the departure, or for a day at least ([V2G2-304], get_sa_schedule_list).
OfferFitsRequest ==
  offered # <<>> /\ phase # "Discovery" =>
    /\ offered[1].start = 0
    /\ \A i \in 1..(Len(offered) - 1) : offered[i].start < offered[i + 1].start
    /\ offered[Len(offered)].start < EndOf(offered, Len(offered))
    /\ IF session.asked = 0 THEN EndOf(offered, Len(offered)) >= Day
       ELSE EndOf(offered, Len(offered)) = session.asked

\* The profile this project's EV makes of an offer keeps to it, and the
\* SECC's check accepts it (process_sa_schedules_v2, _is_charging_profile_valid).
OwnProfileAccepted ==
  delivery.kind = "profile" /\ delivery.own =>
    delivery.accepted /\ Adheres(delivery.profile, delivery.schedule)

\* A profile of another EV, its entries in order, that the check lets through
\* keeps to the first two slots of the offer.
FirstSlotsWatched ==
  delivery.kind = "profile" /\ delivery.accepted =>
    AdheresTo(delivery.profile, delivery.schedule, {1, 2} \cap DOMAIN delivery.schedule)

\* [V2G2-225], as the comment in PowerDelivery states it: a profile that is
\* accepted does not exceed the power of any slot.
AcceptedProfileAdheres ==
  delivery.kind = "profile" /\ delivery.accepted =>
    Adheres(delivery.profile, delivery.schedule)

\* A target of the AC loop never exceeds the limit it comes from, whatever
\* is cut off to fit it into an int16; a charge limit set is never answered
\* with discharging, and no phase is told to run against the other
\* (get_target_power_limits, get_phase_power_limits, get_exponent_value_repr).
TargetsWithinLimits ==
  out.kind = "targets" =>
    /\ out.active.value * out.active2.value >= 0
    /\ IF Positive(evse.ac.charge)
       THEN out.active.value >= 0 /\ NotAbove(out.active, evse.ac.charge)
       ELSE out.active.value <= 0 /\ NotAbove(out.active, evse.ac.discharge)

\* The Dynamic loop of a BPT session finds its discharge limits, whatever sessions
\* without them came before (update_dc_charge_parameters_v20).
DischargeLimitsThere == out.kind = "raised" => out.by # "DC"

\* The needs in a Dynamic loop's answer are this session's once its exchange
\* has finished with needs (update_schedule_exchange_parameters).
NeedsOfThisSession == phase # "idle" /\ session.needs => evse.needs = "now"

\* AC limits set from outside are lost to the first DC discovery of -20, the
\* one that puts the shared default in place of the object they were set in;
\* once it is there, they stay until others are set.
LimitsLostOnce == [][evse.shared /\ evse.ac = wanted => evse'.ac = wanted']_vars

============================================================================
