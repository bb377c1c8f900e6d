----------------------------- MODULE FsmConfig -----------------------------
(* The two tables the station is configured with,                           *)
(* Client/config/fsm_states.xml and Client/config/pda_errors.xml.  State    *)
(* names are the XML's, without their diacritics:                           *)
(*   Bosta               idle, no vehicle                                   *)
(*   AracBaglandi        vehicle connected                                  *)
(*   SertifikaDogrulama  certificate verification                           *)
(*   KimlikDogrulandi    identity verified                                  *)
(*   SarjEdiliyor        charging                                           *)
(*   SarjTamamlandi      charging completed                                 *)
(*   OdemeOnayi          payment confirmation                               *)
(*   OdemeAlindi         payment received                                   *)
EXTENDS Naturals, Sequences

\* The <state> elements, in file order; the loader starts in the first.
StateList == << "Bosta", "AracBaglandi", "SertifikaDogrulama",
                "KimlikDogrulandi", "SarjEdiliyor", "SarjTamamlandi",
                "OdemeOnayi", "OdemeAlindi", "Error" >>

XmlStates  == { StateList[i] : i \in DOMAIN StateList }
XmlInitial == StateList[1]

Arc(from, event, to) ==
  [source |-> from, trigger |-> event, destination |-> to]

\* The "Normal transitions", in file order.
NormalTransitions ==
  << Arc("Bosta", "send_service_discovery", "Bosta"),
     Arc("Bosta", "connect_vehicle", "AracBaglandi"),
     Arc("AracBaglandi", "start_cert_check", "SertifikaDogrulama"),
     Arc("SertifikaDogrulama", "auth_ok", "KimlikDogrulandi"),
     Arc("KimlikDogrulandi", "start_charging", "SarjEdiliyor"),
     Arc("SarjEdiliyor", "charging_complete", "SarjTamamlandi"),
     Arc("SarjTamamlandi", "start_payment", "OdemeOnayi"),
     Arc("OdemeOnayi", "payment_complete", "OdemeAlindi"),
     Arc("OdemeAlindi", "disconnect", "Bosta") >>

\* The "Error transitions": from every other state (Bosta is listed twice).
ErrorTransitions ==
  << Arc("Bosta", "error_occurred", "Error") >>
  \o [i \in 1..8 |-> Arc(StateList[i], "error_occurred", "Error")]
  \o << Arc("Error", "reset_error", "Bosta") >>

XmlTransitions == NormalTransitions \o ErrorTransitions

\* error message -> the states in which the operator may inject it.
XmlErrorRules ==
  [ReaderFailure        |-> {"SertifikaDogrulama"},
   OtherError           |-> {"OdemeOnayi"},
   EVCommunicationError |-> XmlStates,
   ConnectorLockFailure |-> {"AracBaglandi", "SarjEdiliyor"}]

XmlMessages == DOMAIN XmlErrorRules

============================================================================
