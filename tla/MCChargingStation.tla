------------------------- MODULE MCChargingStation -------------------------
(* ChargingStation with the station's events.                               *)
EXTENDS ChargingStation, FsmConfig

\* A shorter process: connect, charge, disconnect.
ShortList == << "Bosta", "AracBaglandi", "SarjEdiliyor", "SarjTamamlandi" >>
ShortStates == { ShortList[i] : i \in 1..4 } \cup {"Error"}
ShortTransitions ==
  << Arc("Bosta", "connect_vehicle", "AracBaglandi"),
     Arc("AracBaglandi", "start_charging", "SarjEdiliyor"),
     Arc("SarjEdiliyor", "charging_complete", "SarjTamamlandi"),
     Arc("SarjTamamlandi", "disconnect", "Bosta") >>
  \o [i \in 1..4 |-> Arc(ShortList[i], "error_occurred", "Error")]

\* Every event of the table but error_occurred.
MCEvents == { NormalTransitions[i].trigger : i \in DOMAIN NormalTransitions }
            \cup {"reset_error"}

NoErrors == [m \in {} |-> {}]

============================================================================
