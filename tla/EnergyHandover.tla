--------------------------- MODULE EnergyHandover ---------------------------
(* What a charging session promises of the energy, whatever the protocol:   *)
(* the car is ready before the path is closed, the path closed before the   *)
(* station controls the charging, and the car goes off only after it.  Only *)
(* an end that has left the session frees the other from this order.        *)

VARIABLES
  car,       \* the car is ready to take energy
  path,      \* the contactors are closed
  station,   \* the station controls a charging
  left       \* the ends that have left the session

vars == << car, path, station, left >>

Init == car = FALSE /\ path = FALSE /\ station = FALSE /\ left = {}

Leave == left' \in { left, left \union {"car"}, left \union {"station"} }

CarReady ==
  /\ car' = TRUE
  /\ UNCHANGED << path, station, left >>

ClosePath ==
  /\ car \/ "car" \in left
  /\ path' = TRUE
  /\ UNCHANGED << car, station, left >>

\* A station whose contactors do not follow leaves the session.
Start ==
  /\ car \/ "car" \in left
  /\ station' = TRUE
  /\ path' \in { TRUE, path }
  /\ Leave
  /\ path' \/ "station" \in left'
  /\ UNCHANGED car

\* The contactors open, or the station leaves the session.
Stop ==
  /\ station' = FALSE
  /\ path' \in { FALSE, path }
  /\ Leave
  /\ path' => "station" \in left'
  /\ UNCHANGED car

CarOff ==
  /\ ~ station \/ left # {}
  /\ car' = FALSE
  /\ UNCHANGED << path, station, left >>

GiveUp ==
  /\ Leave
  /\ UNCHANGED << car, path, station >>

Next == CarReady \/ ClosePath \/ Start \/ Stop \/ CarOff \/ GiveUp

Spec == Init /\ [][Next]_vars

============================================================================
