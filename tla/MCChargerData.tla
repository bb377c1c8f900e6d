--------------------------- MODULE MCChargerData ---------------------------
EXTENDS ChargerData

\* No departure, less than a day, just over three days, more days than an
\* EV's profile has entries, and more than a tariff has.
MCDepartures == {0, 1000, 3 * Day + 100, 25 * Day, 103 * Day}

\* Profiles that change at or between the slots, and end with nothing.
Increasing(starts) == { s \in starts : \A i \in 1..(Len(s) - 1) : s[i] < s[i + 1] }
ProfilesOf(starts, most) ==
  { [i \in 1..(Len(s) + 1) |->
       [start |-> IF i = 1 THEN 0 ELSE s[i - 1],
        power |-> IF i = Len(s) + 1 THEN 0 ELSE w[i]]] :
    s \in UNION { Increasing([1..n -> starts]) : n \in 1..most },
    w \in [1..most -> {7000, 11000}] }
\* Up to three entries within the first two slots, and up to five anywhere.
MCProfiles == ProfilesOf({Day \div 2, Day, 2 * Day}, 2)
MCAllProfiles == ProfilesOf({Day \div 2, Day, 2 * Day, 3 * Day, 3 * Day + 100}, 4)

Limits(c, d, c2, d2) == [charge |-> c, discharge |-> d, charge2 |-> c2, discharge2 |-> d2]
Ten == Number(10, 0)
MCShipped == Limits(Ten, Ten, Ten, Ten)
\* Charging with a fraction that does not fit, discharging with a charge
\* limit left on the second phase, one direction left open, and nothing.
MCAcLimits ==
  { Limits(Number(400015, 1), Number(0, 0), Number(70005, 1), None),
    Limits(Number(0, 0), Number(40001, 0), Ten, Number(123456, 3)),
    Limits(None, Ten, None, Ten),
    Limits(Number(0, 0), Number(0, 0), Ten, Ten) }
============================================================================
