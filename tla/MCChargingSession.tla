------------------------- MODULE MCChargingSession -------------------------
EXTENDS ChargingSession

Config(offered, supported, tls, ac, auth, install, renegotiates, quirks) ==
  [offered |-> offered, supported |-> supported, tls |-> tls, ac |-> ac, auth |-> auth,
   install |-> install, renegotiates |-> renegotiates, quirks |-> quirks, shipped |-> FALSE]

\* The example configurations under shared/examples, with their controllers.
ShippedConfig(p, ac, auth, quirks) ==
  [Config(<< p >>, Protocols, p = ISO20, ac, auth, FALSE, FALSE, quirks) EXCEPT !.shipped = TRUE]

\* Every protocol with AC and DC, with and without TLS, Plug & Charge and
\* certificate installation, with well-behaved controllers and with all quirks,
\* and two ends that have no protocol in common.
MCSettings ==
  { Config(<< ISO20, ISO2, DIN >>, {DIN}, FALSE, FALSE, {"EIM"}, FALSE, FALSE, {}),
    Config(<< DIN >>, {DIN}, FALSE, FALSE, {"EIM"}, FALSE, FALSE, Quirks),
    Config(<< ISO2 >>, {ISO2}, FALSE, TRUE, {"EIM"}, FALSE, FALSE, {}),
    Config(<< ISO2 >>, {ISO2}, TRUE, TRUE, {"EIM", "PnC"}, TRUE, FALSE, {}),
    Config(<< ISO2 >>, {ISO2}, FALSE, FALSE, {"PnC"}, FALSE, FALSE, {}),
    Config(<< ISO20, ISO2 >>, {DIN, ISO2}, TRUE, FALSE, {"EIM", "PnC"}, FALSE, FALSE, {}),
    Config(<< ISO2 >>, {ISO2}, TRUE, FALSE, {"EIM", "PnC"}, FALSE, FALSE, Quirks),
    Config(<< ISO2 >>, {ISO2}, FALSE, TRUE, {"EIM"}, FALSE, FALSE, Quirks),
    Config(<< ISO20 >>, Protocols, TRUE, TRUE, {"EIM", "PnC"}, TRUE, TRUE, {}),
    Config(<< ISO20 >>, Protocols, TRUE, FALSE, {"EIM", "PnC"}, FALSE, FALSE, {}),
    Config(<< ISO20 >>, Protocols, FALSE, FALSE, {"EIM"}, FALSE, TRUE, Quirks),
    Config(<< ISO20 >>, Protocols, FALSE, TRUE, {"EIM"}, FALSE, FALSE, Quirks),
    Config(<< ISO2 >>, {DIN}, FALSE, TRUE, {"EIM"}, FALSE, FALSE, {}),
    ShippedConfig(DIN, FALSE, {"EIM"}, {"quits"}),
    ShippedConfig(ISO2, TRUE, {"EIM"}, {}),
    ShippedConfig(ISO2, FALSE, {"EIM"}, {}),
    ShippedConfig(ISO20, TRUE, {"EIM"}, {}),
    ShippedConfig(ISO20, FALSE, {"EIM"}, {}) }

\* No charge left, one, too few for DIN SPEC 70121, and enough; the other two
\* counters as at the start, half-way and at their ends.
MCLeftovers ==
  [charges : 0..3, precharges : { 0, 2, 5 }, weldings : { 0, 3 }]
============================================================================
