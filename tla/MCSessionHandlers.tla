------------------------- MODULE MCSessionHandlers -------------------------
(* SessionHandlers with the settings that make a difference.                *)
EXTENDS SessionHandlers

SettingOf(evcc, secc, drains) ==
  [use_tls |-> evcc.use, enforce_tls |-> evcc.enforce, secc_enforce_tls |-> secc.enforce,
   ssl_context |-> secc.context, drains |-> drains]

\* Plain TCP, draining or not; TLS; and an SECC without certificates before an
\* EVCC that insists on TLS.
MCConfigs ==
  { SettingOf(s[1], s[2], s[3]) : s \in
      { << [use |-> FALSE, enforce |-> FALSE], [enforce |-> FALSE, context |-> TRUE],  TRUE >>,
        << [use |-> FALSE, enforce |-> FALSE], [enforce |-> FALSE, context |-> TRUE],  FALSE >>,
        << [use |-> TRUE,  enforce |-> FALSE], [enforce |-> TRUE,  context |-> TRUE],  TRUE >>,
        << [use |-> TRUE,  enforce |-> TRUE],  [enforce |-> FALSE, context |-> FALSE], FALSE >> } }

\* Without TLS, on CPython 3.12, which the repository's bytecode is of.
MCDraining == { c \in MCConfigs : c.drains /\ ~ c.use_tls }

============================================================================
