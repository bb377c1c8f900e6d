------------------------------ MODULE V2GLink -------------------------------
(* What lies between the two ISO 15118 session handlers: SDP datagrams over *)
(* UDP, which may be lost, late or garbled, and TCP connections, each with  *)
(* the communication session at either end (shared/comm_session.py),        *)
(* reduced to how it lives and stops.                                       *)
EXTENDS Naturals, Sequences

CONSTANTS
  Configs,         \* settings the two programs may be started with
  Garbled,         \* what else than an SDP response a datagram may look like
  MaxConnections   \* bound on the TCP connections ever made

Setting == [use_tls : BOOLEAN, enforce_tls : BOOLEAN,   \* of the EVCC
            secc_enforce_tls : BOOLEAN,   \* of the SECC
            ssl_context : BOOLEAN,   \* whether the SECC has usable certificates
            drains : BOOLEAN]        \* asyncio.Server.wait_closed waits for the
                                     \* server's connections (CPython >= 3.12)

ASSUME LinkAssumption ==
  /\ Configs \subseteq Setting
  /\ Garbled \subseteq {"invalid", "other", "wireless"}
  /\ MaxConnections \in Nat

VARIABLES
  config,        \* the settings, never changed
  requests,      \* SDP requests under way
  responses,     \* SDP responses under way
  connections    \* [evcc, secc, ending]: the two ends of each connection

linkVars == << config, requests, responses, connections >>

\* An end is "live" while its rcv_loop serves it, "stopping" during stop()
\* and "closed" after it; the SECC's is "accepted" before it has a session.
\* ending says how the SECC's session ended.
Connection == [evcc : {"live", "stopping", "closed"},
               secc : {"accepted", "live", "stopping", "closed"},
               ending : {"none", "failed", "terminate", "pause"}]

LinkInit ==
  /\ config \in Configs
  /\ requests = 0
  /\ responses = 0
  /\ connections = << >>

\* Whether the TCP server the SECC starts speaks TLS: asked for by the
\* request or its own setting, and possible.
IsTls == (config.use_tls \/ config.secc_enforce_tls) /\ config.ssl_context

LoseRequest  == requests > 0  /\ requests' = requests - 1
                /\ UNCHANGED << config, responses, connections >>
LoseResponse == responses > 0 /\ responses' = responses - 1
                /\ UNCHANGED << config, requests, connections >>

============================================================================
