---------------------------- MODULE SeccHandler ----------------------------
(* secc/comm_session_handler.py with its UDP server (secc/transport/        *)
(* udp_server.py) and TCP server (tcp_server.py), for one EVCC and hence    *)
(* one peer address.  An SDP request (re)starts the TCP server; a TCP       *)
(* connection pauses the UDP server and registers a session; the end of a   *)
(* session closes the TCP server and resumes the UDP server.                *)
EXTENDS V2GLink

CONSTANT StartFailures   \* subset of BOOLEAN: may the TCP server fail to start

ASSUME SeccAssumption == StartFailures \subseteq BOOLEAN

VARIABLES
  secc_task,       \* notification waiting for the TCP server to close, Idle if none
  secc_queue,      \* notifications for the handler
  udp_received,    \* requests the UDP server has taken in, before its rcv_task
  pause_server,    \* UDPServer.pause_server
  listening,       \* whether the TCP server accepts connections
  comm_sessions    \* the registered session: its connection, 0 for none

seccVars == << secc_task, secc_queue, udp_received, pause_server, listening, comm_sessions >>

\* A notification: what it is, its connection, and how the session ended.
Notice(kind, c, action) == [kind |-> kind, c |-> c, action |-> action]
Idle == Notice("idle", 0, "none")

SeccInit ==
  /\ secc_task = Idle
  /\ secc_queue = << >>
  /\ udp_received = 0
  /\ pause_server = FALSE
  /\ listening = FALSE
  /\ comm_sessions = 0

\* UDPServer.datagram_received: dropped while paused.
RequestReceived ==
  /\ requests > 0
  /\ requests' = requests - 1
  /\ udp_received' = IF pause_server THEN udp_received ELSE udp_received + 1
  /\ UNCHANGED << config, responses, connections, secc_task, secc_queue, pause_server,
                  listening, comm_sessions >>

\* UDPServer.rcv_task.
RelayRequest ==
  /\ udp_received > 0
  /\ udp_received' = udp_received - 1
  /\ secc_queue' = Append(secc_queue, Notice("udp", 0, "none"))
  /\ UNCHANGED << linkVars, secc_task, pause_server, listening, comm_sessions >>

\* start_tcp_server once the old server is closed, and the response, which is
\* sent whether or not the new one came up.
Respond ==
  /\ \E fails \in StartFailures : listening' = ~ fails
  /\ responses' = responses + 1
  /\ UNCHANGED << config, requests, connections, pause_server, comm_sessions >>

\* Mutant: only the registered session's end resumes the UDP server.
EndSessionOwnOnly(c, action) ==
  /\ listening' = FALSE
  /\ comm_sessions' = IF action = "terminate" THEN 0 ELSE comm_sessions
  /\ pause_server' = IF comm_sessions = c THEN FALSE ELSE pause_server
  /\ UNCHANGED linkVars

\* end_current_session once the TCP server is closed: what is registered under
\* the address goes, whichever session it is, unless the charge is paused; if
\* nothing is, a KeyError skips the rest.
EndSession(c, action) ==
  /\ listening' = FALSE
  /\ comm_sessions' = IF action = "terminate" THEN 0 ELSE comm_sessions
  /\ pause_server' = IF comm_sessions # 0 THEN FALSE ELSE pause_server
  /\ UNCHANGED linkVars

Finish(notice) == IF notice.kind = "udp" THEN Respond
                                         ELSE EndSession(notice.c, notice.action)

\* Connections of the asyncio server that are not closed at this end; TLS
\* closes with the peer, plain TCP only when a session does.
OpenConnections ==
  { c \in DOMAIN connections : /\ connections[c].secc # "closed"
                               /\ ~ (IsTls /\ connections[c].evcc = "closed") }

\* get_from_rcv_queue takes an SDP request or the end of a session: both
\* close the TCP server first, which may have to wait for its connections.
HandleNotice ==
  LET notice == Head(secc_queue)
  IN  /\ secc_task = Idle
      /\ secc_queue # << >>
      /\ notice.kind \in {"udp", "stop"}
      /\ secc_queue' = Tail(secc_queue)
      /\ UNCHANGED udp_received
      /\ IF config.drains /\ listening /\ OpenConnections # {}
         THEN /\ secc_task' = notice
              /\ listening' = FALSE
              /\ UNCHANGED << linkVars, pause_server, comm_sessions >>
         ELSE Finish(notice) /\ UNCHANGED secc_task

\* The TCP server is closed, its last connection gone.
ServerClosed ==
  /\ secc_task # Idle
  /\ OpenConnections = {}
  /\ secc_task' = Idle
  /\ Finish(secc_task)
  /\ UNCHANGED << secc_queue, udp_received >>

\* TCPClientNotification: the new session replaces the registered one.
HandleTcpClient ==
  LET c == Head(secc_queue).c
  IN  /\ secc_task = Idle
      /\ secc_queue # << >>
      /\ Head(secc_queue).kind = "tcp"
      /\ secc_queue' = Tail(secc_queue)
      /\ pause_server' = TRUE
      /\ comm_sessions' = c
      /\ connections' = [connections EXCEPT ![c].secc = "live"]
      /\ UNCHANGED << config, requests, responses, secc_task, udp_received, listening >>

\* TCPServer.__call__ for a new connection.
ClientConnected(c) ==
  /\ secc_queue' = Append(secc_queue, Notice("tcp", c, "none"))
  /\ UNCHANGED << secc_task, udp_received, pause_server, listening, comm_sessions >>

\* The session's stop(): after a SessionStop while the EVCC still listens, or
\* because of a failure or a timeout.
SeccStops(c, ending) ==
  /\ connections[c].secc = "live"
  /\ ending # "failed" => connections[c].evcc = "live"
  /\ connections' = [connections EXCEPT ![c].secc = "stopping", ![c].ending = ending]
  /\ UNCHANGED << config, requests, responses, seccVars >>

\* After 5 s the connection is closed and the handler notified.
SeccCloses(c) ==
  /\ connections[c].secc = "stopping"
  /\ connections' = [connections EXCEPT ![c].secc = "closed"]
  /\ secc_queue' = Append(secc_queue, Notice("stop", c,
                     IF connections[c].ending = "pause" THEN "pause" ELSE "terminate"))
  /\ UNCHANGED << config, requests, responses, secc_task, udp_received, pause_server,
                  listening, comm_sessions >>

============================================================================
