-------------------------- MODULE SessionHandlers --------------------------
(* The EVCC's and the SECC's session handler, one of each, with the network *)
(* between them.                                                            *)
EXTENDS EvccHandler, SeccHandler

vars == << linkVars, evccVars, seccVars >>

Init == LinkInit /\ EvccInit /\ SeccInit

\* Nothing is under way at the EVCC that could wake its handler.
Stranded ==
  /\ evcc_pc = "idle"
  /\ evcc_queue = << >>
  /\ \A c \in DOMAIN connections : connections[c].evcc = "closed"

\* The EVCC follows an SDP response; the connection is made only while the
\* SECC's TCP server listens.
Connect(connected) ==
  /\ connected => listening /\ Len(connections) < MaxConnections
  /\ connected \/ ~ listening \/ SecurityMismatch \/ Len(connections) = MaxConnections
  /\ ProcessSdpResponse(connected)
  /\ IF connected /\ ~ SecurityMismatch THEN ClientConnected(Len(connections) + 1)
                                        ELSE UNCHANGED seccVars

\* A handler that is free takes a connection or the end of a session at once:
\* the 5 s of stop() do not pass before.
Prompt == secc_task = Idle /\ secc_queue # << >> => Head(secc_queue).kind = "udp"

EvccStep ==
  \/ StartSdp
  \/ DatagramReceived
  \/ ErrorReceived
  \/ Receive
  \/ ProcessOtherPacket
  \/ ProcessTimeout
  \/ \E successful \in BOOLEAN : ProcessStop(successful)
  \/ \E c \in DOMAIN connections, successful \in BOOLEAN :
       Prompt /\ EvccCloses(c, successful)
  \/ \E c \in DOMAIN connections : EvccStops(c)

SeccStep ==
  \/ RequestReceived
  \/ RelayRequest
  \/ HandleNotice
  \/ ServerClosed
  \/ HandleTcpClient
  \/ \E c \in DOMAIN connections, ending \in {"failed", "terminate", "pause"} :
       SeccStops(c, ending)
  \/ \E c \in DOMAIN connections : Prompt /\ SeccCloses(c)

EvccNext == EvccStep /\ UNCHANGED seccVars
SeccNext == SeccStep /\ UNCHANGED evccVars
NetworkNext ==
  \/ (LoseRequest \/ LoseResponse) /\ UNCHANGED << evccVars, seccVars >>
  \/ \E connected \in BOOLEAN : Connect(connected)

Next == EvccNext \/ SeccNext \/ NetworkNext

\* The event loops run what is ready, SDP waits and message waits time out,
\* and a session's 5 s pass; the network and the sockets owe nothing.
Fairness ==
  /\ WF_vars(EvccStep /\ ~ DatagramReceived /\ ~ ErrorReceived /\ UNCHANGED seccVars)
  /\ WF_vars(\E connected \in BOOLEAN : Connect(connected))
  /\ WF_vars((RelayRequest \/ HandleNotice \/ ServerClosed \/ HandleTcpClient)
             /\ UNCHANGED evccVars)
  /\ \A c \in 1..MaxConnections :
       /\ WF_vars(c \in DOMAIN connections /\ Prompt /\ SeccCloses(c)
                  /\ UNCHANGED evccVars)
       /\ WF_vars(c \in DOMAIN connections /\ SeccStops(c, "failed")
                  /\ UNCHANGED evccVars)

Spec == Init /\ [][Next]_vars /\ Fairness

----------------------------------------------------------------------------
(* Properties                                                               *)

\* Every field holds a value of its kind.
TypeOK ==
  /\ config \in Configs
  /\ requests \in Nat /\ responses \in Nat
  /\ connections \in Seq(Connection) /\ Len(connections) <= MaxConnections
  /\ evcc_pc \in {"starting", "idle", "polling", "awaiting", "ended", "crashed"}
  /\ udp_started \in BOOLEAN
  /\ evcc_queue \in Seq(Notification)
  /\ udp_inbox \in Seq({"response"} \cup Garbled)
  /\ sdp_retries_number \in 0..SDP_MAX_REQUEST_COUNTER
  /\ sdp_retry_cycles \in 0..SdpRetryCycles
  /\ comm_session \in 0..Len(connections)
  /\ udp_received \in Nat
  /\ pause_server \in BOOLEAN /\ listening \in BOOLEAN
  /\ comm_sessions \in 0..Len(connections)

\* The connections whose EVCC end has yet to notify the handler.
EvccSessions == { c \in DOMAIN connections : connections[c].evcc # "closed" }

\* The EVCC's handler is owed at most one notification, however late answers,
\* timeouts, retries and session ends mix: it never runs two sessions, never
\* has two SDP requests to answer, and a StopNotification always finds the
\* session it ends, so that "del self.comm_session" is never read again.
EvccOneAtATime ==
  /\ \A c, d \in EvccSessions : c = d
  /\ evcc_pc \in {"starting", "polling", "awaiting"} => evcc_queue = << >> /\ EvccSessions = {}
  /\ evcc_queue # << >> => Len(evcc_queue) = 1 /\ EvccSessions = {}
  /\ evcc_pc = "idle" /\ (EvccSessions # {} \/ evcc_queue \in
                            {<< "stop_successful" >>, << "stop_failed" >>})
       => comm_session # 0

\* The end of session c is still to reach the SECC's handler.
EndToCome(c) ==
  \/ connections[c].secc \in {"live", "stopping"}
  \/ \E i \in DOMAIN secc_queue : secc_queue[i].kind = "stop" /\ secc_queue[i].c = c
  \/ secc_task.kind = "stop" /\ secc_task.c = c

\* Whenever the SECC ignores SDP requests, a session is registered whose end is
\* still to come and will resume them, also when the ends of earlier sessions
\* come late and find nothing or another session registered.
PausedForSession ==
  pause_server => comm_sessions # 0 /\ EndToCome(comm_sessions)

\* The EVCC's retries end: its handler comes to rest, ended or with nothing left
\* to wake it, whatever is lost and however often sessions fail.  The one place
\* it never leaves is send_sdp's loop, and only after an error of the UDP socket.
EvccComesToRest ==
  <>[](\/ evcc_pc \in {"ended", "crashed"}
       \/ Stranded
       \/ evcc_pc = "polling" /\ ~ udp_started)

\* The SECC becomes available again after every session, where closing the TCP
\* server does not wait for its connections.
SeccAvailableAgain == (pause_server /\ ~ config.drains) ~> ~ pause_server

----------------------------------------------------------------------------
(* What a comment of the code says, and the code does not do.               *)

\* udp_server.py:204 "called once an existing TCP connection is terminated":
\* the SECC becomes available again after every session.
ResumedAfterTermination == pause_server ~> ~ pause_server

============================================================================
