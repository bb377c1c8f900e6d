---------------------------- MODULE EvccHandler ----------------------------
(* evcc/comm_session_handler.py with its UDP client                         *)
(* (evcc/transport/udp_client.py): find the SECC by SDP, connect, run one   *)
(* session, start over when it fails.  Whatever the handler starts answers  *)
(* with one notification in its queue: an SDP request with the packet or a  *)
(* timeout, a session with its end.  Nothing else wakes the handler, and an *)
(* error at the UDP socket stops it for good when it next has to send.      *)
EXTENDS V2GLink

CONSTANTS
  SDP_MAX_REQUEST_COUNTER,   \* requests in a cycle, 50 in the code
  SdpRetryCycles             \* EVCCConfig.sdp_retry_cycles, 1 by default

ASSUME EvccAssumption ==
  /\ SDP_MAX_REQUEST_COUNTER \in Nat \ {0}
  /\ SdpRetryCycles \in Nat

VARIABLES
  evcc_pc,             \* "starting", "idle" at the queue, "polling" the UDP client
                       \* until it is started, "awaiting" an SDP answer, "ended",
                       \* or "crashed" by an exception
  evcc_queue,          \* notifications for the handler
  udp_started,         \* UDPClient.started, from connection_made on
  udp_inbox,           \* datagrams the UDP client has received, oldest first
  sdp_retries_number,
  sdp_retry_cycles,
  comm_session         \* connection of the session, 0 for none (None, deleted)

evccVars == << evcc_pc, evcc_queue, udp_started, udp_inbox, sdp_retries_number,
               sdp_retry_cycles, comm_session >>

Notification == {"response", "invalid", "other", "wireless", "timeout",
                 "stop_successful", "stop_failed"}

\* send_sdp up to the wait for the answer.  It first waits for the client to be
\* started, which it never is again after an error; an error of this very sendto
\* goes to error_received, and the answer is waited for all the same.
SendSdp ==
  \/ /\ udp_started
     /\ evcc_pc' = "awaiting"
     /\ \/ requests' = requests + 1 /\ UNCHANGED udp_started
        \/ udp_started' = FALSE /\ UNCHANGED requests
  \/ /\ ~ udp_started
     /\ evcc_pc' = "polling"
     /\ UNCHANGED << requests, udp_started >>

\* Mutant: a new cycle is not counted.
RestartSdpUncounted(new_sdp_cycle, failed) ==
  IF new_sdp_cycle \/ sdp_retries_number > 0
  THEN /\ sdp_retries_number' = IF new_sdp_cycle THEN SDP_MAX_REQUEST_COUNTER
                                                ELSE sdp_retries_number
       /\ SendSdp
       /\ UNCHANGED sdp_retry_cycles
  ELSE /\ sdp_retries_number' = SDP_MAX_REQUEST_COUNTER
       /\ evcc_pc' = failed
       /\ UNCHANGED << sdp_retry_cycles, requests, udp_started >>

\* restart_sdp, up to the wait for the answer; "failed" is what the handler
\* does after SDPFailedError.
RestartSdp(new_sdp_cycle, failed) ==
  LET retries == IF new_sdp_cycle THEN SDP_MAX_REQUEST_COUNTER ELSE sdp_retries_number
  IN  \/ /\ IF new_sdp_cycle THEN sdp_retry_cycles > 0 ELSE retries > 0
         /\ sdp_retry_cycles' = IF new_sdp_cycle THEN sdp_retry_cycles - 1
                                                 ELSE sdp_retry_cycles
         /\ sdp_retries_number' = retries
         /\ SendSdp
      \/ /\ new_sdp_cycle /\ sdp_retry_cycles = 0
         /\ evcc_pc' = failed
         /\ UNCHANGED << sdp_retries_number, sdp_retry_cycles, requests, udp_started >>
      \/ /\ ~ new_sdp_cycle /\ retries = 0
         /\ sdp_retries_number' = SDP_MAX_REQUEST_COUNTER
         /\ evcc_pc' = failed
         /\ UNCHANGED << sdp_retry_cycles, requests, udp_started >>

EvccInit ==
  /\ evcc_pc = "starting"
  /\ evcc_queue = << >>
  /\ udp_started = TRUE
  /\ udp_inbox = << >>
  /\ sdp_retries_number = SDP_MAX_REQUEST_COUNTER
  /\ sdp_retry_cycles = SdpRetryCycles
  /\ comm_session = 0

\* start_session_handler's third task, restart_sdp(True); without a cycle its
\* SDPFailedError ends the handler.
StartSdp ==
  /\ evcc_pc = "starting"
  /\ RestartSdp(TRUE, "ended")
  /\ UNCHANGED << config, responses, connections, evcc_queue, udp_inbox, comm_session >>

\* datagram_received, for the SECC's response or what has become of it.
DatagramReceived ==
  /\ responses > 0
  /\ responses' = responses - 1
  /\ \E kind \in {"response"} \cup Garbled : udp_inbox' = Append(udp_inbox, kind)
  /\ UNCHANGED << config, requests, connections, evcc_pc, evcc_queue, udp_started,
                  sdp_retries_number, sdp_retry_cycles, comm_session >>

\* error_received: an OSError at the UDP socket, which stays open.
ErrorReceived ==
  /\ udp_started
  /\ udp_started' = FALSE
  /\ UNCHANGED << linkVars, evcc_pc, evcc_queue, udp_inbox, sdp_retries_number,
                  sdp_retry_cycles, comm_session >>

\* Mutant: a datagram and the timeout of its request are both notified.
ReceiveAlsoTimesOut ==
  /\ evcc_pc = "awaiting"
  /\ evcc_pc' = "idle"
  /\ sdp_retries_number' = sdp_retries_number - 1
  /\ IF udp_inbox # << >>
     THEN /\ evcc_queue' = evcc_queue \o << Head(udp_inbox), "timeout" >>
          /\ udp_inbox' = Tail(udp_inbox)
     ELSE /\ evcc_queue' = Append(evcc_queue, "timeout")
          /\ UNCHANGED udp_inbox
  /\ UNCHANGED << linkVars, udp_started, sdp_retry_cycles, comm_session >>

\* UDPClient.receive: the oldest datagram, which may answer an earlier
\* request, or none within 250 ms; then the rest of restart_sdp.
Receive ==
  /\ evcc_pc = "awaiting"
  /\ evcc_pc' = "idle"
  /\ sdp_retries_number' = sdp_retries_number - 1
  /\ IF udp_inbox # << >>
     THEN /\ evcc_queue' = Append(evcc_queue, Head(udp_inbox))
          /\ udp_inbox' = Tail(udp_inbox)
     ELSE /\ evcc_queue' = Append(evcc_queue, "timeout")
          /\ UNCHANGED udp_inbox
  /\ UNCHANGED << linkVars, udp_started, sdp_retry_cycles, comm_session >>

\* What get_from_rcv_queue takes from the queue.
Takes(notification) ==
  /\ evcc_pc = "idle"
  /\ evcc_queue # << >>
  /\ Head(evcc_queue) = notification
  /\ evcc_queue' = Tail(evcc_queue)
  /\ UNCHANGED udp_inbox

\* The security the response signals is not the one configured.
SecurityMismatch == \/ ~ IsTls /\ config.enforce_tls
                    \/ IsTls /\ ~ config.use_tls

\* start_comm_session: connects, which the SECC may refuse (nothing happens
\* then), and starts the session with the SupportedAppProtocolReq.
StartCommSession(connected) ==
  /\ comm_session' = IF connected THEN Len(connections) + 1 ELSE comm_session
  /\ connections' = IF connected
                    THEN Append(connections, [evcc |-> "live", secc |-> "accepted",
                                              ending |-> "none"])
                    ELSE connections

\* process_incoming_udp_packet of an SDP response.
ProcessSdpResponse(connected) ==
  /\ Takes("response")
  /\ IF SecurityMismatch THEN UNCHANGED << comm_session, connections >>
                         ELSE StartCommSession(connected)
  /\ UNCHANGED << config, requests, responses, evcc_pc, udp_started, sdp_retries_number,
                  sdp_retry_cycles >>

\* process_incoming_udp_packet of anything else: not a V2GTP message; no SDP
\* response, or one with an invalid payload; one for wireless charging.
ProcessOtherPacket ==
  /\ UNCHANGED << config, responses, connections, comm_session >>
  /\ \/ /\ Takes("invalid")
        /\ UNCHANGED << requests, evcc_pc, udp_started, sdp_retries_number,
                        sdp_retry_cycles >>
     \/ Takes("other") /\ RestartSdp(TRUE, "idle")
     \/ /\ Takes("wireless")
        /\ evcc_pc' = "crashed"
        /\ UNCHANGED << requests, udp_started, sdp_retries_number, sdp_retry_cycles >>

\* ReceiveTimeoutNotification.
ProcessTimeout ==
  /\ Takes("timeout")
  /\ RestartSdp(FALSE, "idle")
  /\ UNCHANGED << config, responses, connections, comm_session >>

\* StopNotification: without a session the handler would die of an
\* AttributeError; after a successful one it breaks off, otherwise it starts
\* over, if a cycle is left.
ProcessStop(successful) ==
  /\ Takes(IF successful THEN "stop_successful" ELSE "stop_failed")
  /\ comm_session' = 0
  /\ IF comm_session # 0 /\ ~ successful
     THEN RestartSdp(TRUE, "idle")
     ELSE /\ evcc_pc' = IF comm_session = 0 THEN "crashed" ELSE "ended"
          /\ UNCHANGED << requests, udp_started, sdp_retries_number, sdp_retry_cycles >>
  /\ UNCHANGED << config, responses, connections >>

\* The session's stop(): only a session the SECC has ended regularly ends
\* successfully.  Its notification follows in EvccCloses.
EvccStops(c) ==
  /\ connections[c].evcc = "live"
  /\ connections' = [connections EXCEPT ![c].evcc = "stopping"]
  /\ UNCHANGED << config, requests, responses, evccVars >>

\* After 5 s the connection is closed and the handler notified.
EvccCloses(c, successful) ==
  /\ connections[c].evcc = "stopping"
  /\ successful => connections[c].ending \in {"terminate", "pause"}
  /\ connections' = [connections EXCEPT ![c].evcc = "closed"]
  /\ evcc_queue' = Append(evcc_queue,
                     IF successful THEN "stop_successful" ELSE "stop_failed")
  /\ UNCHANGED << config, requests, responses, evcc_pc, udp_started, udp_inbox,
                  sdp_retries_number, sdp_retry_cycles, comm_session >>

============================================================================
