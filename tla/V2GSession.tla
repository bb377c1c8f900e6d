----------------------------- MODULE V2GSession -----------------------------
(* One ISO 15118 communication session over a TCP connection, the parts the *)
(* three protocols share: the state machine and its receive loop            *)
(* (shared/comm_session.py, shared/states.py), the checks each side makes   *)
(* of what it receives (secc_state.py, evcc_state.py), the EVCC's ongoing   *)
(* timer, and the SupportedAppProtocol handshake that picks the protocol.   *)
(* A message is its name and what the other side's next step depends on.    *)
EXTENDS Naturals, Sequences, FiniteSets

CONSTANT Settings   \* what the two programs may be started with

DIN  == "DIN_SPEC_70121"
ISO2 == "ISO_15118_2"
ISO20 == "ISO_15118_20"        \* its AC and DC namespaces, which share the states
Protocols == { DIN, ISO2, ISO20 }
Quirks == { "computing",       \* get_sa_schedule_list returns None while it computes
            "delays",          \* process_sa_schedules answers Stop to delay charging
            "quits",           \* continue_charging is False before the first demand
            "modeless",        \* the offered services have no control mode
            "dips" }           \* the voltage is reached, and then is not any more

Setting(s) ==
  /\ s.offered \in Seq(Protocols) /\ s.offered # << >>   \* by the EVCC, by priority
  /\ s.supported \subseteq Protocols                     \* by the SECC
  /\ s.tls \in BOOLEAN                                   \* the connection uses TLS
  /\ s.ac \in BOOLEAN                                    \* the EV charges with AC
  /\ s.auth \subseteq { "EIM", "PnC" }                   \* supported_auth_options
  /\ s.install \in BOOLEAN                               \* is_cert_install_needed
  /\ s.renegotiates \in BOOLEAN                          \* service_renegotiation_supported
  /\ s.quirks \subseteq Quirks
  /\ s.shipped \in BOOLEAN                               \* the controllers are the simulated ones

\* A DIN offer is withdrawn when the connection uses TLS.
ASSUME SettingsAssumption ==
  \A s \in Settings : Setting(s) /\ (s.tls => \A i \in DOMAIN s.offered : s.offered[i] # DIN)

VARIABLES
  settings,   \* never changed
  wire,       \* the message sent and not yet taken in
  state,      \* current_state of each end
  run,        \* whether its rcv_loop runs, is in stop(), or has closed the connection
  success,    \* stop_reason.successful, of the end that gave one itself
  protocol,   \* comm_session.protocol of each end
  ev,         \* what the EVCC session and EV controller keep
  se          \* what the SECC session and EVSE controller keep

vars == << settings, wire, state, run, success, protocol, ev, se >>

Ends == { "evcc", "secc" }
Peer(e) == IF e = "evcc" THEN "secc" ELSE "evcc"

Message(kind, name, code, info) == [kind |-> kind, name |-> name, code |-> code, info |-> info]
NoMessage == Message("none", "none", "OK", {})

\* A state object: its class, what it remembers, and the last next_v2gtp_msg
\* it made, which an EVCC sends once more when it stops.
New(name) == [name |-> name, marks |-> {}, out |-> NoMessage]

SessionInit ==
  /\ settings \in Settings
  /\ wire = Message("req", "SupportedAppProtocol", "OK", {})   \* send_sap
  /\ state = [e \in Ends |-> New("SupportedAppProtocol")]
  /\ run = [e \in Ends |-> "running"]
  /\ success = [e \in Ends |-> FALSE]
  /\ protocol = [e \in Ends |-> "UNKNOWN"]
  /\ ev = [auth |-> "none", enabled |-> FALSE, timer |-> "off",
           elapsed |-> FALSE, stop |-> "none", renegotiating |-> FALSE, complete |-> FALSE,
           renegotiates |-> FALSE, more |-> FALSE, computing |-> FALSE]
  /\ se = [auth |-> "none", offered |-> {}, chain |-> FALSE, granted |-> FALSE,
           judged |-> FALSE, started |-> FALSE, hlc |-> FALSE, contactor |-> "open",
           insulated |-> FALSE]

\* Only an end that still runs its rcv_loop will read what it is sent.
Send(to, m) == wire' = IF run[to] = "running" THEN m ELSE NoMessage

Ac == settings.ac /\ protocol["secc"] # DIN

-----------------------------------------------------------------------------
(* The SECC.  A handler takes up a request its current state accepts; a     *)
(* request for another state than its own is processed by a new object of   *)
(* that state, which becomes the current one.                               *)

Request(r) == run["secc"] = "running" /\ wire.kind = "req" /\ wire.name = r

Object(r) == IF state["secc"].name = r THEN state["secc"] ELSE New(r)
Marked(r, mark) == mark \in Object(r).marks

\* create_next_message, and go_to_next_state.
Respond(r, code, info, object) ==
  /\ Send("evcc", Message("res", r, code, info))
  /\ state' = [state EXCEPT !["secc"] = object]
  /\ UNCHANGED << run, success >>
Answer(r, info, object) == Respond(r, "OK", info, object)
GoOn(r, info, next) == Answer(r, info, New(next))
Remain(r, info, marks) ==
  Answer(r, info, [Object(r) EXCEPT !.marks = @ \union marks \union {"answered"}])

\* A response, and the session ends: by stop_state_machine, or SessionStop.
End(object, r, code, ok) ==
  /\ Send("evcc", Message("res", r, code, {"finished"}))
  /\ state' = [state EXCEPT !["secc"] = object]
  /\ run' = [run EXCEPT !["secc"] = "stopping"]
  /\ success' = [success EXCEPT !["secc"] = ok]
Last(r, code, ok) == End(Object(r), r, code, ok)
Refuse(r) == Last(r, "FAILED", FALSE)

\* Mutant: the insulation is measured before the contactors are closed.
CheckCableAnyhow(r, level, next) ==
  \/ Refuse(r) /\ UNCHANGED se
  \/ Answer(r, {}, Object(r)) /\ UNCHANGED se
  \/ /\ ~ Marked(r, "closed")
     /\ Answer(r, {}, [Object(r) EXCEPT !.marks = { "closed" }])
     /\ se' = [se EXCEPT !.contactor = "closed"]
  \/ /\ GoOn(r, { "finished" } \union level, next)
     /\ se' = [se EXCEPT !.insulated = TRUE]

\* The cable check of all three protocols: the contactors close first, then the
\* insulation is measured, and refused unless VALID or in the WARNING range.
CheckCable(r, level, next) ==
  \/ Refuse(r) /\ UNCHANGED se
  \/ Answer(r, {}, Object(r)) /\ UNCHANGED se
  \/ /\ ~ Marked(r, "closed")
     /\ Answer(r, {}, [Object(r) EXCEPT !.marks = { "closed" }])
     /\ se' = [se EXCEPT !.contactor = "closed"]
  \/ /\ Marked(r, "closed")
     /\ GoOn(r, { "finished" } \union level, next)
     /\ se' = [se EXCEPT !.insulated = TRUE]

\* check_msg's list for a state: the first only until it has been answered,
\* and afterwards any of them.
Accepts(expected) ==
  IF "answered" \in state["secc"].marks
  THEN { expected[i] : i \in DOMAIN expected } ELSE { expected[1] }

\* check_msg: a request the current state does not accept.
OutOfSequence(accepted) ==
  /\ run["secc"] = "running" /\ wire.kind = "req" /\ wire.name \notin accepted
  /\ End(state["secc"], wire.name, "FAILED_SEQUENCE_ERROR", FALSE)
  /\ UNCHANGED << protocol, ev, se >>

-----------------------------------------------------------------------------
(* The EVCC, always in the state whose response it waits for.               *)

Response(r) ==
  /\ run["evcc"] = "running" /\ state["evcc"].name = r
  /\ wire.kind = "res" /\ wire.name = r /\ wire.code = "OK"

Ask(r, info) ==
  /\ Send("secc", Message("req", r, "OK", info))
  /\ state' = [state EXCEPT !["evcc"] = New(r)]
  /\ UNCHANGED << run, success >>
\* The same without a next state: the object stays, with its message.
AskAgain(r, info) ==
  /\ Send("secc", Message("req", r, "OK", info))
  /\ state' = [state EXCEPT !["evcc"].out = Message("req", r, "OK", info)]
  /\ UNCHANGED << run, success >>

\* stop_state_machine leaves next_v2gtp_msg alone, and rcv_loop sends it.
EvccStop(ok) ==
  /\ Send("secc", state["evcc"].out)
  /\ run' = [run EXCEPT !["evcc"] = "stopping"]
  /\ success' = [success EXCEPT !["evcc"] = ok]
  /\ UNCHANGED state

\* check_msg: another response than the awaited one, or a negative one.  Only
\* the -20 DCWeldingDetection does not call it.
Unchecked == protocol["evcc"] = ISO20 /\ state["evcc"].name = "DCWeldingDetection"
Rejects ==
  /\ run["evcc"] = "running" /\ wire.kind = "res" /\ ~ Response(state["evcc"].name)
  /\ ~ Unchecked
  /\ EvccStop(FALSE)
  /\ UNCHANGED << settings, protocol, ev, se >>

\* ongoing_timer: started by the first response that says "Ongoing" unless it
\* runs, and over once what the protocol allows for that phase has elapsed.
TimerKept == ev                            \* mutant: a phase leaves the timer running
TimerOff == [ev EXCEPT !.timer = "off", !.elapsed = FALSE]
TimerNotOn(phase) == ev                    \* mutant: the timer is not started
TimerOn(phase) == [ev EXCEPT !.timer = IF @ = "off" THEN phase ELSE @]
Overdue == ev.timer # "off" /\ ev.elapsed

TimeElapses ==
  /\ ev.timer # "off" /\ ~ ev.elapsed
  /\ ev' = [ev EXCEPT !.elapsed = TRUE]
  /\ UNCHANGED << settings, wire, state, run, success, protocol, se >>

\* Wait for the SECC's processing, asking again by a new state object or the
\* same one, until it has taken too long.
Poll(r, AskOnce(_, _)) ==
  \/ ~ Overdue /\ AskOnce(r, {}) /\ ev' = TimerOn(r)
  \/ Overdue /\ EvccStop(FALSE) /\ UNCHANGED ev

-----------------------------------------------------------------------------
(* What may happen to either end at any time (V2GCommunicationSession).     *)

\* An exception in a handler: rcv_loop stops the session without a response.
Crash(e) ==
  /\ wire' = NoMessage
  /\ run' = [run EXCEPT ![e] = "stopping"]
  /\ UNCHANGED << state, success >>

Incoming(e) == wire.kind = IF e = "evcc" THEN "res" ELSE "req"

\* Nothing arrives within the timeout of the next message.
TimesOut(e) ==
  /\ run[e] = "running" /\ ~ Incoming(e)
  /\ run' = [run EXCEPT ![e] = "stopping"]
  /\ UNCHANGED << settings, wire, state, success, protocol, ev, se >>

\* The peer has closed the connection and everything it sent is read.
PeerCloses(e) ==
  /\ run[e] = "running" /\ run[Peer(e)] = "closed" /\ ~ Incoming(e)
  /\ run' = [run EXCEPT ![e] = "stopping"]
  /\ UNCHANGED << settings, wire, state, success, protocol, ev, se >>

\* Mutant: stop() does not disable the charging.
CloseEnabled(e) ==
  /\ run[e] = "stopping"
  /\ run' = [run EXCEPT ![e] = "closed"]
  /\ UNCHANGED << settings, wire, state, success, protocol, ev, se >>

\* stop(): the data link is told (charging disabled, at the EV), then the
\* connection closed.
Close(e) ==
  /\ run[e] = "stopping"
  /\ run' = [run EXCEPT ![e] = "closed"]
  /\ ev' = IF e = "evcc" THEN [ev EXCEPT !.enabled = FALSE] ELSE ev
  /\ UNCHANGED << settings, wire, state, success, protocol, se >>

-----------------------------------------------------------------------------
(* SupportedAppProtocol.                                                     *)

\* The offered protocol of highest priority that the SECC supports.
SeccSupportedAppProtocol ==
  LET S == { i \in DOMAIN settings.offered : settings.offered[i] \in settings.supported }
      first == CHOOSE i \in S : \A j \in S : i <= j
  IN /\ Request("SupportedAppProtocol") /\ state["secc"].name = "SupportedAppProtocol"
     /\ IF S = {} THEN Refuse("SupportedAppProtocol") /\ UNCHANGED protocol
        ELSE /\ GoOn("SupportedAppProtocol", {settings.offered[first]}, "SessionSetup")
             /\ protocol' = [protocol EXCEPT !["secc"] = settings.offered[first]]
     /\ UNCHANGED << settings, ev, se >>

EvccSupportedAppProtocol ==
  /\ Response("SupportedAppProtocol")
  /\ \E p \in wire.info :
       /\ protocol' = [protocol EXCEPT !["evcc"] = p]
       /\ Ask("SessionSetup", {})
  /\ UNCHANGED << settings, ev, se >>

============================================================================
