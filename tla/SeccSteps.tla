----------------------------- MODULE SeccSteps ------------------------------
(* What the operators of V2GSession do to the wire and the SECC's state     *)
(* object, and that the handlers of the SECC, protocol by protocol, keep    *)
(* the invariant of SessionSteps: per handler what it may take, what it     *)
(* does, and the parts.                                                     *)
EXTENDS SessionSteps

-----------------------------------------------------------------------------
(* The words of the messages.                                                *)

\* The words of the messages, once and for all: a leaf about one of them cites
\* these facts instead of its type.
LEMMA NamesAre ==
  /\ "none" \in Names /\ "SupportedAppProtocol" \in Names /\ "SessionSetup" \in Names
  /\ "ServiceDiscovery" \in Names /\ "ServicePaymentSelection" \in Names
  /\ "ContractAuthentication" \in Names /\ "ServiceDetail" \in Names
  /\ "PaymentServiceSelection" \in Names /\ "CertificateInstallation" \in Names
  /\ "PaymentDetails" \in Names /\ "AuthorizationSetup" \in Names
  /\ "Authorization" \in Names /\ "ServiceSelection" \in Names
  /\ "ChargeParameterDiscovery" \in Names /\ "ACChargeParameterDiscovery" \in Names
  /\ "DCChargeParameterDiscovery" \in Names /\ "ScheduleExchange" \in Names
  /\ "CableCheck" \in Names /\ "DCCableCheck" \in Names /\ "PreCharge" \in Names
  /\ "DCPreCharge" \in Names /\ "PowerDelivery" \in Names /\ "CurrentDemand" \in Names
  /\ "ChargingStatus" \in Names /\ "ACChargeLoop" \in Names /\ "DCChargeLoop" \in Names
  /\ "WeldingDetection" \in Names /\ "DCWeldingDetection" \in Names
  /\ "SessionStop" \in Names
BY DEF Names

\* The response codes.
LEMMA CodesAre == "OK" \in Codes /\ "FAILED" \in Codes /\ "FAILED_SEQUENCE_ERROR" \in Codes
BY DEF Codes

\* The sets of words that the requests and responses carry.
LEMMA WordsAre ==
  /\ {} \in SUBSET Words /\ { "finished" } \in SUBSET Words
  /\ { "EIM" } \in SUBSET Words /\ { "PnC" } \in SUBSET Words
  /\ { "Start" } \in SUBSET Words /\ { "Stop" } \in SUBSET Words
  /\ { "Renegotiate" } \in SUBSET Words /\ { "Start", "computing" } \in SUBSET Words
  /\ { "stop" } \in SUBSET Words /\ { "renegotiate" } \in SUBSET Words
  /\ { "pause" } \in SUBSET Words /\ { "renegotiates" } \in SUBSET Words
  /\ { "Terminate" } \in SUBSET Words /\ { "ServiceRenegotiation" } \in SUBSET Words
  /\ { "none" } \in SUBSET Words /\ { "VALID" } \in SUBSET Words
  /\ { "WARNING" } \in SUBSET Words /\ Protocols \in SUBSET Words
BY DEF Words

\* A message made of the parts of one is one.
LEMMA MessageTyped ==
  ASSUME NEW kind \in { "none", "req", "res" }, NEW name \in Names, NEW code \in Codes,
         NEW info \in SUBSET Words
  PROVE  Message(kind, name, code, info) \in Messages
BY DEF Message, Messages

\* No message is a message of a kind of its own.
LEMMA NoMessageTyped ==
  NoMessage \in Messages /\ NoMessage.kind = "none" /\ NoMessage.code = "OK"
BY DEF NoMessage, Message, Messages, Codes, Names

-----------------------------------------------------------------------------
(* What the SECC's operators do.                                             *)

\* The state object that serves a request: the current one or a new one.
LEMMA ObjectIs ==
  ASSUME CoreTyped, NEW r \in Names
  PROVE  /\ Object(r) \in Objects /\ Object(r).name = r /\ Object(r).marks = Kept(r)
         /\ New(r) \in Objects /\ New(r).name = r /\ New(r).marks = {}
BY NoMessageTyped DEF Object, New, Kept, S, Objects, CoreTyped, Ends

\* The object with other marks.
LEMMA MarkedObjectIs ==
  ASSUME CoreTyped, NEW r \in Names, NEW marks \in SUBSET Marks
  PROVE  /\ [Object(r) EXCEPT !.marks = marks] \in Objects
         /\ [Object(r) EXCEPT !.marks = marks].name = r
         /\ [Object(r) EXCEPT !.marks = marks].marks = marks
BY ObjectIs DEF Objects

\* Respond answers and leaves the receive loops alone.
LEMMA RespondDoes ==
  ASSUME CoreTyped, NEW r \in Names, NEW code \in Codes, NEW info \in SUBSET Words,
         NEW object \in Objects, Respond(r, code, info, object)
  PROVE  Responds(r, code, info, object.name, object.marks) /\ RunsOn
<1>1. /\ state' \in [Ends -> Objects]
      /\ state'["secc"] = object /\ state'["evcc"] = state["evcc"]
  BY DEF Respond, CoreTyped, Ends
<1>2. wire' = IF EvccRuns THEN Message("res", r, code, info) ELSE NoMessage
  BY DEF Respond, Send, EvccRuns
<1>3. wire' \in Messages
  BY <1>2, MessageTyped, NoMessageTyped
<1>4. CoreTyped'
  BY <1>1, <1>3 DEF Respond, CoreTyped
<1> QED
  BY <1>1, <1>2, <1>4 DEF Respond, Responds, Message, NoMessage, RunsOn, S

\* End answers and stops the SECC's receive loop.
LEMMA EndDoes ==
  ASSUME CoreTyped, NEW object \in Objects, NEW r \in Names, NEW code \in Codes,
         NEW ok \in BOOLEAN, End(object, r, code, ok)
  PROVE  Responds(r, code, { "finished" }, object.name, object.marks) /\ SeccStops(ok)
<1>1. /\ state' \in [Ends -> Objects]
      /\ state'["secc"] = object /\ state'["evcc"] = state["evcc"]
  BY DEF End, CoreTyped, Ends
<1>2. wire' = IF EvccRuns THEN Message("res", r, code, { "finished" }) ELSE NoMessage
  BY DEF End, Send, EvccRuns
<1>3. wire' \in Messages
  BY <1>2, MessageTyped, NoMessageTyped, WordsAre
<1>4. CoreTyped'
  BY <1>1, <1>3 DEF End, CoreTyped, Ends
<1> QED
  BY <1>1, <1>2, <1>4 DEF End, Responds, Message, NoMessage, SeccStops, CoreTyped, Ends, S

\* Remain marks the object as answered.
LEMMA RemainDoes ==
  ASSUME CoreTyped, NEW r \in Names, NEW info \in SUBSET Words, Remain(r, info, {})
  PROVE  Stays(r, info)
<1> DEFINE object == [Object(r) EXCEPT !.marks = @ \union {} \union { "answered" }]
<1>1. Respond(r, "OK", info, object)
  BY DEF Remain, Answer
<1>2. /\ object \in Objects
      /\ object.name = r /\ object.marks = Object(r).marks \union { "answered" }
  BY ObjectIs DEF Objects, Marks
<1> HIDE DEF object
<1>3. Responds(r, "OK", info, object.name, object.marks) /\ RunsOn
  BY <1>1, <1>2, RespondDoes, CodesAre
<1>4. object.marks = Kept(r) \union { "answered" }
  BY <1>2, ObjectIs
<1> QED
  BY <1>2, <1>3, <1>4 DEF Proceeds, Stays

\* An exception stops one end without a message.
LEMMA CrashDoes ==
  ASSUME CoreTyped, NEW e \in Ends, Crash(e)
  PROVE  Fails(e)
BY NoMessageTyped DEF Crash, Fails, Peer, CoreTyped, Ends

\* What the SECC's operators do, for any request.
LEMMA SeccDoes ==
  ASSUME CoreTyped
  PROVE  /\ \A r \in Names, info \in SUBSET Words, next \in Names :
              GoOn(r, info, next) => Proceeds(r, info, next, {})
         /\ \A r \in Names, info \in SUBSET Words :
              Remain(r, info, {}) => Stays(r, info)
         /\ \A r \in Names, info \in SUBSET Words :
              Answer(r, info, Object(r)) => Proceeds(r, info, r, Kept(r))
         /\ \A r \in Names, info \in SUBSET Words, next \in Names :
              Answer(r, info, New(next)) => Proceeds(r, info, next, {})
         /\ \A r \in Names, code \in Codes, info \in SUBSET Words, next \in Names :
              Respond(r, code, info, New(next)) => Responds(r, code, info, next, {}) /\ RunsOn
         /\ \A r \in Names, code \in Codes : Last(r, code, TRUE) => Finishes(r, code, TRUE)
         /\ \A r \in Names, code \in Codes : Last(r, code, FALSE) => Finishes(r, code, FALSE)
         /\ \A r \in Names : Refuse(r) => Finishes(r, "FAILED", FALSE)
         /\ Crash("secc") => Fails("secc")
<1>1. ASSUME NEW r \in Names, NEW code \in Codes, NEW info \in SUBSET Words, NEW next \in Names,
             Respond(r, code, info, New(next))
      PROVE  Responds(r, code, info, next, {}) /\ RunsOn
  <2>1. New(next) \in Objects /\ New(next).name = next /\ New(next).marks = {}
    BY ObjectIs
  <2>2. Responds(r, code, info, New(next).name, New(next).marks) /\ RunsOn
    BY <1>1, <2>1, RespondDoes
  <2> QED
    BY <2>1, <2>2
<1>2. \A r \in Names, info \in SUBSET Words, next \in Names :
        /\ Answer(r, info, New(next)) => Proceeds(r, info, next, {})
        /\ GoOn(r, info, next) => Proceeds(r, info, next, {})
  BY <1>1, CodesAre DEF GoOn, Answer, Proceeds, Stays
<1>3. \A r \in Names, info \in SUBSET Words :
        Answer(r, info, Object(r)) => Proceeds(r, info, r, Kept(r))
  BY RespondDoes, ObjectIs, CodesAre DEF Answer, Proceeds, Stays
<1>4. ASSUME NEW r \in Names, NEW code \in Codes, NEW ok \in BOOLEAN, Last(r, code, ok)
      PROVE  Finishes(r, code, ok)
  <2>1. Object(r) \in Objects /\ Object(r).name = r /\ Object(r).marks = Kept(r)
    BY ObjectIs
  <2>2. Responds(r, code, { "finished" }, Object(r).name, Object(r).marks) /\ SeccStops(ok)
    BY <1>4, <2>1, EndDoes DEF Last
  <2> QED
    BY <2>1, <2>2 DEF Finishes
<1>5. \A r \in Names : Refuse(r) => Finishes(r, "FAILED", FALSE)
  BY <1>4, CodesAre DEF Refuse
<1> QED
  BY <1>1, <1>2, <1>3, <1>4, <1>5, RemainDoes, CrashDoes DEF Ends

\* The cable check of the three protocols, by its four outcomes.
LEMMA CheckCableDoes ==
  ASSUME CoreTyped, NEW r \in Names, NEW level \in SUBSET Words, NEW next \in Names,
         CheckCable(r, level, next)
  PROVE  \/ Finishes(r, "FAILED", FALSE) /\ UNCHANGED se
         \/ Proceeds(r, {}, r, Kept(r)) /\ UNCHANGED se
         \/ /\ Proceeds(r, {}, r, { "closed" })
            /\ se' = [se EXCEPT !.contactor = "closed"]
         \/ /\ "closed" \in Kept(r)
            /\ Proceeds(r, { "finished" } \union level, next, {})
            /\ se' = [se EXCEPT !.insulated = TRUE]
<1>1. ASSUME Answer(r, {}, [Object(r) EXCEPT !.marks = { "closed" }])
      PROVE  Proceeds(r, {}, r, { "closed" })
  <2> DEFINE object == [Object(r) EXCEPT !.marks = { "closed" }]
  <2>1. object \in Objects /\ object.name = r /\ object.marks = { "closed" }
    BY ObjectIs DEF Objects, Marks
  <2>2. Respond(r, "OK", {}, object)
    BY <1>1 DEF Answer
  <2> HIDE DEF object
  <2> QED
    BY <2>1, <2>2, RespondDoes, CodesAre, WordsAre DEF Proceeds, Stays
<1>2. { "finished" } \union level \in SUBSET Words
  BY DEF Words
<1> QED
  BY <1>1, <1>2, SeccDoes, ObjectIs, WordsAre DEF CheckCable, Marked

\* A request the SECC's state does not accept.
LEMMA OutOfSequenceDoes ==
  ASSUME CoreTyped, NEW accepted, OutOfSequence(accepted)
  PROVE  /\ Requested /\ SeccRuns /\ wire.name \notin accepted
         /\ Responds(wire.name, "FAILED_SEQUENCE_ERROR", { "finished" }, S, state["secc"].marks)
         /\ SeccStops(FALSE)
         /\ UNCHANGED << protocol, ev, se >>
<1>1. wire.name \in Names /\ state["secc"] \in Objects
  BY DEF CoreTyped, Messages, Ends
<1> QED
  BY <1>1, EndDoes, CodesAre DEF OutOfSequence, Requested, SeccRuns, S

-----------------------------------------------------------------------------
(* The protocol modules' copies of them are the same, and what a state takes. *)

\* DIN SPEC 70121's SECC uses the operators of V2GSession.
LEMMA SeccDinSame ==
  /\ \A r : SeccDin!Request(r) <=> Request(r)
  /\ \A r : SeccDin!Object(r) = Object(r)
  /\ \A r : SeccDin!New(r) = New(r)
  /\ \A r, mark : SeccDin!Marked(r, mark) <=> Marked(r, mark)
  /\ \A r, code, info, object : SeccDin!Respond(r, code, info, object) <=> Respond(r, code,
       info, object)
  /\ \A r, info, object : SeccDin!Answer(r, info, object) <=> Answer(r, info, object)
  /\ \A r, info, next : SeccDin!GoOn(r, info, next) <=> GoOn(r, info, next)
  /\ \A r, info, marks : SeccDin!Remain(r, info, marks) <=> Remain(r, info, marks)
  /\ \A r, code : SeccDin!Last(r, code, TRUE) <=> Last(r, code, TRUE)
  /\ \A r, code : SeccDin!Last(r, code, FALSE) <=> Last(r, code, FALSE)
  /\ \A r : SeccDin!Refuse(r) <=> Refuse(r)
  /\ \A e : SeccDin!Crash(e) <=> Crash(e)
  /\ \A r, level, next : SeccDin!CheckCable(r, level, next) <=> CheckCable(r, level, next)
  /\ \A accepted : SeccDin!OutOfSequence(accepted) <=> OutOfSequence(accepted)
BY Zenon DEF SeccDin!Object, Object, SeccDin!New, New, SeccDin!Message, Message,
       SeccDin!NoMessage, NoMessage, SeccDin!Marked, Marked, SeccDin!Respond, Respond,
       SeccDin!Answer, Answer, SeccDin!GoOn, GoOn, SeccDin!Remain, Remain, SeccDin!Last,
       Last, SeccDin!Refuse, Refuse, SeccDin!End, End, SeccDin!Send, Send, SeccDin!Request,
       Request, SeccDin!Crash, Crash, SeccDin!CheckCable, CheckCable, SeccDin!OutOfSequence,
       OutOfSequence

\* ISO 15118-2's SECC uses them.
LEMMA Secc2Same ==
  /\ \A r : Secc2!Request(r) <=> Request(r)
  /\ \A r : Secc2!Object(r) = Object(r)
  /\ \A r : Secc2!New(r) = New(r)
  /\ \A r, mark : Secc2!Marked(r, mark) <=> Marked(r, mark)
  /\ \A r, code, info, object : Secc2!Respond(r, code, info, object) <=> Respond(r, code,
       info, object)
  /\ \A r, info, object : Secc2!Answer(r, info, object) <=> Answer(r, info, object)
  /\ \A r, info, next : Secc2!GoOn(r, info, next) <=> GoOn(r, info, next)
  /\ \A r, info, marks : Secc2!Remain(r, info, marks) <=> Remain(r, info, marks)
  /\ \A r, code : Secc2!Last(r, code, TRUE) <=> Last(r, code, TRUE)
  /\ \A r, code : Secc2!Last(r, code, FALSE) <=> Last(r, code, FALSE)
  /\ \A r : Secc2!Refuse(r) <=> Refuse(r)
  /\ \A e : Secc2!Crash(e) <=> Crash(e)
  /\ \A r, level, next : Secc2!CheckCable(r, level, next) <=> CheckCable(r, level, next)
  /\ \A accepted : Secc2!OutOfSequence(accepted) <=> OutOfSequence(accepted)
BY Zenon DEF Secc2!Object, Object, Secc2!New, New, Secc2!Message, Message, Secc2!NoMessage,
       NoMessage, Secc2!Marked, Marked, Secc2!Respond, Respond, Secc2!Answer, Answer,
       Secc2!GoOn, GoOn, Secc2!Remain, Remain, Secc2!Last, Last, Secc2!Refuse, Refuse,
       Secc2!End, End, Secc2!Send, Send, Secc2!Request, Request, Secc2!Crash, Crash,
       Secc2!CheckCable, CheckCable, Secc2!OutOfSequence, OutOfSequence

\* ISO 15118-20's SECC uses them.
LEMMA Secc20Same ==
  /\ \A r : Secc20!Request(r) <=> Request(r)
  /\ \A r : Secc20!Object(r) = Object(r)
  /\ \A r : Secc20!New(r) = New(r)
  /\ \A r, mark : Secc20!Marked(r, mark) <=> Marked(r, mark)
  /\ \A r, code, info, object : Secc20!Respond(r, code, info, object) <=> Respond(r, code,
       info, object)
  /\ \A r, info, object : Secc20!Answer(r, info, object) <=> Answer(r, info, object)
  /\ \A r, info, next : Secc20!GoOn(r, info, next) <=> GoOn(r, info, next)
  /\ \A r, info, marks : Secc20!Remain(r, info, marks) <=> Remain(r, info, marks)
  /\ \A r, code : Secc20!Last(r, code, TRUE) <=> Last(r, code, TRUE)
  /\ \A r, code : Secc20!Last(r, code, FALSE) <=> Last(r, code, FALSE)
  /\ \A r : Secc20!Refuse(r) <=> Refuse(r)
  /\ \A e : Secc20!Crash(e) <=> Crash(e)
  /\ \A r, level, next : Secc20!CheckCable(r, level, next) <=> CheckCable(r, level, next)
  /\ \A accepted : Secc20!OutOfSequence(accepted) <=> OutOfSequence(accepted)
BY Zenon DEF Secc20!Object, Object, Secc20!New, New, Secc20!Message, Message,
       Secc20!NoMessage, NoMessage, Secc20!Marked, Marked, Secc20!Respond, Respond,
       Secc20!Answer, Answer, Secc20!GoOn, GoOn, Secc20!Remain, Remain, Secc20!Last, Last,
       Secc20!Refuse, Refuse, Secc20!End, End, Secc20!Send, Send, Secc20!Request, Request,
       Secc20!Crash, Crash, Secc20!CheckCable, CheckCable, Secc20!OutOfSequence,
       OutOfSequence

\* The request is the state's own, or one that may follow it once answered.
LEMMA DinTakes ==
  ASSUME S \in DinStates, NEW r, SeccDin!Takes(r)
  PROVE  /\ Requested /\ SeccRuns /\ wire.name = r
         /\ S = r \/ (SeccMarked("answered") /\ << S, r >> \in DinFollows)
BY DEF SeccDin!Takes, SeccDin!Request, SeccDin!Accepted, SeccDin!Accepts, SeccDin!Expected,
    DinStates, DinFollows, Requested, SeccRuns, S, SeccMarked

\* The same for ISO 15118-2, whose expectations are longer.
LEMMA Iso2Takes ==
  ASSUME S \in Iso2States, NEW r, Secc2!Takes(r)
  PROVE  /\ Requested /\ SeccRuns /\ wire.name = r
         /\ S = r \/ (SeccMarked("answered") /\ << S, r >> \in Iso2Follows)
BY DEF Secc2!Takes, Secc2!Request, Secc2!Accepted, Secc2!Accepts, Secc2!Expected, Iso2States,
    Iso2Follows, Requested, SeccRuns, S, SeccMarked

\* ISO 15118-20 also takes some that are not expected, and a stop at any time.
LEMMA Iso20Takes ==
  ASSUME S \in Iso20States, NEW r, Secc20!Takes(r)
  PROVE  /\ Requested /\ SeccRuns /\ wire.name = r
         /\ \/ S = r
            \/ SeccMarked("answered") /\ << S, r >> \in Iso20Follows
            \/ << S, r >> \in Iso20Lenient
            \/ r = "SessionStop"
BY DEF Secc20!Takes, Secc20!Request, Secc20!Accepted, Secc20!Accepts, Secc20!Expected,
    Secc20!Lenient, Iso20States, Iso20Follows, Iso20Lenient, Requested, SeccRuns, S, SeccMarked

\* What fits the state is accepted by it.
LEMMA DinAccepts ==
  ASSUME S \in DinStates, DinFits
  PROVE  E \in SeccDin!Accepted
BY DEF SeccDin!Accepted, SeccDin!Accepts, SeccDin!Expected, DinStates, DinFits, DinFollows, S, E,
    SeccMarked

\* The same for ISO 15118-2.
LEMMA Iso2Accepts ==
  ASSUME S \in Iso2States, Iso2Fits
  PROVE  E \in Secc2!Accepted
BY SMTT(40) DEF Secc2!Accepted, Secc2!Accepts, Secc2!Expected, Secc2!Marked, Secc2!Object,
    Iso2States,
    Iso2Fits, Iso2Follows, S, E, SeccMarked

\* The same for ISO 15118-20.
LEMMA Iso20Accepts ==
  ASSUME S \in Iso20States, Iso20Fits
  PROVE  E \in Secc20!Accepted
BY SMTT(40) DEF Secc20!Accepted, Secc20!Accepts, Secc20!Expected, Secc20!Lenient, Iso20States,
    Iso20Fits,
    Iso20Follows, Iso20Lenient, S, E, SeccMarked

-----------------------------------------------------------------------------
(* The handlers.                                                             *)

\* A request is answered; it is served when it was in its turn.
SeccAnswers(r, code) ==
  \E info, name, marks :
    Responds(r, code, info, name, marks) /\ (RunsOn \/ SeccStops(TRUE) \/ SeccStops(FALSE))
SeccServed(r) == SeccAnswers(r, "OK") \/ SeccAnswers(r, "FAILED")

\* The car takes no part in the session or is ready for it.
CarReady == ev.enabled \/ ~ EvccRuns

\* What the SECC may do with the energy, in the terms of EnergyHandover: nothing,
\* close the contactors, start, stop, or fail to do so and leave.
SeccEnergy ==
  \/ se'.hlc = se.hlc /\ se'.contactor = se.contactor
  \/ CarReady /\ se'.contactor = "closed" /\ se'.hlc = se.hlc /\ RunsOn
  \/ CarReady /\ se'.hlc /\ se'.contactor = "closed" /\ RunsOn
  \/ CarReady /\ se'.hlc /\ se'.contactor = se.contactor /\ ~ SeccRuns'
  \/ ~ se'.hlc /\ se'.contactor = "open"
  \/ ~ se'.hlc /\ se'.contactor = se.contactor /\ ~ SeccRuns'

\* Serving a request keeps what concerns the wire, the ends and the car.
LEMMA SeccFrame ==
  ASSUME CoreTyped, WireInv, EndInv, CarInv, Requested, SeccRuns,
         UNCHANGED << settings, ev >>, protocol'["evcc"] = protocol["evcc"],
         (\E code : SeccAnswers(wire.name, code)) \/ Fails("secc")
  PROVE  CoreTyped' /\ WireInv' /\ EndInv' /\ CarInv' /\ E' = E /\ run'["evcc"] = run["evcc"]
<1>1. /\ CoreTyped' /\ state'["evcc"] = state["evcc"]
      /\ wire'.kind \in { "none", "res" }
      /\ wire'.kind = "res" => EvccRuns /\ wire'.name = wire.name
      /\ wire'.kind # "res" => wire'.code = "OK"
  BY DEF SeccAnswers, Responds, Fails
<1>2. /\ run'["evcc"] = run["evcc"] /\ success'["evcc"] = success["evcc"]
      /\ success'["secc"] => run'["secc"] # "running"
  <2>1. CASE UNCHANGED << run, success >>
    BY <2>1 DEF EndInv, SeccRuns
  <2>2. CASE SeccStops(TRUE) \/ SeccStops(FALSE)
    BY <2>2 DEF SeccStops
  <2>3. CASE Fails("secc")
    BY <2>3 DEF Fails, Peer
  <2> QED
    BY <2>1, <2>2, <2>3 DEF SeccAnswers, RunsOn
<1>3. WireInv'
  BY <1>1, <1>2 DEF WireInv, Requested, SeccRuns, EvccRuns, E
<1>4. EndInv'
  BY <1>1, <1>2 DEF EndInv, SeccRuns, EvccRuns
<1>5. CarInv'
  BY <1>1, <1>2 DEF CarInv, CarEnabled, CarTimed, EvccRuns, E, PowerStates
<1> QED
  BY <1>1, <1>2, <1>3, <1>4, <1>5 DEF E

-----------------------------------------------------------------------------

\* A request r the SECC takes: of its state, or one that may follow.
DinTaken(r) ==
  /\ Requested /\ SeccRuns /\ wire.name = r
  /\ S = r \/ (SeccMarked("answered") /\ << S, r >> \in DinFollows)

\* Every handler of DIN SPEC 70121's SECC keeps the invariant.
LEMMA DinSeccStep ==
  ASSUME settings \in Settings, CoreTyped, se \in SeFields, DinInv, WireInv, EndInv, CarInv,
         Speaks(DIN), S \in DinStates, SeccDin!Handle,
         UNCHANGED << settings, protocol, ev >>
  PROVE  /\ CoreTyped' /\ WireInv' /\ EndInv' /\ CarInv' /\ E' = E
         /\ se' \in SeFields /\ S' \in DinStates /\ E # "SupportedAppProtocol"
         /\ DinInv' /\ SeccEnergy /\ SeccRuns /\ run'["evcc"] = run["evcc"]
         /\ SeccServed(wire.name) \/ Fails("secc")
<1>1. CASE SeccDin!SessionSetup
  <2>1. DinTaken("SessionSetup")
    BY <1>1, DinTakes DEF SeccDin!SessionSetup, DinTaken
  <2>2. Proceeds("SessionSetup", {}, "ServiceDiscovery", {}) /\ UNCHANGED se
    BY <1>1, SeccDinSame, SeccDoes, NamesAre, CodesAre, WordsAre DEF SeccDin!SessionSetup
  <2>3. SeccServed("SessionSetup") \/ Fails("secc")
    BY <2>2 DEF SeccServed, SeccAnswers, Proceeds, Stays, Finishes
  <2>4. se' \in SeFields
    BY <2>2 DEF SeFields, Proceeds, Stays, Finishes, Fails, Responds
  <2>5. S' \in DinStates /\ wire.name # "SupportedAppProtocol"
    BY <2>1, <2>2
      DEF DinStates, DinTaken, DinFollows, Proceeds, Stays, Finishes, Responds, Fails, S
  <2>6. DinInv'
    <3> USE <2>1, <2>2
      DEF DIN, ISO2, ISO20, WireInv, EndInv, DinTaken, DinInv, DinAuth, DinPath, DinStop,
        Proceeds, Stays, Finishes, Fails, Peer, Responds, Kept, Off, RunsOn, SeccStops,
        Stopping, Ac, Requested, Granted, SeccRuns, EvccRuns, SeccMarked, Speaks, E, S,
        DinFollows, SeFields, GrantedV1, CoreTyped, Ends
    <3>1. DinAuth'
      OBVIOUS
    <3>2. DinPath'
      OBVIOUS
    <3>3. DinStop'
      OBVIOUS
    <3>4. DinTurn'
      BY DEF DinTurn, DinFits, DinLeads, DinNext, Advances, Answered, Orderly, EvccMarked
    <3> QED
      BY <3>1, <3>2, <3>3, <3>4
  <2>7. SeccEnergy
    BY <2>2 DEF SeccEnergy, SeFields
  <2> QED
    BY <2>1, <2>3, <2>4, <2>5, <2>6, <2>7, SeccFrame DEF DinTaken, WireInv, Requested, SeccServed
<1>2. CASE SeccDin!ServiceDiscovery
  <2>1. DinTaken("ServiceDiscovery")
    BY <1>2, DinTakes DEF SeccDin!ServiceDiscovery, DinTaken
  <2>2. /\ Proceeds("ServiceDiscovery", { "EIM" }, "ServicePaymentSelection", {})
        /\ se' = [se EXCEPT !.offered = { "EIM" }]
    BY <1>2, SeccDinSame, SeccDoes, NamesAre, CodesAre, WordsAre DEF SeccDin!ServiceDiscovery
  <2>3. SeccServed("ServiceDiscovery") \/ Fails("secc")
    BY <2>2 DEF SeccServed, SeccAnswers, Proceeds, Stays, Finishes
  <2>4. se' \in SeFields
    BY <2>2 DEF SeFields, Proceeds, Stays, Finishes, Fails, Responds
  <2>5. S' \in DinStates /\ wire.name # "SupportedAppProtocol"
    BY <2>1, <2>2
      DEF DinStates, DinTaken, DinFollows, Proceeds, Stays, Finishes, Responds, Fails, S
  <2>6. DinInv'
    <3> USE <2>1, <2>2
      DEF DIN, ISO2, ISO20, WireInv, EndInv, DinTaken, DinInv, DinAuth, DinPath, DinStop,
        Proceeds, Stays, Finishes, Fails, Peer, Responds, Kept, Off, RunsOn, SeccStops,
        Stopping, Ac, Requested, Granted, SeccRuns, EvccRuns, SeccMarked, Speaks, E, S,
        DinFollows, SeFields, GrantedV1, CoreTyped, Ends
    <3>1. DinAuth'
      OBVIOUS
    <3>2. DinPath'
      OBVIOUS
    <3>3. DinStop'
      OBVIOUS
    <3>4. DinTurn'
      BY DEF DinTurn, DinFits, DinLeads, DinNext, Advances, Answered, Orderly, EvccMarked
    <3> QED
      BY <3>1, <3>2, <3>3, <3>4
  <2>7. SeccEnergy
    BY <2>2 DEF SeccEnergy, SeFields
  <2> QED
    BY <2>1, <2>3, <2>4, <2>5, <2>6, <2>7, SeccFrame DEF DinTaken, WireInv, Requested, SeccServed
<1>3. CASE SeccDin!ServicePaymentSelection
  <2>1. DinTaken("ServicePaymentSelection")
    BY <1>3, DinTakes DEF SeccDin!ServicePaymentSelection, DinTaken
  <2>2. \/ /\ Proceeds("ServicePaymentSelection", {}, "ContractAuthentication", {})
           /\ se' = [se EXCEPT !.auth = "EIM"]
        \/ Finishes("ServicePaymentSelection", "FAILED", FALSE) /\ UNCHANGED se
    BY <1>3, SeccDinSame, SeccDoes, NamesAre, CodesAre, WordsAre
      DEF SeccDin!ServicePaymentSelection
  <2>3. SeccServed("ServicePaymentSelection") \/ Fails("secc")
    BY <2>2 DEF SeccServed, SeccAnswers, Proceeds, Stays, Finishes
  <2>4. se' \in SeFields
    BY <2>2 DEF SeFields, Words
  <2>5. S' \in DinStates /\ wire.name # "SupportedAppProtocol"
    BY <2>1, <2>2
      DEF DinStates, DinTaken, DinFollows, Proceeds, Stays, Finishes, Responds, Fails, S
  <2>6. DinInv'
    <3> USE <2>1, <2>2
      DEF DIN, ISO2, ISO20, WireInv, EndInv, DinTaken, DinInv, DinAuth, DinPath, DinStop,
        Proceeds, Stays, Finishes, Fails, Peer, Responds, Kept, Off, RunsOn, SeccStops,
        Stopping, Ac, Requested, Granted, SeccRuns, EvccRuns, SeccMarked, Speaks, E, S,
        DinFollows, SeFields, GrantedV1, CoreTyped, Ends
    <3>1. DinAuth'
      OBVIOUS
    <3>2. DinPath'
      OBVIOUS
    <3>3. DinStop'
      OBVIOUS
    <3>4. DinTurn'
      BY DEF DinTurn, DinFits, DinLeads, DinNext, Advances, Answered, Orderly, EvccMarked
    <3> QED
      BY <3>1, <3>2, <3>3, <3>4
  <2>7. SeccEnergy
    BY <2>2 DEF SeccEnergy, SeFields
  <2> QED
    BY <2>1, <2>3, <2>4, <2>5, <2>6, <2>7, SeccFrame DEF DinTaken, WireInv, Requested, SeccServed
<1>4. CASE SeccDin!ContractAuthentication
  <2>1. DinTaken("ContractAuthentication")
    BY <1>4, DinTakes DEF SeccDin!ContractAuthentication, DinTaken
  <2>2. \/ /\ Proceeds("ContractAuthentication", { "finished" }, "ChargeParameterDiscovery", {})
           /\ se' = [se EXCEPT !.granted = TRUE]
        \/ /\ Stays("ContractAuthentication", {})
           /\ UNCHANGED se
    BY <1>4, SeccDinSame, SeccDoes, NamesAre, CodesAre, WordsAre
      DEF SeccDin!ContractAuthentication
  <2>3. SeccServed("ContractAuthentication") \/ Fails("secc")
    BY <2>2 DEF SeccServed, SeccAnswers, Proceeds, Stays, Finishes
  <2>4. se' \in SeFields
    BY <2>2 DEF SeFields, Proceeds, Stays, Finishes, Fails, Responds
  <2>5. S' \in DinStates /\ wire.name # "SupportedAppProtocol"
    BY <2>1, <2>2
      DEF DinStates, DinTaken, DinFollows, Proceeds, Stays, Finishes, Responds, Fails, S
  <2>6. DinInv'
    <3> USE <2>1, <2>2
      DEF DIN, ISO2, ISO20, WireInv, EndInv, DinTaken, DinInv, DinAuth, DinPath, DinStop,
        Proceeds, Stays, Finishes, Fails, Peer, Responds, Kept, Off, RunsOn, SeccStops,
        Stopping, Ac, Requested, Granted, SeccRuns, EvccRuns, SeccMarked, Speaks, E, S,
        DinFollows, SeFields, GrantedV1, CoreTyped, Ends
    <3>1. DinAuth'
      OBVIOUS
    <3>2. DinPath'
      OBVIOUS
    <3>3. DinStop'
      OBVIOUS
    <3>4. DinTurn'
      BY DEF DinTurn, DinFits, DinLeads, DinNext, Advances, Answered, Orderly, EvccMarked
    <3> QED
      BY <3>1, <3>2, <3>3, <3>4
  <2>7. SeccEnergy
    BY <2>2 DEF SeccEnergy, SeFields
  <2> QED
    BY <2>1, <2>3, <2>4, <2>5, <2>6, <2>7, SeccFrame DEF DinTaken, WireInv, Requested, SeccServed
<1>5. CASE SeccDin!ChargeParameterDiscovery
  <2>1. DinTaken("ChargeParameterDiscovery")
    BY <1>5, DinTakes DEF SeccDin!ChargeParameterDiscovery, DinTaken
  <2>2. \/ Finishes("ChargeParameterDiscovery", "FAILED", FALSE) /\ UNCHANGED se
        \/ /\ Proceeds("ChargeParameterDiscovery", { "finished" }, "CableCheck", {})
           /\ UNCHANGED se
        \/ /\ Stays("ChargeParameterDiscovery", {})
           /\ UNCHANGED se
    BY <1>5, SeccDinSame, SeccDoes, NamesAre, CodesAre, WordsAre
      DEF SeccDin!ChargeParameterDiscovery
  <2>3. SeccServed("ChargeParameterDiscovery") \/ Fails("secc")
    BY <2>2 DEF SeccServed, SeccAnswers, Proceeds, Stays, Finishes
  <2>4. se' \in SeFields
    BY <2>2 DEF SeFields, Proceeds, Stays, Finishes, Fails, Responds
  <2>5. S' \in DinStates /\ wire.name # "SupportedAppProtocol"
    BY <2>1, <2>2
      DEF DinStates, DinTaken, DinFollows, Proceeds, Stays, Finishes, Responds, Fails, S
  <2>6. DinInv'
    <3> USE <2>1, <2>2
      DEF DIN, ISO2, ISO20, WireInv, EndInv, DinTaken, DinInv, DinAuth, DinPath, DinStop,
        Proceeds, Stays, Finishes, Fails, Peer, Responds, Kept, Off, RunsOn, SeccStops,
        Stopping, Ac, Requested, Granted, SeccRuns, EvccRuns, SeccMarked, Speaks, E, S,
        DinFollows, SeFields, GrantedV1, CoreTyped, Ends
    <3>1. DinAuth'
      OBVIOUS
    <3>2. DinPath'
      OBVIOUS
    <3>3. DinStop'
      OBVIOUS
    <3>4. DinTurn'
      BY DEF DinTurn, DinFits, DinLeads, DinNext, Advances, Answered, Orderly, EvccMarked
    <3> QED
      BY <3>1, <3>2, <3>3, <3>4
  <2>7. SeccEnergy
    BY <2>2 DEF SeccEnergy, SeFields
  <2> QED
    BY <2>1, <2>3, <2>4, <2>5, <2>6, <2>7, SeccFrame DEF DinTaken, WireInv, Requested, SeccServed
<1>6. CASE SeccDin!CableCheck
  <2>1. DinTaken("CableCheck")
    BY <1>6, DinTakes DEF SeccDin!CableCheck, DinTaken
  <2>2. \E level :
          \/ Finishes("CableCheck", "FAILED", FALSE) /\ UNCHANGED se
          \/ Proceeds("CableCheck", {}, "CableCheck", Kept("CableCheck")) /\ UNCHANGED se
          \/ /\ Proceeds("CableCheck", {}, "CableCheck", { "closed" })
             /\ se' = [se EXCEPT !.contactor = "closed"]
          \/ /\ "closed" \in Kept("CableCheck")
             /\ Proceeds("CableCheck", { "finished" } \union level, "PreCharge", {})
             /\ se' = [se EXCEPT !.insulated = TRUE]
    <3>1. PICK level \in SUBSET Words : CheckCable("CableCheck", level, "PreCharge")
      BY <1>6, SeccDinSame, WordsAre DEF SeccDin!CableCheck
    <3> QED
      BY <3>1, CheckCableDoes, NamesAre
  <2>3. SeccServed("CableCheck") \/ Fails("secc")
    BY <2>2 DEF SeccServed, SeccAnswers, Proceeds, Stays, Finishes
  <2>4. se' \in SeFields
    BY <2>2 DEF SeFields, Proceeds, Stays, Finishes, Fails, Responds
  <2>5. S' \in DinStates /\ wire.name # "SupportedAppProtocol"
    BY <2>1, <2>2
      DEF DinStates, DinTaken, DinFollows, Proceeds, Stays, Finishes, Responds, Fails, S
  <2>6. DinInv'
    <3> USE <2>1, <2>2
      DEF DIN, ISO2, ISO20, WireInv, EndInv, DinTaken, DinInv, DinAuth, DinPath, DinStop,
        Proceeds, Stays, Finishes, Fails, Peer, Responds, Kept, Off, RunsOn, SeccStops,
        Stopping, Ac, Requested, Granted, SeccRuns, EvccRuns, SeccMarked, Speaks, E, S,
        DinFollows, SeFields, GrantedV1, CoreTyped, Ends
    <3>1. DinAuth'
      OBVIOUS
    <3>2. DinPath'
      OBVIOUS
    <3>3. DinStop'
      OBVIOUS
    <3>4. DinTurn'
      BY DEF DinTurn, DinFits, DinLeads, DinNext, Advances, Answered, Orderly, EvccMarked
    <3> QED
      BY <3>1, <3>2, <3>3, <3>4
  <2>7. SeccEnergy
    BY <2>1, <2>2
      DEF SeccEnergy, CarReady, CarInv, CarEnabled, PowerStates, SeFields, DinTaken, WireInv,
           Requested, E, Proceeds, Stays
  <2> QED
    BY <2>1, <2>3, <2>4, <2>5, <2>6, <2>7, SeccFrame DEF DinTaken, WireInv, Requested, SeccServed
<1>7. CASE SeccDin!PreCharge
  <2>1. DinTaken("PreCharge")
    BY <1>7, DinTakes DEF SeccDin!PreCharge, DinTaken
  <2>2. \/ /\ Stays("PreCharge", {})
           /\ UNCHANGED se
        \/ Finishes("PreCharge", "FAILED", FALSE) /\ UNCHANGED se
    BY <1>7, SeccDinSame, SeccDoes, NamesAre, CodesAre, WordsAre DEF SeccDin!PreCharge
  <2>3. SeccServed("PreCharge") \/ Fails("secc")
    BY <2>2 DEF SeccServed, SeccAnswers, Proceeds, Stays, Finishes
  <2>4. se' \in SeFields
    BY <2>2 DEF SeFields, Proceeds, Stays, Finishes, Fails, Responds
  <2>5. S' \in DinStates /\ wire.name # "SupportedAppProtocol"
    BY <2>1, <2>2
      DEF DinStates, DinTaken, DinFollows, Proceeds, Stays, Finishes, Responds, Fails, S
  <2>6. DinInv'
    <3> USE <2>1, <2>2
      DEF DIN, ISO2, ISO20, WireInv, EndInv, DinTaken, DinInv, DinAuth, DinPath, DinStop,
        Proceeds, Stays, Finishes, Fails, Peer, Responds, Kept, Off, RunsOn, SeccStops,
        Stopping, Ac, Requested, Granted, SeccRuns, EvccRuns, SeccMarked, Speaks, E, S,
        DinFollows, SeFields, GrantedV1, CoreTyped, Ends
    <3>1. DinAuth'
      OBVIOUS
    <3>2. DinPath'
      OBVIOUS
    <3>3. DinStop'
      OBVIOUS
    <3>4. DinTurn'
      BY DEF DinTurn, DinFits, DinLeads, DinNext, Advances, Answered, Orderly, EvccMarked
    <3> QED
      BY <3>1, <3>2, <3>3, <3>4
  <2>7. SeccEnergy
    BY <2>2 DEF SeccEnergy, SeFields
  <2> QED
    BY <2>1, <2>3, <2>4, <2>5, <2>6, <2>7, SeccFrame DEF DinTaken, WireInv, Requested, SeccServed
<1>8. CASE SeccDin!PowerDelivery
  <2>1. DinTaken("PowerDelivery")
    BY <1>8, DinTakes DEF SeccDin!PowerDelivery, DinTaken
  <2>2. \/ /\ "Start" \in wire.info
           /\ Proceeds("PowerDelivery", {}, "CurrentDemand", {})
           /\ se' = [se EXCEPT !.hlc = TRUE, !.started = TRUE]
        \/ /\ "Start" \notin wire.info
           /\ Stays("PowerDelivery", {})
           /\ se' = [se EXCEPT !.hlc = FALSE, !.contactor = "open"]
        \/ /\ "Start" \notin wire.info
           /\ Finishes("PowerDelivery", "FAILED", FALSE)
           /\ se' = [se EXCEPT !.hlc = FALSE]
    BY <1>8, SeccDinSame, SeccDoes, NamesAre, CodesAre, WordsAre DEF SeccDin!PowerDelivery
  <2>3. SeccServed("PowerDelivery") \/ Fails("secc")
    BY <2>2 DEF SeccServed, SeccAnswers, Proceeds, Stays, Finishes
  <2>4. se' \in SeFields
    BY <2>2, ZenonT(60) DEF SeFields, Proceeds, Stays, Finishes, Fails, Responds
  <2>5. S' \in DinStates /\ wire.name # "SupportedAppProtocol"
    BY <2>1, <2>2
      DEF DinStates, DinTaken, DinFollows, Proceeds, Stays, Finishes, Responds, Fails, S
  <2>6. DinInv'
    <3> USE <2>1, <2>2
      DEF DIN, ISO2, ISO20, WireInv, EndInv, DinTaken, DinInv, DinAuth, DinPath, DinStop,
        Proceeds, Stays, Finishes, Fails, Peer, Responds, Kept, Off, RunsOn, SeccStops,
        Stopping, Ac, Requested, Granted, SeccRuns, EvccRuns, SeccMarked, Speaks, E, S,
        DinFollows, SeFields, GrantedV1, CoreTyped, Ends
    <3>1. DinAuth'
      BY ZenonT(60)
    <3>2. DinPath'
      BY ZenonT(60)
    <3>3. DinStop'
      OBVIOUS
    <3>4. DinTurn'
      BY DEF DinTurn, DinFits, DinLeads, DinNext, Advances, Answered, Orderly, EvccMarked
    <3> QED
      BY <3>1, <3>2, <3>3, <3>4
  <2>7. SeccEnergy
    <3>1. CarReady
      BY <2>1 DEF CarReady, CarInv, CarEnabled, PowerStates, DinTaken, WireInv, Requested, E
    <3> QED
      BY <2>1, <2>2, <3>1
        DEF SeccEnergy, SeFields, DinTaken, WireInv, Requested, Proceeds, Stays, Finishes,
             SeccStops, SeccRuns, DinInv, DinPath, EvccRuns
  <2> QED
    BY <2>1, <2>3, <2>4, <2>5, <2>6, <2>7, SeccFrame DEF DinTaken, WireInv, Requested, SeccServed
<1>9. CASE SeccDin!CurrentDemand
  <2>1. DinTaken("CurrentDemand")
    BY <1>9, DinTakes DEF SeccDin!CurrentDemand, DinTaken
  <2>2. \/ /\ Stays("CurrentDemand", {})
           /\ UNCHANGED se
        \/ /\ Stays("CurrentDemand", { "stop" })
           /\ UNCHANGED se
        \/ Finishes("CurrentDemand", "FAILED", FALSE) /\ UNCHANGED se
    BY <1>9, SeccDinSame, SeccDoes, NamesAre, CodesAre, WordsAre DEF SeccDin!CurrentDemand
  <2>3. SeccServed("CurrentDemand") \/ Fails("secc")
    BY <2>2 DEF SeccServed, SeccAnswers, Proceeds, Stays, Finishes
  <2>4. se' \in SeFields
    BY <2>2 DEF SeFields, Proceeds, Stays, Finishes, Fails, Responds
  <2>5. S' \in DinStates /\ wire.name # "SupportedAppProtocol"
    BY <2>1, <2>2
      DEF DinStates, DinTaken, DinFollows, Proceeds, Stays, Finishes, Responds, Fails, S
  <2>6. DinInv'
    <3> USE <2>1, <2>2
      DEF DIN, ISO2, ISO20, WireInv, EndInv, DinTaken, DinInv, DinAuth, DinPath, DinStop,
        Proceeds, Stays, Finishes, Fails, Peer, Responds, Kept, Off, RunsOn, SeccStops,
        Stopping, Ac, Requested, Granted, SeccRuns, EvccRuns, SeccMarked, Speaks, E, S,
        DinFollows, SeFields, GrantedV1, CoreTyped, Ends
    <3>1. DinAuth'
      OBVIOUS
    <3>2. DinPath'
      OBVIOUS
    <3>3. DinStop'
      OBVIOUS
    <3>4. DinTurn'
      BY DEF DinTurn, DinFits, DinLeads, DinNext, Advances, Answered, Orderly, EvccMarked
    <3> QED
      BY <3>1, <3>2, <3>3, <3>4
  <2>7. SeccEnergy
    BY <2>2 DEF SeccEnergy, SeFields
  <2> QED
    BY <2>1, <2>3, <2>4, <2>5, <2>6, <2>7, SeccFrame DEF DinTaken, WireInv, Requested, SeccServed
<1>10. CASE SeccDin!WeldingDetection
  <2>1. DinTaken("WeldingDetection")
    BY <1>10, DinTakes DEF SeccDin!WeldingDetection, DinTaken
  <2>2. /\ Stays("WeldingDetection", {})
        /\ UNCHANGED se
    BY <1>10, SeccDinSame, SeccDoes, NamesAre, CodesAre, WordsAre DEF SeccDin!WeldingDetection
  <2>3. SeccServed("WeldingDetection") \/ Fails("secc")
    BY <2>2 DEF SeccServed, SeccAnswers, Proceeds, Stays, Finishes
  <2>4. se' \in SeFields
    BY <2>2 DEF SeFields, Proceeds, Stays, Finishes, Fails, Responds
  <2>5. S' \in DinStates /\ wire.name # "SupportedAppProtocol"
    BY <2>1, <2>2
      DEF DinStates, DinTaken, DinFollows, Proceeds, Stays, Finishes, Responds, Fails, S
  <2>6. DinInv'
    <3> USE <2>1, <2>2
      DEF DIN, ISO2, ISO20, WireInv, EndInv, DinTaken, DinInv, DinAuth, DinPath, DinStop,
        Proceeds, Stays, Finishes, Fails, Peer, Responds, Kept, Off, RunsOn, SeccStops,
        Stopping, Ac, Requested, Granted, SeccRuns, EvccRuns, SeccMarked, Speaks, E, S,
        DinFollows, SeFields, GrantedV1, CoreTyped, Ends
    <3>1. DinAuth'
      OBVIOUS
    <3>2. DinPath'
      OBVIOUS
    <3>3. DinStop'
      OBVIOUS
    <3>4. DinTurn'
      BY DEF DinTurn, DinFits, DinLeads, DinNext, Advances, Answered, Orderly, EvccMarked
    <3> QED
      BY <3>1, <3>2, <3>3, <3>4
  <2>7. SeccEnergy
    BY <2>2 DEF SeccEnergy, SeFields
  <2> QED
    BY <2>1, <2>3, <2>4, <2>5, <2>6, <2>7, SeccFrame DEF DinTaken, WireInv, Requested, SeccServed
<1>11. CASE SeccDin!SessionStop
  <2>1. DinTaken("SessionStop")
    BY <1>11, DinTakes DEF SeccDin!SessionStop, DinTaken
  <2>2. Finishes("SessionStop", "OK", TRUE) /\ UNCHANGED se
    BY <1>11, SeccDinSame, SeccDoes, NamesAre, CodesAre, WordsAre DEF SeccDin!SessionStop
  <2>3. SeccServed("SessionStop") \/ Fails("secc")
    BY <2>2 DEF SeccServed, SeccAnswers, Proceeds, Stays, Finishes
  <2>4. se' \in SeFields
    BY <2>2 DEF SeFields, Proceeds, Stays, Finishes, Fails, Responds
  <2>5. S' \in DinStates /\ wire.name # "SupportedAppProtocol"
    BY <2>1, <2>2
      DEF DinStates, DinTaken, DinFollows, Proceeds, Stays, Finishes, Responds, Fails, S
  <2>6. DinInv'
    <3> USE <2>1, <2>2
      DEF DIN, ISO2, ISO20, WireInv, EndInv, DinTaken, DinInv, DinAuth, DinPath, DinStop,
        Proceeds, Stays, Finishes, Fails, Peer, Responds, Kept, Off, RunsOn, SeccStops,
        Stopping, Ac, Requested, Granted, SeccRuns, EvccRuns, SeccMarked, Speaks, E, S,
        DinFollows, SeFields, GrantedV1, CoreTyped, Ends
    <3>1. DinAuth'
      OBVIOUS
    <3>2. DinPath'
      OBVIOUS
    <3>3. DinStop'
      OBVIOUS
    <3>4. DinTurn'
      BY DEF DinTurn, DinFits, DinLeads, DinNext, Advances, Answered, Orderly, EvccMarked
    <3> QED
      BY <3>1, <3>2, <3>3, <3>4
  <2>7. SeccEnergy
    BY <2>2 DEF SeccEnergy, SeFields
  <2> QED
    BY <2>1, <2>3, <2>4, <2>5, <2>6, <2>7, SeccFrame DEF DinTaken, WireInv, Requested, SeccServed
<1> QED
  BY <1>1, <1>2, <1>3, <1>4, <1>5, <1>6, <1>7, <1>8, <1>9, <1>10, <1>11 DEF SeccDin!Handle

-----------------------------------------------------------------------------

Iso2Taken(r) ==
  /\ Requested /\ SeccRuns /\ wire.name = r
  /\ S = r \/ (SeccMarked("answered") /\ << S, r >> \in Iso2Follows)

\* Every handler of ISO 15118-2's SECC keeps the invariant.
LEMMA Iso2SeccStep ==
  ASSUME settings \in Settings, CoreTyped, se \in SeFields, Iso2Inv, WireInv, EndInv, CarInv,
         Speaks(ISO2), S \in Iso2States, Secc2!Handle,
         UNCHANGED << settings, protocol, ev >>
  PROVE  /\ CoreTyped' /\ WireInv' /\ EndInv' /\ CarInv' /\ E' = E
         /\ se' \in SeFields /\ S' \in Iso2States /\ E # "SupportedAppProtocol"
         /\ Iso2Inv' /\ SeccEnergy /\ SeccRuns /\ run'["evcc"] = run["evcc"]
         /\ SeccServed(wire.name) \/ Fails("secc")
<1>1. CASE Secc2!SessionSetup
  <2>1. Iso2Taken("SessionSetup")
    BY <1>1, Iso2Takes DEF Secc2!SessionSetup, Iso2Taken
  <2>2. Proceeds("SessionSetup", {}, "ServiceDiscovery", {}) /\ UNCHANGED se
    BY <1>1, Secc2Same, SeccDoes, NamesAre, CodesAre, WordsAre DEF Secc2!SessionSetup
  <2>3. SeccServed("SessionSetup") \/ Fails("secc")
    BY <2>2 DEF SeccServed, SeccAnswers, Proceeds, Stays, Finishes
  <2>4. se' \in SeFields
    BY <2>2 DEF SeFields, Proceeds, Stays, Finishes, Fails, Responds
  <2>5. S' \in Iso2States /\ wire.name # "SupportedAppProtocol"
    BY <2>1, <2>2
      DEF Iso2States, Iso2Taken, Iso2Follows, Proceeds, Stays, Finishes, Responds, Fails, S
  <2>6. Iso2Inv'
    <3> USE <2>1, <2>2
      DEF DIN, ISO2, ISO20, WireInv, EndInv, Iso2Taken, Iso2Inv, Iso2Auth, Iso2Path, Iso2Stop,
        Proceeds, Stays, Finishes, Fails, Peer, Responds, Kept, Off, RunsOn, SeccStops,
        Stopping, Ac, Requested, Granted, SeccRuns, EvccRuns, SeccMarked, Speaks, E, S,
        Iso2Follows, SeFields, GrantedV1, ChargesV1, CoreTyped, Ends
    <3>1. Iso2Auth'
      OBVIOUS
    <3>2. Iso2Path'
      OBVIOUS
    <3>3. Iso2Stop'
      OBVIOUS
    <3>4. Iso2Turn'
      BY ZenonT(60) DEF Iso2Turn, Iso2Fits, Iso2Leads, Iso2Asks, Iso2Next, Advances, Answered,
          Orderly, EvccMarked
    <3> QED
      BY <3>1, <3>2, <3>3, <3>4
  <2>7. SeccEnergy
    BY <2>2 DEF SeccEnergy, SeFields
  <2> QED
    BY <2>1, <2>3, <2>4, <2>5, <2>6, <2>7, SeccFrame DEF Iso2Taken, WireInv, Requested, SeccServed
<1>2. CASE Secc2!ServiceDiscovery
  <2>1. Iso2Taken("ServiceDiscovery")
    BY <1>2, Iso2Takes DEF Secc2!ServiceDiscovery, Iso2Taken
  <2>2. \E options \in SUBSET { "EIM", "PnC" } : \E info :
          /\ se' = [se EXCEPT !.offered = options]
          /\ \/ Fails("secc")
             \/ Stays("ServiceDiscovery", info)
    <3>1. PICK options \in SUBSET { "EIM", "PnC" }, services \in SUBSET { "Certificate" } :
            /\ se' = [se EXCEPT !.offered = options]
            /\ Crash("secc") \/ Remain("ServiceDiscovery", options \union services, {})
      BY <1>2, Secc2Same, SettingsAssumption DEF Secc2!ServiceDiscovery, Setting
    <3>2. options \union services \in SUBSET Words
      BY DEF Words
    <3> QED
      BY <3>1, <3>2, SeccDoes, NamesAre
  <2>3. SeccServed("ServiceDiscovery") \/ Fails("secc")
    BY <2>2 DEF SeccServed, SeccAnswers, Proceeds, Stays, Finishes
  <2>4. se' \in SeFields
    BY <2>2 DEF SeFields, Proceeds, Stays, Finishes, Fails, Responds
  <2>5. S' \in Iso2States /\ wire.name # "SupportedAppProtocol"
    BY <2>1, <2>2
      DEF Iso2States, Iso2Taken, Iso2Follows, Proceeds, Stays, Finishes, Responds, Fails, S
  <2>6. Iso2Inv'
    <3> USE <2>1, <2>2
      DEF DIN, ISO2, ISO20, WireInv, EndInv, Iso2Taken, Iso2Inv, Iso2Auth, Iso2Path, Iso2Stop,
        Proceeds, Stays, Finishes, Fails, Peer, Responds, Kept, Off, RunsOn, SeccStops,
        Stopping, Ac, Requested, Granted, SeccRuns, EvccRuns, SeccMarked, Speaks, E, S,
        Iso2Follows, SeFields, GrantedV1, ChargesV1, CoreTyped, Ends
    <3>1. Iso2Auth'
      OBVIOUS
    <3>2. Iso2Path'
      OBVIOUS
    <3>3. Iso2Stop'
      OBVIOUS
    <3>4. Iso2Turn'
      <4>1. Orderly' => Orderly /\ Answered("ServiceDiscovery")' /\ E' = "ServiceDiscovery" /\ ~ Requested'
        BY DEF Answered, Orderly
      <4>2. Orderly => ~ ev.renegotiating
        BY DEF Iso2Turn
      <4> QED
        BY <4>1, <4>2 DEF Iso2Turn, Iso2Leads
    <3> QED
      BY <3>1, <3>2, <3>3, <3>4
  <2>7. SeccEnergy
    BY <2>2 DEF SeccEnergy, SeFields
  <2> QED
    BY <2>1, <2>3, <2>4, <2>5, <2>6, <2>7, SeccFrame DEF Iso2Taken, WireInv, Requested, SeccServed
<1>3. CASE Secc2!ServiceDetail
  <2>1. Iso2Taken("ServiceDetail")
    BY <1>3, Iso2Takes DEF Secc2!ServiceDetail, Iso2Taken
  <2>2. /\ Stays("ServiceDetail", {})
        /\ UNCHANGED se
    BY <1>3, Secc2Same, SeccDoes, NamesAre, CodesAre, WordsAre DEF Secc2!ServiceDetail
  <2>3. SeccServed("ServiceDetail") \/ Fails("secc")
    BY <2>2 DEF SeccServed, SeccAnswers, Proceeds, Stays, Finishes
  <2>4. se' \in SeFields
    BY <2>2 DEF SeFields, Proceeds, Stays, Finishes, Fails, Responds
  <2>5. S' \in Iso2States /\ wire.name # "SupportedAppProtocol"
    BY <2>1, <2>2
      DEF Iso2States, Iso2Taken, Iso2Follows, Proceeds, Stays, Finishes, Responds, Fails, S
  <2>6. Iso2Inv'
    <3> USE <2>1, <2>2
      DEF DIN, ISO2, ISO20, WireInv, EndInv, Iso2Taken, Iso2Inv, Iso2Auth, Iso2Path, Iso2Stop,
        Proceeds, Stays, Finishes, Fails, Peer, Responds, Kept, Off, RunsOn, SeccStops,
        Stopping, Ac, Requested, Granted, SeccRuns, EvccRuns, SeccMarked, Speaks, E, S,
        Iso2Follows, SeFields, GrantedV1, ChargesV1, CoreTyped, Ends
    <3>1. Iso2Auth'
      OBVIOUS
    <3>2. Iso2Path'
      OBVIOUS
    <3>3. Iso2Stop'
      OBVIOUS
    <3>4. Iso2Turn'
      <4>1. Orderly' => Orderly /\ Answered("ServiceDetail")' /\ E' = "ServiceDetail" /\ ~ Requested'
        BY DEF Answered, Orderly
      <4>2. Orderly => ~ ev.renegotiating
        BY DEF Iso2Turn
      <4> QED
        BY <4>1, <4>2 DEF Iso2Turn, Iso2Leads
    <3> QED
      BY <3>1, <3>2, <3>3, <3>4
  <2>7. SeccEnergy
    BY <2>2 DEF SeccEnergy, SeFields
  <2> QED
    BY <2>1, <2>3, <2>4, <2>5, <2>6, <2>7, SeccFrame DEF Iso2Taken, WireInv, Requested, SeccServed
<1>4. CASE Secc2!PaymentServiceSelection
  <2>1. Iso2Taken("PaymentServiceSelection")
    BY <1>4, Iso2Takes DEF Secc2!PaymentServiceSelection, Iso2Taken
  <2>2. \/ /\ \E a \in Words : se' = [se EXCEPT !.auth = a]
           /\ Stays("PaymentServiceSelection", {})
        \/ Finishes("PaymentServiceSelection", "FAILED", FALSE) /\ UNCHANGED se
    <3>1. wire.info \subseteq Words
      BY DEF CoreTyped, Messages
    <3> QED
      BY <1>4, <3>1, Secc2Same, SeccDoes, NamesAre, WordsAre DEF Secc2!PaymentServiceSelection
  <2>3. SeccServed("PaymentServiceSelection") \/ Fails("secc")
    BY <2>2 DEF SeccServed, SeccAnswers, Proceeds, Stays, Finishes
  <2>4. se' \in SeFields
    BY <2>2 DEF SeFields, Proceeds, Stays, Finishes, Fails, Responds
  <2>5. S' \in Iso2States /\ wire.name # "SupportedAppProtocol"
    BY <2>1, <2>2
      DEF Iso2States, Iso2Taken, Iso2Follows, Proceeds, Stays, Finishes, Responds, Fails, S
  <2>6. Iso2Inv'
    <3> USE <2>1, <2>2
      DEF DIN, ISO2, ISO20, WireInv, EndInv, Iso2Taken, Iso2Inv, Iso2Auth, Iso2Path, Iso2Stop,
        Proceeds, Stays, Finishes, Fails, Peer, Responds, Kept, Off, RunsOn, SeccStops,
        Stopping, Ac, Requested, Granted, SeccRuns, EvccRuns, SeccMarked, Speaks, E, S,
        Iso2Follows, SeFields, GrantedV1, ChargesV1, CoreTyped, Ends
    <3>1. Iso2Auth'
      OBVIOUS
    <3>2. Iso2Path'
      OBVIOUS
    <3>3. Iso2Stop'
      OBVIOUS
    <3>4. Iso2Turn'
      <4>1. Orderly' => Orderly /\ Answered("PaymentServiceSelection")' /\ E' = "PaymentServiceSelection" /\ ~ Requested'
        BY DEF Answered, Orderly
      <4>2. Orderly => ~ ev.renegotiating
        BY DEF Iso2Turn
      <4> QED
        BY <4>1, <4>2 DEF Iso2Turn, Iso2Leads
    <3> QED
      BY <3>1, <3>2, <3>3, <3>4
  <2>7. SeccEnergy
    BY <2>2 DEF SeccEnergy, SeFields
  <2> QED
    BY <2>1, <2>3, <2>4, <2>5, <2>6, <2>7, SeccFrame DEF Iso2Taken, WireInv, Requested, SeccServed
<1>5. CASE Secc2!CertificateInstallation
  <2>1. Iso2Taken("CertificateInstallation")
    BY <1>5, Iso2Takes DEF Secc2!CertificateInstallation, Iso2Taken
  <2>2. \/ /\ Proceeds("CertificateInstallation", {}, "PaymentDetails", {})
           /\ UNCHANGED se
        \/ Finishes("CertificateInstallation", "FAILED", FALSE) /\ UNCHANGED se
    BY <1>5, Secc2Same, SeccDoes, NamesAre, CodesAre, WordsAre DEF Secc2!CertificateInstallation
  <2>3. SeccServed("CertificateInstallation") \/ Fails("secc")
    BY <2>2 DEF SeccServed, SeccAnswers, Proceeds, Stays, Finishes
  <2>4. se' \in SeFields
    BY <2>2 DEF SeFields, Proceeds, Stays, Finishes, Fails, Responds
  <2>5. S' \in Iso2States /\ wire.name # "SupportedAppProtocol"
    BY <2>1, <2>2
      DEF Iso2States, Iso2Taken, Iso2Follows, Proceeds, Stays, Finishes, Responds, Fails, S
  <2>6. Iso2Inv'
    <3> USE <2>1, <2>2
      DEF DIN, ISO2, ISO20, WireInv, EndInv, Iso2Taken, Iso2Inv, Iso2Auth, Iso2Path, Iso2Stop,
        Proceeds, Stays, Finishes, Fails, Peer, Responds, Kept, Off, RunsOn, SeccStops,
        Stopping, Ac, Requested, Granted, SeccRuns, EvccRuns, SeccMarked, Speaks, E, S,
        Iso2Follows, SeFields, GrantedV1, ChargesV1, CoreTyped, Ends
    <3>1. Iso2Auth'
      OBVIOUS
    <3>2. Iso2Path'
      OBVIOUS
    <3>3. Iso2Stop'
      OBVIOUS
    <3>4. Iso2Turn'
      <4>1. Orderly' =>
              Orderly /\ E' = "CertificateInstallation" /\ S' = "PaymentDetails" /\ ~ Requested'
        BY DEF Orderly
      <4>2. Orderly => ~ ev.renegotiating
        BY DEF Iso2Turn
      <4> QED
        BY <4>1, <4>2 DEF Iso2Turn, Iso2Leads, Iso2Next, Answered
    <3> QED
      BY <3>1, <3>2, <3>3, <3>4
  <2>7. SeccEnergy
    BY <2>2 DEF SeccEnergy, SeFields
  <2> QED
    BY <2>1, <2>3, <2>4, <2>5, <2>6, <2>7, SeccFrame DEF Iso2Taken, WireInv, Requested, SeccServed
<1>6. CASE Secc2!PaymentDetails
  <2>1. Iso2Taken("PaymentDetails")
    BY <1>6, Iso2Takes DEF Secc2!PaymentDetails, Iso2Taken
  <2>2. \/ Finishes("PaymentDetails", "FAILED", FALSE) /\ UNCHANGED se
        \/ /\ se' = [se EXCEPT !.chain = TRUE]
           /\ \E code \in { "OK", "FAILED" } :
                \/ Responds("PaymentDetails", code, {}, "Authorization", {}) /\ RunsOn
                \/ Finishes("PaymentDetails", code, FALSE)
    <3>1. ASSUME NEW code \in { "OK", "FAILED" }
          PROVE  /\ Respond("PaymentDetails", code, {}, New("Authorization")) =>
                      Responds("PaymentDetails", code, {}, "Authorization", {}) /\ RunsOn
                 /\ Last("PaymentDetails", code, FALSE) => Finishes("PaymentDetails", code, FALSE)
      <4>1. code \in Codes
        BY CodesAre
      <4> QED
        BY <4>1, SeccDoes, NamesAre, WordsAre
    <3>2. Refuse("PaymentDetails") => Finishes("PaymentDetails", "FAILED", FALSE)
      BY SeccDoes, NamesAre
    <3> QED
      BY <1>6, <3>1, <3>2, Secc2Same DEF Secc2!PaymentDetails
  <2>3. SeccServed("PaymentDetails") \/ Fails("secc")
    <3>1. PICK code \in { "OK", "FAILED" } : SeccAnswers("PaymentDetails", code)
      BY <2>2, ZenonT(40) DEF SeccAnswers, Finishes
    <3>2. code = "OK" \/ code = "FAILED"
      OBVIOUS
    <3> QED
      BY <3>1, <3>2, Zenon DEF SeccServed
  <2>4. se' \in SeFields
    BY <2>2 DEF SeFields, Proceeds, Stays, Finishes, Fails, Responds
  <2>5. S' \in Iso2States /\ wire.name # "SupportedAppProtocol"
    BY <2>1, <2>2
      DEF Iso2States, Iso2Taken, Iso2Follows, Proceeds, Stays, Finishes, Responds, Fails, S
  <2>6. Iso2Inv'
    <3> USE <2>1, <2>2
      DEF DIN, ISO2, ISO20, WireInv, EndInv, Iso2Taken, Iso2Inv, Iso2Auth, Iso2Path, Iso2Stop,
        Proceeds, Stays, Finishes, Fails, Peer, Responds, Kept, Off, RunsOn, SeccStops,
        Stopping, Ac, Requested, Granted, SeccRuns, EvccRuns, SeccMarked, Speaks, E, S,
        Iso2Follows, SeFields, GrantedV1, ChargesV1, CoreTyped, Ends
    <3>1. Iso2Auth'
      OBVIOUS
    <3>2. Iso2Path'
      OBVIOUS
    <3>3. Iso2Stop'
      OBVIOUS
    <3>4. Iso2Turn'
      <4>1. Orderly' =>
              Orderly /\ E' = "PaymentDetails" /\ S' = "Authorization" /\ ~ Requested'
        BY DEF Orderly
      <4>2. Orderly => ~ ev.renegotiating
        BY DEF Iso2Turn
      <4> QED
        BY <4>1, <4>2 DEF Iso2Turn, Iso2Leads, Iso2Next, Answered
    <3> QED
      BY <3>1, <3>2, <3>3, <3>4
  <2>7. SeccEnergy
    BY <2>2 DEF SeccEnergy, SeFields
  <2> QED
    BY <2>1, <2>3, <2>4, <2>5, <2>6, <2>7, SeccFrame DEF Iso2Taken, WireInv, Requested, SeccServed
<1>7. CASE Secc2!Authorization
  <2>1. Iso2Taken("Authorization")
    BY <1>7, Iso2Takes DEF Secc2!Authorization, Secc2!Completes, Iso2Taken
  <2>2. \E granted \in BOOLEAN, code \in { "OK", "FAILED" } :
          /\ se' = [se EXCEPT !.granted = granted] /\ (se.granted => granted)
          /\ \/ Finishes("Authorization", code, FALSE)
             \/ /\ granted \/ "complete" \in Kept("Authorization")
                /\ Responds("Authorization", code, { "finished" }, "ChargeParameterDiscovery", {})
                /\ RunsOn
             \/ \E marks \in SUBSET Marks :
                  /\ "complete" \in marks => granted \/ "complete" \in Kept("Authorization")
                  /\ Responds("Authorization", code, {}, "Authorization", marks)
                  /\ RunsOn
    <3> DEFINE done == Marked("Authorization", "complete")
    <3>1. CASE Refuse("Authorization") /\ UNCHANGED se
      <4>1. se' = [se EXCEPT !.granted = se.granted] /\ se.granted \in BOOLEAN
        BY <3>1 DEF SeFields
      <4> QED
        BY <3>1, <4>1, SeccDoes, NamesAre, CodesAre
    <3>2. ASSUME NEW status \in { "ACCEPTED", "ONGOING", "REJECTED" }, NEW code \in { "OK", "FAILED" },
                 NEW marks \in SUBSET Marks,
                 se' = [se EXCEPT !.granted = @ \/ status = "ACCEPTED"],
                 "complete" \in marks => done \/ Secc2!Completes(status),
                 \/ /\ done \/ Secc2!Completes(status)
                    /\ Respond("Authorization", code, { "finished" }, New("ChargeParameterDiscovery"))
                 \/ Last("Authorization", code, FALSE)
                 \/ Respond("Authorization", code, {}, [Object("Authorization") EXCEPT !.marks = marks])
          PROVE  \E g \in BOOLEAN, given \in { "OK", "FAILED" } :
                 /\ se' = [se EXCEPT !.granted = g] /\ (se.granted => g)
                 /\ \/ Finishes("Authorization", given, FALSE)
                    \/ /\ g \/ "complete" \in Kept("Authorization")
                       /\ Responds("Authorization", given, { "finished" }, "ChargeParameterDiscovery", {})
                       /\ RunsOn
                    \/ \E kept \in SUBSET Marks :
                         /\ "complete" \in kept => g \/ "complete" \in Kept("Authorization")
                         /\ Responds("Authorization", given, {}, "Authorization", kept)
                         /\ RunsOn
      <4> DEFINE granted == se.granted \/ status = "ACCEPTED"
      <4>1. granted \in BOOLEAN /\ se' = [se EXCEPT !.granted = granted] /\ (se.granted => granted)
        BY <3>2 DEF SeFields
      <4>2. done \/ Secc2!Completes(status) => granted \/ "complete" \in Kept("Authorization")
        BY ObjectIs, NamesAre DEF Marked, Secc2!Completes
      <4>6. code \in Codes
        BY CodesAre
      <4> HIDE DEF granted, done
      <4>3. CASE Last("Authorization", code, FALSE)
        BY <4>1, <4>3, <4>6, SeccDoes, NamesAre
      <4>4. CASE /\ done \/ Secc2!Completes(status)
                 /\ Respond("Authorization", code, { "finished" }, New("ChargeParameterDiscovery"))
        BY <4>1, <4>2, <4>4, <4>6, SeccDoes, NamesAre, WordsAre
      <4>5. CASE Respond("Authorization", code, {}, [Object("Authorization") EXCEPT !.marks = marks])
        <5> DEFINE object == [Object("Authorization") EXCEPT !.marks = marks]
        <5>1. object \in Objects /\ object.name = "Authorization" /\ object.marks = marks
          BY MarkedObjectIs, NamesAre
        <5>2. Respond("Authorization", code, {}, object)
          BY <4>5
        <5> HIDE DEF object
        <5>3. Responds("Authorization", code, {}, "Authorization", marks) /\ RunsOn
          BY <4>6, <5>1, <5>2, RespondDoes, NamesAre, WordsAre
        <5> QED
          BY <3>2, <4>1, <4>2, <5>3
      <4> QED
        BY <3>2, <4>3, <4>4, <4>5
    <3>3. ASSUME NEW status \in { "ACCEPTED", "ONGOING", "REJECTED" }, NEW ready \in BOOLEAN,
                 NEW code \in { "OK", "FAILED" },
                 se' = [se EXCEPT !.granted = @ \/ status = "ACCEPTED"],
                 IF (done \/ Secc2!Completes(status)) /\ ready
                 THEN Respond("Authorization", code, { "finished" }, New("ChargeParameterDiscovery"))
                 ELSE IF status = "REJECTED" THEN Last("Authorization", code, FALSE)
                 ELSE Respond("Authorization", code, {},
                        [Object("Authorization") EXCEPT !.marks = { "verified" } \union
                           IF done \/ Secc2!Completes(status) THEN { "complete" } ELSE {}])
          PROVE  \E g \in BOOLEAN, given \in { "OK", "FAILED" } :
                 /\ se' = [se EXCEPT !.granted = g] /\ (se.granted => g)
                 /\ \/ Finishes("Authorization", given, FALSE)
                    \/ /\ g \/ "complete" \in Kept("Authorization")
                       /\ Responds("Authorization", given, { "finished" }, "ChargeParameterDiscovery", {})
                       /\ RunsOn
                    \/ \E kept \in SUBSET Marks :
                         /\ "complete" \in kept => g \/ "complete" \in Kept("Authorization")
                         /\ Responds("Authorization", given, {}, "Authorization", kept)
                         /\ RunsOn
      <4> DEFINE marks == { "verified" } \union
                            IF done \/ Secc2!Completes(status) THEN { "complete" } ELSE {}
      <4>1. marks \in SUBSET Marks /\ ("complete" \in marks => done \/ Secc2!Completes(status))
        BY DEF Marks
      <4> HIDE DEF done
      <4> QED
        BY <3>2, <3>3, <4>1
    <3> QED
      BY <1>7, <3>1, <3>3, Secc2Same, CodesAre, ZenonT(60) DEF Secc2!Authorization, Secc2!Completes
  <2>3. SeccServed("Authorization") \/ Fails("secc")
    <3>1. PICK code \in { "OK", "FAILED" } : SeccAnswers("Authorization", code)
      BY <2>2, ZenonT(40) DEF SeccAnswers, Finishes
    <3>2. code = "OK" \/ code = "FAILED"
      OBVIOUS
    <3> QED
      BY <3>1, <3>2, Zenon DEF SeccServed
  <2>4. se' \in SeFields
    BY <2>2 DEF SeFields, Proceeds, Stays, Finishes, Fails, Responds
  <2>5. S' \in Iso2States /\ wire.name # "SupportedAppProtocol"
    BY <2>1, <2>2
      DEF Iso2States, Iso2Taken, Iso2Follows, Proceeds, Stays, Finishes, Responds, Fails, S
  <2>6. Iso2Inv'
    <3> USE <2>1, <2>2
      DEF DIN, ISO2, ISO20, WireInv, EndInv, Iso2Taken, Iso2Inv, Iso2Auth, Iso2Path, Iso2Stop,
        Proceeds, Stays, Finishes, Fails, Peer, Responds, Kept, Off, RunsOn, SeccStops,
        Stopping, Ac, Requested, Granted, SeccRuns, EvccRuns, SeccMarked, Speaks, E, S,
        Iso2Follows, SeFields, GrantedV1, ChargesV1, CoreTyped, Ends
    <3>1. Iso2Auth'
      OBVIOUS
    <3>2. Iso2Path'
      OBVIOUS
    <3>3. Iso2Stop'
      OBVIOUS
    <3>4. Iso2Turn'
      BY ZenonT(60) DEF Iso2Turn, Iso2Fits, Iso2Leads, Iso2Asks, Iso2Next, Advances, Answered,
          Orderly, EvccMarked
    <3> QED
      BY <3>1, <3>2, <3>3, <3>4
  <2>7. SeccEnergy
    BY <2>2 DEF SeccEnergy, SeFields
  <2> QED
    BY <2>1, <2>3, <2>4, <2>5, <2>6, <2>7, SeccFrame DEF Iso2Taken, WireInv, Requested, SeccServed
<1>8. CASE Secc2!ChargeParameterDiscovery
  <2>1. Iso2Taken("ChargeParameterDiscovery")
    BY <1>8, Iso2Takes DEF Secc2!ChargeParameterDiscovery, Iso2Taken
  <2>2. \/ Finishes("ChargeParameterDiscovery", "FAILED", FALSE) /\ UNCHANGED se
        \/ /\ Proceeds("ChargeParameterDiscovery", { "finished" },
                       IF Ac THEN "PowerDelivery" ELSE "CableCheck", {})
           /\ UNCHANGED se
        \/ /\ Proceeds("ChargeParameterDiscovery", {}, "ChargeParameterDiscovery",
                       Kept("ChargeParameterDiscovery"))
           /\ UNCHANGED se
        \/ Fails("secc") /\ UNCHANGED se
    <3>1. Secc2!Ac <=> Ac
      BY DEF Secc2!Ac, Ac, Secc2!DIN, DIN
    <3> QED
      BY <1>8, <3>1, Secc2Same, SeccDoes, NamesAre, WordsAre DEF Secc2!ChargeParameterDiscovery
  <2>3. SeccServed("ChargeParameterDiscovery") \/ Fails("secc")
    BY <2>2 DEF SeccServed, SeccAnswers, Proceeds, Stays, Finishes
  <2>4. se' \in SeFields
    BY <2>2 DEF SeFields, Proceeds, Stays, Finishes, Fails, Responds
  <2>5. S' \in Iso2States /\ wire.name # "SupportedAppProtocol"
    BY <2>1, <2>2
      DEF Iso2States, Iso2Taken, Iso2Follows, Proceeds, Stays, Finishes, Responds, Fails, S
  <2>6. Iso2Inv'
    <3> USE <2>1, <2>2
      DEF DIN, ISO2, ISO20, WireInv, EndInv, Iso2Taken, Iso2Inv, Iso2Auth, Iso2Path, Iso2Stop,
        Proceeds, Stays, Finishes, Fails, Peer, Responds, Kept, Off, RunsOn, SeccStops,
        Stopping, Ac, Requested, Granted, SeccRuns, EvccRuns, SeccMarked, Speaks, E, S,
        Iso2Follows, SeFields, GrantedV1, ChargesV1, CoreTyped, Ends
    <3>1. Iso2Auth'
      OBVIOUS
    <3>2. Iso2Path'
      OBVIOUS
    <3>3. Iso2Stop'
      OBVIOUS
    <3>4. Iso2Turn'
      BY DEF Iso2Turn, Iso2Fits, Iso2Leads, Iso2Asks, Iso2Next, Advances, Answered, Orderly,
          EvccMarked
    <3> QED
      BY <3>1, <3>2, <3>3, <3>4
  <2>7. SeccEnergy
    BY <2>2 DEF SeccEnergy, SeFields
  <2> QED
    BY <2>1, <2>3, <2>4, <2>5, <2>6, <2>7, SeccFrame DEF Iso2Taken, WireInv, Requested, SeccServed
<1>9. CASE Secc2!PowerDelivery
  <2>1. Iso2Taken("PowerDelivery")
    BY <1>9, Iso2Takes DEF Secc2!PowerDelivery, Iso2Taken
  <2>2. \/ Finishes("PowerDelivery", "FAILED", FALSE) /\ UNCHANGED se
        \/ "Start" \in wire.info /\ \E closed \in BOOLEAN :
             /\ se' = [se EXCEPT !.hlc = TRUE, !.started = @ \/ closed,
                                 !.contactor = IF closed THEN "closed" ELSE @]
             /\ IF closed THEN Proceeds("PowerDelivery", {},
                                        IF Ac THEN "ChargingStatus" ELSE "CurrentDemand", {})
                ELSE Finishes("PowerDelivery", "FAILED", FALSE)
        \/ "Stop" \in wire.info /\ \E opened \in BOOLEAN :
             /\ se' = [se EXCEPT !.hlc = FALSE, !.contactor = IF opened THEN "open" ELSE @]
             /\ IF ~ opened THEN Finishes("PowerDelivery", "FAILED", FALSE)
                ELSE IF Ac THEN Proceeds("PowerDelivery", {}, "SessionStop", {})
                ELSE Stays("PowerDelivery", {})
        \/ /\ "Renegotiate" \in wire.info
           /\ Proceeds("PowerDelivery", {}, "ChargeParameterDiscovery", {}) /\ UNCHANGED se
    <3>1. Secc2!Ac <=> Ac
      BY DEF Secc2!Ac, Ac, Secc2!DIN, DIN
    <3> USE <3>1, Secc2Same, SeccDoes, NamesAre, WordsAre
    <3>2. CASE Refuse("PowerDelivery") /\ UNCHANGED se
      BY <3>2
    <3>3. ASSUME NEW closed \in BOOLEAN,
                 IF closed THEN GoOn("PowerDelivery", {}, IF Ac THEN "ChargingStatus" ELSE "CurrentDemand")
                 ELSE Refuse("PowerDelivery")
          PROVE  IF closed THEN Proceeds("PowerDelivery", {},
                                        IF Ac THEN "ChargingStatus" ELSE "CurrentDemand", {})
                 ELSE Finishes("PowerDelivery", "FAILED", FALSE)
      BY <3>3
    <3>4. ASSUME NEW opened \in BOOLEAN,
                 IF ~ opened THEN Refuse("PowerDelivery")
                 ELSE IF Ac THEN GoOn("PowerDelivery", {}, "SessionStop")
                 ELSE Remain("PowerDelivery", {}, {})
          PROVE  IF ~ opened THEN Finishes("PowerDelivery", "FAILED", FALSE)
                 ELSE IF Ac THEN Proceeds("PowerDelivery", {}, "SessionStop", {})
                 ELSE Stays("PowerDelivery", {})
      BY <3>4
    <3>5. CASE /\ GoOn("PowerDelivery", {}, "ChargeParameterDiscovery") /\ UNCHANGED se
               /\ "Renegotiate" \in wire.info
      BY <3>5
    <3> QED
      BY <1>9, <3>2, <3>3, <3>4, <3>5 DEF Secc2!PowerDelivery
  <2>3. SeccServed("PowerDelivery") \/ Fails("secc")
    BY <2>2 DEF SeccServed, SeccAnswers, Proceeds, Stays, Finishes
  <2>4. se' \in SeFields
    BY <2>2, ZenonT(60) DEF SeFields, Proceeds, Stays, Finishes, Fails, Responds
  <2>5. S' \in Iso2States /\ wire.name # "SupportedAppProtocol"
    BY <2>1, <2>2
      DEF Iso2States, Iso2Taken, Iso2Follows, Proceeds, Stays, Finishes, Responds, Fails, S
  <2>6. Iso2Inv'
    <3>4. Iso2Turn'
      <4>1. SeccRuns' =>
              \/ "Start" \in wire.info /\ S' = IF Ac THEN "ChargingStatus" ELSE "CurrentDemand"
              \/ "Stop" \in wire.info /\ IF Ac THEN S' = "SessionStop" ELSE Answered("PowerDelivery")'
              \/ "Renegotiate" \in wire.info /\ S' = "ChargeParameterDiscovery"
        BY <2>2, ZenonT(60)
          DEF Proceeds, Stays, Finishes, Responds, SeccStops, SeccRuns, S, Answered, SeccMarked
      <4>2. Orderly' => Orderly /\ E' = "PowerDelivery" /\ ~ Requested'
        BY <2>1, <2>2
          DEF Orderly, Iso2Taken, WireInv, Proceeds, Stays, Finishes, Responds, RunsOn, SeccStops,
            SeccRuns, EvccRuns, Requested, E
      <4>3. Orderly => wire.info = { Iso2Asks } /\ (ev.renegotiating => ev.stop = "none")
        BY <2>1 DEF Iso2Taken, Iso2Inv, Iso2Turn, WireInv, Requested
      <4>4. Ac <=> settings.ac
        BY DEF Ac, Speaks, DIN, ISO2
      <4>6. Iso2Asks' = Iso2Asks
        BY DEF Iso2Asks
      <4>5. Orderly' => Iso2Leads'
        <5>1. CASE Iso2Asks = "Stop"
          <6>1. Orderly => wire.info = { "Stop" }
            BY <4>3, <5>1
          <6>2. Iso2Asks' = "Stop"
            BY <4>6, <5>1
          <6>3. Orderly' => IF Ac THEN S' = "SessionStop" ELSE Answered("PowerDelivery")'
            BY <4>1, <4>2, <6>1 DEF Orderly
          <6> QED
            BY <4>2, <4>4, <6>2, <6>3 DEF Iso2Leads
        <5>2. CASE Iso2Asks = "Renegotiate"
          <6>1. Orderly => wire.info = { "Renegotiate" }
            BY <4>3, <5>2
          <6>2. Iso2Asks' = "Renegotiate"
            BY <4>6, <5>2
          <6>3. Orderly' => S' = "ChargeParameterDiscovery"
            BY <4>1, <4>2, <6>1 DEF Orderly
          <6> QED
            BY <4>2, <4>4, <6>2, <6>3 DEF Iso2Leads
        <5>3. CASE Iso2Asks = "Start"
          <6>1. Orderly => wire.info = { "Start" }
            BY <4>3, <5>3
          <6>2. Iso2Asks' = "Start"
            BY <4>6, <5>3
          <6>3. Orderly' => S' = IF Ac THEN "ChargingStatus" ELSE "CurrentDemand"
            BY <4>1, <4>2, <6>1 DEF Orderly
          <6> QED
            BY <4>2, <4>4, <6>2, <6>3 DEF Iso2Leads
        <5> QED
          BY <5>1, <5>2, <5>3 DEF Iso2Asks
      <4> QED
        BY <4>2, <4>3, <4>5 DEF Iso2Turn
    <3>1. Iso2Auth'
      <4>1. se.granted /\ se'.granted = se.granted
        BY <2>1, <2>2 DEF Iso2Taken, Iso2Inv, Iso2Auth, Iso2Follows, GrantedV1, SeFields
      <4> QED
        BY <4>1 DEF Iso2Auth
    <3>2. Iso2Path'
      <4>1. se'.insulated = se.insulated
        BY <2>2 DEF SeFields
      <4>2. (~ settings.ac /\ (S \in ChargesV1 \/ se.hlc) => se.insulated)'
        BY <2>1, <2>2, <4>1
          DEF Iso2Taken, Iso2Inv, Iso2Path, Iso2Follows, ChargesV1, Proceeds, Stays,
               Finishes, Responds,
               Off, Speaks, S, Ac, WireInv, Requested
      <4> QED
        BY <2>1, <2>2, <4>2, ZenonT(60)
          DEF DIN, ISO2, ISO20, WireInv, EndInv, Iso2Taken, Iso2Inv, Iso2Auth, Iso2Path,
            Iso2Stop, Proceeds, Stays, Finishes, Fails, Peer, Responds, Kept, Off, RunsOn,
            SeccStops, Stopping, Ac, Requested, Granted, SeccRuns, EvccRuns, SeccMarked, Speaks,
            E, S, Iso2Follows, SeFields, GrantedV1, ChargesV1, CoreTyped, Ends
    <3> USE <2>1, <2>2
      DEF DIN, ISO2, ISO20, WireInv, EndInv, Iso2Taken, Iso2Inv, Iso2Auth, Iso2Path, Iso2Stop,
        Proceeds, Stays, Finishes, Fails, Peer, Responds, Kept, Off, RunsOn, SeccStops,
        Stopping, Ac, Requested, Granted, SeccRuns, EvccRuns, SeccMarked, Speaks, E, S,
        Iso2Follows, SeFields, GrantedV1, ChargesV1, CoreTyped, Ends
    <3>3. Iso2Stop'
      OBVIOUS
    <3> QED
      BY <3>1, <3>2, <3>3, <3>4
  <2>7. SeccEnergy
    <3>1. CarReady
      BY <2>1 DEF CarReady, CarInv, CarEnabled, PowerStates, Iso2Taken, WireInv, Requested, E
    <3>2. ASSUME NEW closed \in BOOLEAN,
                 se' = [se EXCEPT !.hlc = TRUE, !.started = @ \/ closed,
                                  !.contactor = IF closed THEN "closed" ELSE @],
                 IF closed THEN Proceeds("PowerDelivery", {},
                                         IF Ac THEN "ChargingStatus" ELSE "CurrentDemand", {})
                 ELSE Finishes("PowerDelivery", "FAILED", FALSE)
          PROVE  SeccEnergy
      <4>1. se'.hlc /\ se'.contactor = IF closed THEN "closed" ELSE se.contactor
        BY <3>2 DEF SeFields
      <4>2. IF closed THEN RunsOn ELSE ~ SeccRuns'
        BY <3>2 DEF Proceeds, Stays, Finishes, SeccStops, SeccRuns
      <4> QED
        BY <3>1, <4>1, <4>2 DEF SeccEnergy
    <3>3. ASSUME NEW opened \in BOOLEAN,
                 se' = [se EXCEPT !.hlc = FALSE, !.contactor = IF opened THEN "open" ELSE @],
                 ~ opened => Finishes("PowerDelivery", "FAILED", FALSE)
          PROVE  SeccEnergy
      <4>1. ~ se'.hlc /\ se'.contactor = IF opened THEN "open" ELSE se.contactor
        BY <3>3 DEF SeFields
      <4>2. opened \/ ~ SeccRuns'
        BY <3>3 DEF Finishes, SeccStops, SeccRuns
      <4> QED
        BY <4>1, <4>2 DEF SeccEnergy
    <3>4. UNCHANGED se => SeccEnergy
      BY DEF SeccEnergy
    <3> QED
      BY <2>2, <3>2, <3>3, <3>4
  <2> QED
    BY <2>1, <2>3, <2>4, <2>5, <2>6, <2>7, SeccFrame DEF Iso2Taken, WireInv, Requested, SeccServed
<1>10. CASE Secc2!ChargingStatus
  <2>1. Iso2Taken("ChargingStatus")
    BY <1>10, Iso2Takes DEF Secc2!ChargingStatus, Iso2Taken
  <2>2. /\ \E info : Stays("ChargingStatus", info)
        /\ UNCHANGED se
    BY <1>10, Secc2Same, SeccDoes, NamesAre, CodesAre, WordsAre DEF Secc2!ChargingStatus
  <2>3. SeccServed("ChargingStatus") \/ Fails("secc")
    BY <2>2 DEF SeccServed, SeccAnswers, Proceeds, Stays, Finishes
  <2>4. se' \in SeFields
    BY <2>2 DEF SeFields, Proceeds, Stays, Finishes, Fails, Responds
  <2>5. S' \in Iso2States /\ wire.name # "SupportedAppProtocol"
    BY <2>1, <2>2
      DEF Iso2States, Iso2Taken, Iso2Follows, Proceeds, Stays, Finishes, Responds, Fails, S
  <2>6. Iso2Inv'
    <3> USE <2>1, <2>2
      DEF DIN, ISO2, ISO20, WireInv, EndInv, Iso2Taken, Iso2Inv, Iso2Auth, Iso2Path, Iso2Stop,
        Proceeds, Stays, Finishes, Fails, Peer, Responds, Kept, Off, RunsOn, SeccStops,
        Stopping, Ac, Requested, Granted, SeccRuns, EvccRuns, SeccMarked, Speaks, E, S,
        Iso2Follows, SeFields, GrantedV1, ChargesV1, CoreTyped, Ends
    <3>1. Iso2Auth'
      OBVIOUS
    <3>2. Iso2Path'
      OBVIOUS
    <3>3. Iso2Stop'
      OBVIOUS
    <3>4. Iso2Turn'
      <4>1. Orderly' => Orderly /\ Answered("ChargingStatus")' /\ E' = "ChargingStatus" /\ ~ Requested'
        BY DEF Answered, Orderly
      <4>2. Orderly => ~ ev.renegotiating
        BY DEF Iso2Turn
      <4> QED
        BY <4>1, <4>2 DEF Iso2Turn, Iso2Leads
    <3> QED
      BY <3>1, <3>2, <3>3, <3>4
  <2>7. SeccEnergy
    BY <2>2 DEF SeccEnergy, SeFields
  <2> QED
    BY <2>1, <2>3, <2>4, <2>5, <2>6, <2>7, SeccFrame DEF Iso2Taken, WireInv, Requested, SeccServed
<1>11. CASE Secc2!CableCheck
  <2>1. Iso2Taken("CableCheck")
    BY <1>11, Iso2Takes DEF Secc2!CableCheck, Iso2Taken
  <2>2. \E level :
          \/ Finishes("CableCheck", "FAILED", FALSE) /\ UNCHANGED se
          \/ Proceeds("CableCheck", {}, "CableCheck", Kept("CableCheck")) /\ UNCHANGED se
          \/ /\ Proceeds("CableCheck", {}, "CableCheck", { "closed" })
             /\ se' = [se EXCEPT !.contactor = "closed"]
          \/ /\ "closed" \in Kept("CableCheck")
             /\ Proceeds("CableCheck", { "finished" } \union level, "PreCharge", {})
             /\ se' = [se EXCEPT !.insulated = TRUE]
    <3>1. PICK level \in SUBSET Words : CheckCable("CableCheck", level, "PreCharge")
      BY <1>11, Secc2Same, WordsAre DEF Secc2!CableCheck
    <3> QED
      BY <3>1, CheckCableDoes, NamesAre
  <2>3. SeccServed("CableCheck") \/ Fails("secc")
    BY <2>2 DEF SeccServed, SeccAnswers, Proceeds, Stays, Finishes
  <2>4. se' \in SeFields
    BY <2>2 DEF SeFields, Proceeds, Stays, Finishes, Fails, Responds
  <2>5. S' \in Iso2States /\ wire.name # "SupportedAppProtocol"
    BY <2>1, <2>2
      DEF Iso2States, Iso2Taken, Iso2Follows, Proceeds, Stays, Finishes, Responds, Fails, S
  <2>6. Iso2Inv'
    <3> USE <2>1, <2>2
      DEF DIN, ISO2, ISO20, WireInv, EndInv, Iso2Taken, Iso2Inv, Iso2Auth, Iso2Path, Iso2Stop,
        Proceeds, Stays, Finishes, Fails, Peer, Responds, Kept, Off, RunsOn, SeccStops,
        Stopping, Ac, Requested, Granted, SeccRuns, EvccRuns, SeccMarked, Speaks, E, S,
        Iso2Follows, SeFields, GrantedV1, ChargesV1, CoreTyped, Ends
    <3>1. Iso2Auth'
      OBVIOUS
    <3>2. Iso2Path'
      OBVIOUS
    <3>3. Iso2Stop'
      OBVIOUS
    <3>4. Iso2Turn'
      BY ZenonT(60) DEF Iso2Turn, Iso2Fits, Iso2Leads, Iso2Asks, Iso2Next, Advances, Answered,
          Orderly, EvccMarked
    <3> QED
      BY <3>1, <3>2, <3>3, <3>4
  <2>7. SeccEnergy
    BY <2>1, <2>2
      DEF SeccEnergy, CarReady, CarInv, CarEnabled, PowerStates, SeFields, Iso2Taken,
           WireInv, Requested, E, Proceeds, Stays
  <2> QED
    BY <2>1, <2>3, <2>4, <2>5, <2>6, <2>7, SeccFrame DEF Iso2Taken, WireInv, Requested, SeccServed
<1>12. CASE Secc2!PreCharge
  <2>1. Iso2Taken("PreCharge")
    BY <1>12, Iso2Takes DEF Secc2!PreCharge, Iso2Taken
  <2>2. \/ /\ Stays("PreCharge", {})
           /\ UNCHANGED se
        \/ Finishes("PreCharge", "FAILED", FALSE) /\ UNCHANGED se
    BY <1>12, Secc2Same, SeccDoes, NamesAre, CodesAre, WordsAre DEF Secc2!PreCharge
  <2>3. SeccServed("PreCharge") \/ Fails("secc")
    BY <2>2 DEF SeccServed, SeccAnswers, Proceeds, Stays, Finishes
  <2>4. se' \in SeFields
    BY <2>2 DEF SeFields, Proceeds, Stays, Finishes, Fails, Responds
  <2>5. S' \in Iso2States /\ wire.name # "SupportedAppProtocol"
    BY <2>1, <2>2
      DEF Iso2States, Iso2Taken, Iso2Follows, Proceeds, Stays, Finishes, Responds, Fails, S
  <2>6. Iso2Inv'
    <3> USE <2>1, <2>2
      DEF DIN, ISO2, ISO20, WireInv, EndInv, Iso2Taken, Iso2Inv, Iso2Auth, Iso2Path, Iso2Stop,
        Proceeds, Stays, Finishes, Fails, Peer, Responds, Kept, Off, RunsOn, SeccStops,
        Stopping, Ac, Requested, Granted, SeccRuns, EvccRuns, SeccMarked, Speaks, E, S,
        Iso2Follows, SeFields, GrantedV1, ChargesV1, CoreTyped, Ends
    <3>1. Iso2Auth'
      OBVIOUS
    <3>2. Iso2Path'
      OBVIOUS
    <3>3. Iso2Stop'
      OBVIOUS
    <3>4. Iso2Turn'
      <4>1. Orderly' => Orderly /\ Answered("PreCharge")' /\ E' = "PreCharge" /\ ~ Requested'
        BY DEF Answered, Orderly
      <4>2. Orderly => ~ ev.renegotiating
        BY DEF Iso2Turn
      <4> QED
        BY <4>1, <4>2 DEF Iso2Turn, Iso2Leads
    <3> QED
      BY <3>1, <3>2, <3>3, <3>4
  <2>7. SeccEnergy
    BY <2>2 DEF SeccEnergy, SeFields
  <2> QED
    BY <2>1, <2>3, <2>4, <2>5, <2>6, <2>7, SeccFrame DEF Iso2Taken, WireInv, Requested, SeccServed
<1>13. CASE Secc2!CurrentDemand
  <2>1. Iso2Taken("CurrentDemand")
    BY <1>13, Iso2Takes DEF Secc2!CurrentDemand, Iso2Taken
  <2>2. \/ /\ Stays("CurrentDemand", {})
           /\ UNCHANGED se
        \/ /\ Stays("CurrentDemand", { "stop" })
           /\ UNCHANGED se
        \/ Finishes("CurrentDemand", "FAILED", FALSE) /\ UNCHANGED se
    BY <1>13, Secc2Same, SeccDoes, NamesAre, CodesAre, WordsAre DEF Secc2!CurrentDemand
  <2>3. SeccServed("CurrentDemand") \/ Fails("secc")
    BY <2>2 DEF SeccServed, SeccAnswers, Proceeds, Stays, Finishes
  <2>4. se' \in SeFields
    BY <2>2 DEF SeFields, Proceeds, Stays, Finishes, Fails, Responds
  <2>5. S' \in Iso2States /\ wire.name # "SupportedAppProtocol"
    BY <2>1, <2>2
      DEF Iso2States, Iso2Taken, Iso2Follows, Proceeds, Stays, Finishes, Responds, Fails, S
  <2>6. Iso2Inv'
    <3> USE <2>1, <2>2
      DEF DIN, ISO2, ISO20, WireInv, EndInv, Iso2Taken, Iso2Inv, Iso2Auth, Iso2Path, Iso2Stop,
        Proceeds, Stays, Finishes, Fails, Peer, Responds, Kept, Off, RunsOn, SeccStops,
        Stopping, Ac, Requested, Granted, SeccRuns, EvccRuns, SeccMarked, Speaks, E, S,
        Iso2Follows, SeFields, GrantedV1, ChargesV1, CoreTyped, Ends
    <3>1. Iso2Auth'
      OBVIOUS
    <3>2. Iso2Path'
      OBVIOUS
    <3>3. Iso2Stop'
      OBVIOUS
    <3>4. Iso2Turn'
      <4>1. Orderly' => Orderly /\ Answered("CurrentDemand")' /\ E' = "CurrentDemand" /\ ~ Requested'
        BY DEF Answered, Orderly
      <4>2. Orderly => ~ ev.renegotiating
        BY DEF Iso2Turn
      <4> QED
        BY <4>1, <4>2 DEF Iso2Turn, Iso2Leads
    <3> QED
      BY <3>1, <3>2, <3>3, <3>4
  <2>7. SeccEnergy
    BY <2>2 DEF SeccEnergy, SeFields
  <2> QED
    BY <2>1, <2>3, <2>4, <2>5, <2>6, <2>7, SeccFrame DEF Iso2Taken, WireInv, Requested, SeccServed
<1>14. CASE Secc2!WeldingDetection
  <2>1. Iso2Taken("WeldingDetection")
    BY <1>14, Iso2Takes DEF Secc2!WeldingDetection, Iso2Taken
  <2>2. /\ Stays("WeldingDetection", {})
        /\ UNCHANGED se
    BY <1>14, Secc2Same, SeccDoes, NamesAre, CodesAre, WordsAre DEF Secc2!WeldingDetection
  <2>3. SeccServed("WeldingDetection") \/ Fails("secc")
    BY <2>2 DEF SeccServed, SeccAnswers, Proceeds, Stays, Finishes
  <2>4. se' \in SeFields
    BY <2>2 DEF SeFields, Proceeds, Stays, Finishes, Fails, Responds
  <2>5. S' \in Iso2States /\ wire.name # "SupportedAppProtocol"
    BY <2>1, <2>2
      DEF Iso2States, Iso2Taken, Iso2Follows, Proceeds, Stays, Finishes, Responds, Fails, S
  <2>6. Iso2Inv'
    <3> USE <2>1, <2>2
      DEF DIN, ISO2, ISO20, WireInv, EndInv, Iso2Taken, Iso2Inv, Iso2Auth, Iso2Path, Iso2Stop,
        Proceeds, Stays, Finishes, Fails, Peer, Responds, Kept, Off, RunsOn, SeccStops,
        Stopping, Ac, Requested, Granted, SeccRuns, EvccRuns, SeccMarked, Speaks, E, S,
        Iso2Follows, SeFields, GrantedV1, ChargesV1, CoreTyped, Ends
    <3>1. Iso2Auth'
      OBVIOUS
    <3>2. Iso2Path'
      OBVIOUS
    <3>3. Iso2Stop'
      OBVIOUS
    <3>4. Iso2Turn'
      <4>1. Orderly' => Orderly /\ Answered("WeldingDetection")' /\ E' = "WeldingDetection" /\ ~ Requested'
        BY DEF Answered, Orderly
      <4>2. Orderly => ~ ev.renegotiating
        BY DEF Iso2Turn
      <4> QED
        BY <4>1, <4>2 DEF Iso2Turn, Iso2Leads
    <3> QED
      BY <3>1, <3>2, <3>3, <3>4
  <2>7. SeccEnergy
    BY <2>2 DEF SeccEnergy, SeFields
  <2> QED
    BY <2>1, <2>3, <2>4, <2>5, <2>6, <2>7, SeccFrame DEF Iso2Taken, WireInv, Requested, SeccServed
<1>15. CASE Secc2!SessionStop
  <2>1. Iso2Taken("SessionStop")
    BY <1>15, Iso2Takes DEF Secc2!SessionStop, Iso2Taken
  <2>2. Finishes("SessionStop", "OK", TRUE) /\ UNCHANGED se
    BY <1>15, Secc2Same, SeccDoes, NamesAre, CodesAre, WordsAre DEF Secc2!SessionStop
  <2>3. SeccServed("SessionStop") \/ Fails("secc")
    BY <2>2 DEF SeccServed, SeccAnswers, Proceeds, Stays, Finishes
  <2>4. se' \in SeFields
    BY <2>2 DEF SeFields, Proceeds, Stays, Finishes, Fails, Responds
  <2>5. S' \in Iso2States /\ wire.name # "SupportedAppProtocol"
    BY <2>1, <2>2
      DEF Iso2States, Iso2Taken, Iso2Follows, Proceeds, Stays, Finishes, Responds, Fails, S
  <2>6. Iso2Inv'
    <3> USE <2>1, <2>2
      DEF DIN, ISO2, ISO20, WireInv, EndInv, Iso2Taken, Iso2Inv, Iso2Auth, Iso2Path, Iso2Stop,
        Proceeds, Stays, Finishes, Fails, Peer, Responds, Kept, Off, RunsOn, SeccStops,
        Stopping, Ac, Requested, Granted, SeccRuns, EvccRuns, SeccMarked, Speaks, E, S,
        Iso2Follows, SeFields, GrantedV1, ChargesV1, CoreTyped, Ends
    <3>1. Iso2Auth'
      OBVIOUS
    <3>2. Iso2Path'
      OBVIOUS
    <3>3. Iso2Stop'
      OBVIOUS
    <3>4. Iso2Turn'
      BY DEF Iso2Turn, Iso2Fits, Iso2Leads, Iso2Asks, Iso2Next, Advances, Answered, Orderly,
          EvccMarked
    <3> QED
      BY <3>1, <3>2, <3>3, <3>4
  <2>7. SeccEnergy
    BY <2>2 DEF SeccEnergy, SeFields
  <2> QED
    BY <2>1, <2>3, <2>4, <2>5, <2>6, <2>7, SeccFrame DEF Iso2Taken, WireInv, Requested, SeccServed
<1> QED
  BY <1>1, <1>2, <1>3, <1>4, <1>5, <1>6, <1>7, <1>8, <1>9, <1>10, <1>11, <1>12, <1>13, <1>14,
      <1>15 DEF Secc2!Handle

-----------------------------------------------------------------------------

Iso20Taken(r) ==
  /\ Requested /\ SeccRuns /\ wire.name = r
  /\ \/ S = r
     \/ SeccMarked("answered") /\ << S, r >> \in Iso20Follows
     \/ << S, r >> \in Iso20Lenient
     \/ r = "SessionStop"

\* Every handler of ISO 15118-20's SECC keeps the invariant.
LEMMA Iso20SeccStep ==
  ASSUME settings \in Settings, CoreTyped, se \in SeFields, Iso20Inv, WireInv, EndInv, CarInv,
         Speaks(ISO20), S \in Iso20States, Secc20!Handle,
         UNCHANGED << settings, protocol, ev >>
  PROVE  /\ CoreTyped' /\ WireInv' /\ EndInv' /\ CarInv' /\ E' = E
         /\ se' \in SeFields /\ S' \in Iso20States /\ E # "SupportedAppProtocol"
         /\ Iso20Inv' /\ SeccEnergy /\ SeccRuns /\ run'["evcc"] = run["evcc"]
         /\ SeccServed(wire.name) \/ Fails("secc")
<1>1. CASE Secc20!SessionSetup
  <2>1. Iso20Taken("SessionSetup")
    BY <1>1, Iso20Takes DEF Secc20!SessionSetup, Iso20Taken
  <2>2. Proceeds("SessionSetup", {}, "AuthorizationSetup", {}) /\ UNCHANGED se
    BY <1>1, Secc20Same, SeccDoes, NamesAre, CodesAre, WordsAre DEF Secc20!SessionSetup
  <2>3. SeccServed("SessionSetup") \/ Fails("secc")
    BY <2>2 DEF SeccServed, SeccAnswers, Proceeds, Stays, Finishes
  <2>4. se' \in SeFields
    BY <2>2 DEF SeFields, Proceeds, Stays, Finishes, Fails, Responds
  <2>5. S' \in Iso20States /\ wire.name # "SupportedAppProtocol"
    BY <2>1, <2>2
      DEF Iso20States, Iso20Taken, Iso20Follows, Iso20Lenient, Proceeds, Stays, Finishes,
        Responds, Fails, S
  <2>6. Iso20Inv'
    <3> USE <2>1, <2>2
      DEF DIN, ISO2, ISO20, WireInv, EndInv, Iso20Taken, Iso20Inv, Iso20Auth, Iso20Place,
        Iso20Path, Iso20Stop, Iso20Told, Iso20Again, Iso20Ends, Proceeds, Stays, Finishes,
        Fails, Peer, Responds, Kept, Off, RunsOn, SeccStops, Stopping, Ac, Requested, Granted,
        SeccRuns, EvccRuns, SeccMarked, Speaks, E, S, Iso20Follows, Iso20Lenient, SeFields,
        Judged20, Charges20, Before20, CoreTyped, Ends
    <3>1. Iso20Auth'
      OBVIOUS
    <3>2. Iso20Place'
      OBVIOUS
    <3>3. Iso20Path'
      OBVIOUS
    <3>4. Iso20Stop'
      OBVIOUS
    <3>5. Iso20Told'
      OBVIOUS
    <3>6. Iso20Again'
      OBVIOUS
    <3>7. Iso20Ends'
      OBVIOUS
    <3>8. Iso20Turn'
      BY DEF Iso20Turn, Iso20Fits, Iso20Leads, Iso20Next, Advances, Answered, Orderly, EvccMarked
    <3> QED
      BY <3>1, <3>2, <3>3, <3>4, <3>5, <3>6, <3>7, <3>8
  <2>7. SeccEnergy
    BY <2>2 DEF SeccEnergy, SeFields
  <2> QED
    BY <2>1, <2>3, <2>4, <2>5, <2>6, <2>7, SeccFrame DEF Iso20Taken, WireInv, Requested, SeccServed
<1>2. CASE Secc20!AuthorizationSetup
  <2>1. Iso20Taken("AuthorizationSetup")
    BY <1>2, Iso20Takes DEF Secc20!AuthorizationSetup, Iso20Taken
  <2>2. \E options \in SUBSET { "EIM", "PnC" } : \E info :
          /\ se' = [se EXCEPT !.offered = options]
          /\ Stays("AuthorizationSetup", info)
    <3>1. PICK options \in SUBSET { "EIM", "PnC" }, services \in SUBSET { "Certificate" } :
            /\ se' = [se EXCEPT !.offered = options]
            /\ Remain("AuthorizationSetup", options \union services, {})
      BY <1>2, Secc20Same, SettingsAssumption DEF Secc20!AuthorizationSetup, Setting
    <3>2. options \union services \in SUBSET Words
      BY DEF Words
    <3> QED
      BY <3>1, <3>2, SeccDoes, NamesAre
  <2>3. SeccServed("AuthorizationSetup") \/ Fails("secc")
    BY <2>2 DEF SeccServed, SeccAnswers, Proceeds, Stays, Finishes
  <2>4. se' \in SeFields
    BY <2>2 DEF SeFields, Proceeds, Stays, Finishes, Fails, Responds
  <2>5. S' \in Iso20States /\ wire.name # "SupportedAppProtocol"
    BY <2>1, <2>2
      DEF Iso20States, Iso20Taken, Iso20Follows, Iso20Lenient, Proceeds, Stays, Finishes,
        Responds, Fails, S
  <2>6. Iso20Inv'
    <3> USE <2>1, <2>2
      DEF DIN, ISO2, ISO20, WireInv, EndInv, Iso20Taken, Iso20Inv, Iso20Auth, Iso20Place,
        Iso20Path, Iso20Stop, Iso20Told, Iso20Again, Iso20Ends, Proceeds, Stays, Finishes,
        Fails, Peer, Responds, Kept, Off, RunsOn, SeccStops, Stopping, Ac, Requested, Granted,
        SeccRuns, EvccRuns, SeccMarked, Speaks, E, S, Iso20Follows, Iso20Lenient, SeFields,
        Judged20, Charges20, Before20, CoreTyped, Ends
    <3>1. Iso20Auth'
      OBVIOUS
    <3>2. Iso20Place'
      OBVIOUS
    <3>3. Iso20Path'
      OBVIOUS
    <3>4. Iso20Stop'
      OBVIOUS
    <3>5. Iso20Told'
      OBVIOUS
    <3>6. Iso20Again'
      OBVIOUS
    <3>7. Iso20Ends'
      OBVIOUS
    <3>8. Iso20Turn'
      BY DEF Iso20Turn, Iso20Fits, Iso20Leads, Iso20Next, Advances, Answered, Orderly, EvccMarked
    <3> QED
      BY <3>1, <3>2, <3>3, <3>4, <3>5, <3>6, <3>7, <3>8
  <2>7. SeccEnergy
    BY <2>2 DEF SeccEnergy, SeFields
  <2> QED
    BY <2>1, <2>3, <2>4, <2>5, <2>6, <2>7, SeccFrame DEF Iso20Taken, WireInv, Requested, SeccServed
<1>3. CASE Secc20!CertificateInstallation
  <2>1. Iso20Taken("CertificateInstallation")
    BY <1>3, Iso20Takes DEF Secc20!CertificateInstallation, Iso20Taken
  <2>2. Fails("secc") /\ UNCHANGED se
    BY <1>3, Secc20Same, SeccDoes, NamesAre, CodesAre, WordsAre
      DEF Secc20!CertificateInstallation
  <2>3. SeccServed("CertificateInstallation") \/ Fails("secc")
    BY <2>2 DEF SeccServed, SeccAnswers, Proceeds, Stays, Finishes
  <2>4. se' \in SeFields
    BY <2>2 DEF SeFields, Proceeds, Stays, Finishes, Fails, Responds
  <2>5. S' \in Iso20States /\ wire.name # "SupportedAppProtocol"
    BY <2>1, <2>2
      DEF Iso20States, Iso20Taken, Iso20Follows, Iso20Lenient, Proceeds, Stays, Finishes,
        Responds, Fails, S
  <2>6. Iso20Inv'
    <3> USE <2>1, <2>2
      DEF DIN, ISO2, ISO20, WireInv, EndInv, Iso20Taken, Iso20Inv, Iso20Auth, Iso20Place,
        Iso20Path, Iso20Stop, Iso20Told, Iso20Again, Iso20Ends, Proceeds, Stays, Finishes,
        Fails, Peer, Responds, Kept, Off, RunsOn, SeccStops, Stopping, Ac, Requested, Granted,
        SeccRuns, EvccRuns, SeccMarked, Speaks, E, S, Iso20Follows, Iso20Lenient, SeFields,
        Judged20, Charges20, Before20, CoreTyped, Ends
    <3>1. Iso20Auth'
      OBVIOUS
    <3>2. Iso20Place'
      OBVIOUS
    <3>3. Iso20Path'
      OBVIOUS
    <3>4. Iso20Stop'
      OBVIOUS
    <3>5. Iso20Told'
      OBVIOUS
    <3>6. Iso20Again'
      OBVIOUS
    <3>7. Iso20Ends'
      OBVIOUS
    <3>8. Iso20Turn'
      BY DEF Iso20Turn, Iso20Fits, Iso20Leads, Iso20Next, Advances, Answered, Orderly, EvccMarked
    <3> QED
      BY <3>1, <3>2, <3>3, <3>4, <3>5, <3>6, <3>7, <3>8
  <2>7. SeccEnergy
    BY <2>2 DEF SeccEnergy, SeFields
  <2> QED
    BY <2>1, <2>3, <2>4, <2>5, <2>6, <2>7, SeccFrame DEF Iso20Taken, WireInv, Requested, SeccServed
<1>4. CASE Secc20!Authorization
  <2>1. Iso20Taken("Authorization")
    BY <1>4, Iso20Takes DEF Secc20!Authorization, Iso20Taken
  <2>2. \/ /\ Finishes("Authorization", "FAILED", FALSE)
           /\ se' = [se EXCEPT !.auth = "PnC"]
        \/ \E a \in Words, granted \in BOOLEAN, judged \in BOOLEAN, code \in { "OK", "FAILED" } :
             /\ se' = [se EXCEPT !.auth = a, !.granted = granted, !.judged = judged]
             /\ RunsOn
             /\ IF judged THEN Responds("Authorization", code, { "finished" }, "Authorization",
                                        { "answered" })
                ELSE Responds("Authorization", code, {}, "Authorization", {})
    <3>1. wire.info \subseteq Words
      BY DEF CoreTyped, Messages
    <3>2. CASE Refuse("Authorization") /\ se' = [se EXCEPT !.auth = "PnC"]
      BY <3>2, SeccDoes, NamesAre
    <3>3. ASSUME NEW a \in wire.info, NEW status \in { "ACCEPTED", "ONGOING", "REJECTED" },
                 NEW code \in { "OK", "FAILED" },
                 se' = [se EXCEPT !.auth = a, !.granted = status = "ACCEPTED",
                                  !.judged = status # "ONGOING"],
                 IF status = "ONGOING"
                 THEN Respond("Authorization", code, {}, New("Authorization"))
                 ELSE Respond("Authorization", code, { "finished" },
                        [New("Authorization") EXCEPT !.marks = { "answered" }])
          PROVE  \E b \in Words, granted \in BOOLEAN, judged \in BOOLEAN, c \in { "OK", "FAILED" } :
             /\ se' = [se EXCEPT !.auth = b, !.granted = granted, !.judged = judged]
             /\ RunsOn
             /\ IF judged THEN Responds("Authorization", c, { "finished" }, "Authorization",
                                        { "answered" })
                ELSE Responds("Authorization", c, {}, "Authorization", {})
      <4> DEFINE granted == status = "ACCEPTED"
                 judged == status # "ONGOING"
                 object == [New("Authorization") EXCEPT !.marks = { "answered" }]
      <4>1. granted \in BOOLEAN /\ judged \in BOOLEAN /\ a \in Words /\ code \in Codes
        BY <3>1, CodesAre
      <4>2. se' = [se EXCEPT !.auth = a, !.granted = granted, !.judged = judged]
        BY <3>3
      <4>3. object \in Objects /\ object.name = "Authorization" /\ object.marks = { "answered" }
        BY ObjectIs, NamesAre DEF Objects, Marks
      <4>4. CASE status = "ONGOING"
        <5>1. Responds("Authorization", code, {}, "Authorization", {}) /\ RunsOn
          BY <3>3, <4>1, <4>4, SeccDoes, NamesAre, WordsAre
        <5>2. ~ judged
          BY <4>4
        <5> HIDE DEF granted, judged
        <5> QED
          BY <4>1, <4>2, <5>1, <5>2
      <4>5. CASE status # "ONGOING"
        <5>1. Respond("Authorization", code, { "finished" }, object)
          BY <3>3, <4>5
        <5>2. judged
          BY <4>5
        <5> HIDE DEF granted, judged, object
        <5>3. Responds("Authorization", code, { "finished" }, object.name, object.marks) /\ RunsOn
          BY <4>1, <4>3, <5>1, RespondDoes, NamesAre, WordsAre
        <5> QED
          BY <4>1, <4>2, <4>3, <5>2, <5>3
      <4> QED
        BY <4>4, <4>5
    <3>4. \/ Refuse("Authorization") /\ se' = [se EXCEPT !.auth = "PnC"]
          \/ \E a \in wire.info, status \in { "ACCEPTED", "ONGOING", "REJECTED" },
                code \in { "OK", "FAILED" } :
               /\ se' = [se EXCEPT !.auth = a, !.granted = status = "ACCEPTED",
                                   !.judged = status # "ONGOING"]
               /\ IF status = "ONGOING"
                  THEN Respond("Authorization", code, {}, New("Authorization"))
                  ELSE Respond("Authorization", code, { "finished" },
                         [New("Authorization") EXCEPT !.marks = { "answered" }])
      BY <1>4, Secc20Same, ZenonT(60) DEF Secc20!Authorization
    <3>5. CASE \E a \in wire.info, status \in { "ACCEPTED", "ONGOING", "REJECTED" },
                code \in { "OK", "FAILED" } :
               /\ se' = [se EXCEPT !.auth = a, !.granted = status = "ACCEPTED",
                                   !.judged = status # "ONGOING"]
               /\ IF status = "ONGOING"
                  THEN Respond("Authorization", code, {}, New("Authorization"))
                  ELSE Respond("Authorization", code, { "finished" },
                         [New("Authorization") EXCEPT !.marks = { "answered" }])
      <4>1. PICK a \in wire.info, status \in { "ACCEPTED", "ONGOING", "REJECTED" },
                code \in { "OK", "FAILED" } :
               /\ se' = [se EXCEPT !.auth = a, !.granted = status = "ACCEPTED",
                                   !.judged = status # "ONGOING"]
               /\ IF status = "ONGOING"
                  THEN Respond("Authorization", code, {}, New("Authorization"))
                  ELSE Respond("Authorization", code, { "finished" },
                         [New("Authorization") EXCEPT !.marks = { "answered" }])
        BY <3>5
      <4> QED
        BY <3>3, <4>1, ZenonT(60)
    <3> QED
      BY <3>2, <3>4, <3>5, ZenonT(60)
  <2>3. SeccServed("Authorization") \/ Fails("secc")
    <3>1. PICK code \in { "OK", "FAILED" } : SeccAnswers("Authorization", code)
      BY <2>2, ZenonT(40) DEF SeccAnswers, Finishes
    <3>2. code = "OK" \/ code = "FAILED"
      OBVIOUS
    <3> QED
      BY <3>1, <3>2, Zenon DEF SeccServed
  <2>4. se' \in SeFields
    <3>1. CASE se' = [se EXCEPT !.auth = "PnC"]
      BY <3>1 DEF SeFields, Words
    <3>2. ASSUME NEW a \in Words, NEW granted \in BOOLEAN, NEW judged \in BOOLEAN,
                 se' = [se EXCEPT !.auth = a, !.granted = granted, !.judged = judged]
          PROVE  se' \in SeFields
      BY <3>2 DEF SeFields
    <3> QED
      BY <2>2, <3>1, <3>2
  <2>5. S' \in Iso20States /\ wire.name # "SupportedAppProtocol"
    BY <2>1, <2>2
      DEF Iso20States, Iso20Taken, Iso20Follows, Iso20Lenient, Proceeds, Stays, Finishes,
        Responds, Fails, S
  <2>6. Iso20Inv'
    <3> USE <2>1, <2>2
      DEF DIN, ISO2, ISO20, WireInv, EndInv, Iso20Taken, Iso20Inv, Iso20Auth, Iso20Place,
        Iso20Path, Iso20Stop, Iso20Told, Iso20Again, Iso20Ends, Proceeds, Stays, Finishes,
        Fails, Peer, Responds, Kept, Off, RunsOn, SeccStops, Stopping, Ac, Requested, Granted,
        SeccRuns, EvccRuns, SeccMarked, Speaks, E, S, Iso20Follows, Iso20Lenient, SeFields,
        Judged20, Charges20, Before20, CoreTyped, Ends
    <3>1. Iso20Auth'
      BY ZenonT(60)
    <3>2. Iso20Place'
      BY ZenonT(60)
    <3>3. Iso20Path'
      BY ZenonT(60)
    <3>4. Iso20Stop'
      OBVIOUS
    <3>5. Iso20Told'
      OBVIOUS
    <3>6. Iso20Again'
      OBVIOUS
    <3>7. Iso20Ends'
      OBVIOUS
    <3>8. Iso20Turn'
      <4>1. Orderly' => /\ Orderly /\ E' = "Authorization" /\ S' = "Authorization"
                        /\ ~ Requested' /\ ("finished" \in wire'.info => SeccMarked("answered")')
        BY ZenonT(60) DEF Orderly
      <4> QED
        BY ZenonT(60), <4>1 DEF Iso20Turn, Iso20Leads
    <3> QED
      BY <3>1, <3>2, <3>3, <3>4, <3>5, <3>6, <3>7, <3>8
  <2>7. SeccEnergy
    BY <2>2 DEF SeccEnergy, SeFields
  <2> QED
    BY <2>1, <2>3, <2>4, <2>5, <2>6, <2>7, SeccFrame DEF Iso20Taken, WireInv, Requested, SeccServed
<1>5. CASE Secc20!ServiceDiscovery
  <2>1. Iso20Taken("ServiceDiscovery")
    BY <1>5, Iso20Takes DEF Secc20!ServiceDiscovery, Iso20Taken
  <2>2. /\ Stays("ServiceDiscovery", IF settings.renegotiates THEN { "renegotiates" } ELSE {})
        /\ UNCHANGED se
    BY <1>5, Secc20Same, SeccDoes, NamesAre, CodesAre, WordsAre DEF Secc20!ServiceDiscovery
  <2>3. SeccServed("ServiceDiscovery") \/ Fails("secc")
    BY <2>2 DEF SeccServed, SeccAnswers, Proceeds, Stays, Finishes
  <2>4. se' \in SeFields
    BY <2>2 DEF SeFields, Proceeds, Stays, Finishes, Fails, Responds
  <2>5. S' \in Iso20States /\ wire.name # "SupportedAppProtocol"
    BY <2>1, <2>2
      DEF Iso20States, Iso20Taken, Iso20Follows, Iso20Lenient, Proceeds, Stays, Finishes,
        Responds, Fails, S
  <2>6. Iso20Inv'
    <3> USE <2>1, <2>2
      DEF DIN, ISO2, ISO20, WireInv, EndInv, Iso20Taken, Iso20Inv, Iso20Auth, Iso20Place,
        Iso20Path, Iso20Stop, Iso20Told, Iso20Again, Iso20Ends, Proceeds, Stays, Finishes,
        Fails, Peer, Responds, Kept, Off, RunsOn, SeccStops, Stopping, Ac, Requested, Granted,
        SeccRuns, EvccRuns, SeccMarked, Speaks, E, S, Iso20Follows, Iso20Lenient, SeFields,
        Judged20, Charges20, Before20, CoreTyped, Ends
    <3>1. Iso20Auth'
      OBVIOUS
    <3>2. Iso20Place'
      OBVIOUS
    <3>3. Iso20Path'
      OBVIOUS
    <3>4. Iso20Stop'
      OBVIOUS
    <3>5. Iso20Told'
      OBVIOUS
    <3>6. Iso20Again'
      OBVIOUS
    <3>7. Iso20Ends'
      OBVIOUS
    <3>8. Iso20Turn'
      BY DEF Iso20Turn, Iso20Fits, Iso20Leads, Iso20Next, Advances, Answered, Orderly, EvccMarked
    <3> QED
      BY <3>1, <3>2, <3>3, <3>4, <3>5, <3>6, <3>7, <3>8
  <2>7. SeccEnergy
    BY <2>2 DEF SeccEnergy, SeFields
  <2> QED
    BY <2>1, <2>3, <2>4, <2>5, <2>6, <2>7, SeccFrame DEF Iso20Taken, WireInv, Requested, SeccServed
<1>6. CASE Secc20!ServiceDetail
  <2>1. Iso20Taken("ServiceDetail")
    BY <1>6, Iso20Takes DEF Secc20!ServiceDetail, Iso20Taken
  <2> DEFINE object == [Object("ServiceDetail") EXCEPT !.marks = @ \union { "answered" }]
             kept == Kept("ServiceDetail") \union { "answered" }
  <2>0. object \in Objects /\ object.name = "ServiceDetail" /\ object.marks = kept
    BY ObjectIs, NamesAre DEF Objects, Marks
  <2>2. /\ \/ Responds("ServiceDetail", "OK", {}, "ServiceDetail", kept)
           \/ Responds("ServiceDetail", "FAILED", {}, "ServiceDetail", kept)
        /\ RunsOn /\ UNCHANGED se
    <3>1. PICK code \in { "OK", "FAILED" } : Respond("ServiceDetail", code, {}, object)
      BY <1>6, Secc20Same DEF Secc20!ServiceDetail
    <3>2. UNCHANGED se /\ code \in Codes
      BY <1>6, CodesAre DEF Secc20!ServiceDetail
    <3> HIDE DEF object, kept
    <3>3. Responds("ServiceDetail", code, {}, object.name, object.marks) /\ RunsOn
      BY <2>0, <3>1, <3>2, RespondDoes, NamesAre, WordsAre
    <3> QED
      BY <2>0, <3>1, <3>2, <3>3
  <2>3. SeccServed("ServiceDetail") \/ Fails("secc")
    BY <2>2 DEF SeccServed, SeccAnswers
  <2>4. se' \in SeFields
    BY <2>2 DEF SeFields, Proceeds, Stays, Finishes, Fails, Responds
  <2>5. S' \in Iso20States /\ wire.name # "SupportedAppProtocol"
    BY <2>1, <2>2
      DEF Iso20States, Iso20Taken, Iso20Follows, Iso20Lenient, Proceeds, Stays, Finishes,
        Responds, Fails, S
  <2>6. Iso20Inv'
    <3> USE <2>1, <2>2
      DEF DIN, ISO2, ISO20, WireInv, EndInv, Iso20Taken, Iso20Inv, Iso20Auth, Iso20Place,
        Iso20Path, Iso20Stop, Iso20Told, Iso20Again, Iso20Ends, Proceeds, Stays, Finishes,
        Fails, Peer, Responds, Kept, Off, RunsOn, SeccStops, Stopping, Ac, Requested, Granted,
        SeccRuns, EvccRuns, SeccMarked, Speaks, E, S, Iso20Follows, Iso20Lenient, SeFields,
        Judged20, Charges20, Before20, CoreTyped, Ends
    <3>1. Iso20Auth'
      OBVIOUS
    <3>2. Iso20Place'
      OBVIOUS
    <3>3. Iso20Path'
      OBVIOUS
    <3>4. Iso20Stop'
      OBVIOUS
    <3>5. Iso20Told'
      OBVIOUS
    <3>6. Iso20Again'
      OBVIOUS
    <3>7. Iso20Ends'
      OBVIOUS
    <3>8. Iso20Turn'
      BY DEF Iso20Turn, Iso20Fits, Iso20Leads, Iso20Next, Advances, Answered, Orderly, EvccMarked
    <3> QED
      BY <3>1, <3>2, <3>3, <3>4, <3>5, <3>6, <3>7, <3>8
  <2>7. SeccEnergy
    BY <2>2 DEF SeccEnergy, SeFields
  <2> QED
    BY <2>1, <2>3, <2>4, <2>5, <2>6, <2>7, SeccFrame DEF Iso20Taken, WireInv, Requested, SeccServed
<1>7. CASE Secc20!ServiceSelection
  <2>1. Iso20Taken("ServiceSelection")
    BY <1>7, Iso20Takes DEF Secc20!ServiceSelection, Iso20Taken
  <2>2. /\ \/ Proceeds("ServiceSelection", {}, IF Ac THEN "ACChargeParameterDiscovery"
                                                  ELSE "DCChargeParameterDiscovery", {})
           \/ Finishes("ServiceSelection", "FAILED", FALSE)
        /\ UNCHANGED se
    <3>1. Secc20!Ac <=> Ac
      BY DEF Secc20!Ac, Ac, Secc20!DIN, DIN
    <3> QED
      BY <1>7, <3>1, Secc20Same, SeccDoes, NamesAre, WordsAre DEF Secc20!ServiceSelection
  <2>3. SeccServed("ServiceSelection") \/ Fails("secc")
    BY <2>2 DEF SeccServed, SeccAnswers, Proceeds, Stays, Finishes
  <2>4. se' \in SeFields
    BY <2>2 DEF SeFields, Proceeds, Stays, Finishes, Fails, Responds
  <2>5. S' \in Iso20States /\ wire.name # "SupportedAppProtocol"
    BY <2>1, <2>2
      DEF Iso20States, Iso20Taken, Iso20Follows, Iso20Lenient, Proceeds, Stays, Finishes,
        Responds, Fails, S
  <2>6. Iso20Inv'
    <3> USE <2>1, <2>2
      DEF DIN, ISO2, ISO20, WireInv, EndInv, Iso20Taken, Iso20Inv, Iso20Auth, Iso20Place,
        Iso20Path, Iso20Stop, Iso20Told, Iso20Again, Iso20Ends, Proceeds, Stays, Finishes,
        Fails, Peer, Responds, Kept, Off, RunsOn, SeccStops, Stopping, Ac, Requested, Granted,
        SeccRuns, EvccRuns, SeccMarked, Speaks, E, S, Iso20Follows, Iso20Lenient, SeFields,
        Judged20, Charges20, Before20, CoreTyped, Ends
    <3>1. Iso20Auth'
      OBVIOUS
    <3>2. Iso20Place'
      OBVIOUS
    <3>3. Iso20Path'
      OBVIOUS
    <3>4. Iso20Stop'
      OBVIOUS
    <3>5. Iso20Told'
      OBVIOUS
    <3>6. Iso20Again'
      OBVIOUS
    <3>7. Iso20Ends'
      OBVIOUS
    <3>8. Iso20Turn'
      BY DEF Iso20Turn, Iso20Fits, Iso20Leads, Iso20Next, Advances, Answered, Orderly, EvccMarked
    <3> QED
      BY <3>1, <3>2, <3>3, <3>4, <3>5, <3>6, <3>7, <3>8
  <2>7. SeccEnergy
    BY <2>2 DEF SeccEnergy, SeFields
  <2> QED
    BY <2>1, <2>3, <2>4, <2>5, <2>6, <2>7, SeccFrame DEF Iso20Taken, WireInv, Requested, SeccServed
<1>8. CASE Secc20!ACChargeParameterDiscovery
  <2>1. Iso20Taken("ACChargeParameterDiscovery")
    BY <1>8, Iso20Takes
      DEF Secc20!ACChargeParameterDiscovery, Secc20!ChargeParameterDiscovery, Iso20Taken
  <2>2. \/ /\ Proceeds("ACChargeParameterDiscovery", {}, "ScheduleExchange", {})
           /\ UNCHANGED se
        \/ Finishes("ACChargeParameterDiscovery", "FAILED", FALSE) /\ UNCHANGED se
    BY <1>8, Secc20Same, SeccDoes, NamesAre, CodesAre, WordsAre
      DEF Secc20!ACChargeParameterDiscovery, Secc20!ChargeParameterDiscovery
  <2>3. SeccServed("ACChargeParameterDiscovery") \/ Fails("secc")
    BY <2>2 DEF SeccServed, SeccAnswers, Proceeds, Stays, Finishes
  <2>4. se' \in SeFields
    BY <2>2 DEF SeFields, Proceeds, Stays, Finishes, Fails, Responds
  <2>5. S' \in Iso20States /\ wire.name # "SupportedAppProtocol"
    BY <2>1, <2>2
      DEF Iso20States, Iso20Taken, Iso20Follows, Iso20Lenient, Proceeds, Stays, Finishes,
        Responds, Fails, S
  <2>6. Iso20Inv'
    <3> USE <2>1, <2>2
      DEF DIN, ISO2, ISO20, WireInv, EndInv, Iso20Taken, Iso20Inv, Iso20Auth, Iso20Place,
        Iso20Path, Iso20Stop, Iso20Told, Iso20Again, Iso20Ends, Proceeds, Stays, Finishes,
        Fails, Peer, Responds, Kept, Off, RunsOn, SeccStops, Stopping, Ac, Requested, Granted,
        SeccRuns, EvccRuns, SeccMarked, Speaks, E, S, Iso20Follows, Iso20Lenient, SeFields,
        Judged20, Charges20, Before20, CoreTyped, Ends
    <3>1. Iso20Auth'
      OBVIOUS
    <3>2. Iso20Place'
      OBVIOUS
    <3>3. Iso20Path'
      OBVIOUS
    <3>4. Iso20Stop'
      OBVIOUS
    <3>5. Iso20Told'
      OBVIOUS
    <3>6. Iso20Again'
      OBVIOUS
    <3>7. Iso20Ends'
      OBVIOUS
    <3>8. Iso20Turn'
      BY DEF Iso20Turn, Iso20Fits, Iso20Leads, Iso20Next, Advances, Answered, Orderly, EvccMarked
    <3> QED
      BY <3>1, <3>2, <3>3, <3>4, <3>5, <3>6, <3>7, <3>8
  <2>7. SeccEnergy
    BY <2>2 DEF SeccEnergy, SeFields
  <2> QED
    BY <2>1, <2>3, <2>4, <2>5, <2>6, <2>7, SeccFrame DEF Iso20Taken, WireInv, Requested, SeccServed
<1>9. CASE Secc20!DCChargeParameterDiscovery
  <2>1. Iso20Taken("DCChargeParameterDiscovery")
    BY <1>9, Iso20Takes
      DEF Secc20!DCChargeParameterDiscovery, Secc20!ChargeParameterDiscovery, Iso20Taken
  <2>2. \/ /\ Proceeds("DCChargeParameterDiscovery", {}, "ScheduleExchange", {})
           /\ UNCHANGED se
        \/ Finishes("DCChargeParameterDiscovery", "FAILED", FALSE) /\ UNCHANGED se
    BY <1>9, Secc20Same, SeccDoes, NamesAre, CodesAre, WordsAre
      DEF Secc20!DCChargeParameterDiscovery, Secc20!ChargeParameterDiscovery
  <2>3. SeccServed("DCChargeParameterDiscovery") \/ Fails("secc")
    BY <2>2 DEF SeccServed, SeccAnswers, Proceeds, Stays, Finishes
  <2>4. se' \in SeFields
    BY <2>2 DEF SeFields, Proceeds, Stays, Finishes, Fails, Responds
  <2>5. S' \in Iso20States /\ wire.name # "SupportedAppProtocol"
    BY <2>1, <2>2
      DEF Iso20States, Iso20Taken, Iso20Follows, Iso20Lenient, Proceeds, Stays, Finishes,
        Responds, Fails, S
  <2>6. Iso20Inv'
    <3> USE <2>1, <2>2
      DEF DIN, ISO2, ISO20, WireInv, EndInv, Iso20Taken, Iso20Inv, Iso20Auth, Iso20Place,
        Iso20Path, Iso20Stop, Iso20Told, Iso20Again, Iso20Ends, Proceeds, Stays, Finishes,
        Fails, Peer, Responds, Kept, Off, RunsOn, SeccStops, Stopping, Ac, Requested, Granted,
        SeccRuns, EvccRuns, SeccMarked, Speaks, E, S, Iso20Follows, Iso20Lenient, SeFields,
        Judged20, Charges20, Before20, CoreTyped, Ends
    <3>1. Iso20Auth'
      OBVIOUS
    <3>2. Iso20Place'
      OBVIOUS
    <3>3. Iso20Path'
      OBVIOUS
    <3>4. Iso20Stop'
      OBVIOUS
    <3>5. Iso20Told'
      OBVIOUS
    <3>6. Iso20Again'
      OBVIOUS
    <3>7. Iso20Ends'
      OBVIOUS
    <3>8. Iso20Turn'
      BY DEF Iso20Turn, Iso20Fits, Iso20Leads, Iso20Next, Advances, Answered, Orderly, EvccMarked
    <3> QED
      BY <3>1, <3>2, <3>3, <3>4, <3>5, <3>6, <3>7, <3>8
  <2>7. SeccEnergy
    BY <2>2 DEF SeccEnergy, SeFields
  <2> QED
    BY <2>1, <2>3, <2>4, <2>5, <2>6, <2>7, SeccFrame DEF Iso20Taken, WireInv, Requested, SeccServed
<1>10. CASE Secc20!ScheduleExchange
  <2>1. Iso20Taken("ScheduleExchange")
    BY <1>10, Iso20Takes DEF Secc20!ScheduleExchange, Iso20Taken
  <2>2. /\ \/ Finishes("ScheduleExchange", "FAILED", FALSE)
           \/ Proceeds("ScheduleExchange", {}, "ScheduleExchange", Kept("ScheduleExchange"))
           \/ /\ ~ Ac
              /\ Proceeds("ScheduleExchange", { "finished" }, "ScheduleExchange",
                          Kept("ScheduleExchange"))
           \/ Ac /\ Proceeds("ScheduleExchange", { "finished" }, "PowerDelivery", {})
        /\ UNCHANGED se
    <3>1. Secc20!Ac <=> Ac
      BY DEF Secc20!Ac, Ac, Secc20!DIN, DIN
    <3> QED
      BY <1>10, <3>1, Secc20Same, SeccDoes, NamesAre, WordsAre DEF Secc20!ScheduleExchange
  <2>3. SeccServed("ScheduleExchange") \/ Fails("secc")
    BY <2>2 DEF SeccServed, SeccAnswers, Proceeds, Stays, Finishes
  <2>4. se' \in SeFields
    BY <2>2 DEF SeFields, Proceeds, Stays, Finishes, Fails, Responds
  <2>5. S' \in Iso20States /\ wire.name # "SupportedAppProtocol"
    BY <2>1, <2>2
      DEF Iso20States, Iso20Taken, Iso20Follows, Iso20Lenient, Proceeds, Stays, Finishes,
        Responds, Fails, S
  <2>6. Iso20Inv'
    <3> USE <2>1, <2>2
      DEF DIN, ISO2, ISO20, WireInv, EndInv, Iso20Taken, Iso20Inv, Iso20Auth, Iso20Place,
        Iso20Path, Iso20Stop, Iso20Told, Iso20Again, Iso20Ends, Proceeds, Stays, Finishes,
        Fails, Peer, Responds, Kept, Off, RunsOn, SeccStops, Stopping, Ac, Requested, Granted,
        SeccRuns, EvccRuns, SeccMarked, Speaks, E, S, Iso20Follows, Iso20Lenient, SeFields,
        Judged20, Charges20, Before20, CoreTyped, Ends
    <3>1. Iso20Auth'
      OBVIOUS
    <3>2. Iso20Place'
      OBVIOUS
    <3>3. Iso20Path'
      OBVIOUS
    <3>4. Iso20Stop'
      OBVIOUS
    <3>5. Iso20Told'
      OBVIOUS
    <3>6. Iso20Again'
      OBVIOUS
    <3>7. Iso20Ends'
      OBVIOUS
    <3>8. Iso20Turn'
      BY DEF Iso20Turn, Iso20Fits, Iso20Leads, Iso20Next, Advances, Answered, Orderly, EvccMarked
    <3> QED
      BY <3>1, <3>2, <3>3, <3>4, <3>5, <3>6, <3>7, <3>8
  <2>7. SeccEnergy
    BY <2>2 DEF SeccEnergy, SeFields
  <2> QED
    BY <2>1, <2>3, <2>4, <2>5, <2>6, <2>7, SeccFrame DEF Iso20Taken, WireInv, Requested, SeccServed
<1>11. CASE Secc20!PowerDelivery
  <2>1. Iso20Taken("PowerDelivery")
    BY <1>11, Iso20Takes DEF Secc20!PowerDelivery, Iso20Taken
  <2>2. \/ /\ "computing" \in wire.info
           /\ Proceeds("PowerDelivery", {}, "PowerDelivery", Kept("PowerDelivery"))
           /\ UNCHANGED se
        \/ Finishes("PowerDelivery", "FAILED", FALSE) /\ UNCHANGED se
        \/ "computing" \notin wire.info /\ "Start" \in wire.info /\ \E closed \in BOOLEAN :
             /\ se' = [se EXCEPT !.hlc = closed, !.started = @ \/ closed,
                                 !.contactor = IF closed THEN "closed" ELSE @]
             /\ IF closed THEN Proceeds("PowerDelivery", {},
                                        IF Ac THEN "ACChargeLoop" ELSE "DCChargeLoop", {})
                ELSE Finishes("PowerDelivery", "FAILED", FALSE)
        \/ "Stop" \in wire.info /\ \E opened \in BOOLEAN :
             /\ se' = [se EXCEPT !.hlc = FALSE, !.contactor = IF opened THEN "open" ELSE @]
             /\ IF opened THEN Proceeds("PowerDelivery", {}, "PowerDelivery", Kept("PowerDelivery"))
                ELSE Finishes("PowerDelivery", "FAILED", FALSE)
    <3>1. Secc20!Ac <=> Ac
      BY DEF Secc20!Ac, Ac, Secc20!DIN, DIN
    <3>2. Refuse("PowerDelivery") => Finishes("PowerDelivery", "FAILED", FALSE)
      BY SeccDoes, NamesAre
    <3>3. Answer("PowerDelivery", {}, Object("PowerDelivery")) =>
            Proceeds("PowerDelivery", {}, "PowerDelivery", Kept("PowerDelivery"))
      BY SeccDoes, NamesAre, WordsAre
    <3>4. GoOn("PowerDelivery", {}, IF Ac THEN "ACChargeLoop" ELSE "DCChargeLoop") =>
            Proceeds("PowerDelivery", {}, IF Ac THEN "ACChargeLoop" ELSE "DCChargeLoop", {})
      BY SeccDoes, NamesAre, WordsAre
    <3> QED
      BY <1>11, <3>1, <3>2, <3>3, <3>4, Secc20Same DEF Secc20!PowerDelivery
  <2>3. SeccServed("PowerDelivery") \/ Fails("secc")
    BY <2>2 DEF SeccServed, SeccAnswers, Proceeds, Stays, Finishes
  <2>4. se' \in SeFields
    <3>1. ASSUME NEW closed \in BOOLEAN,
                 se' = [se EXCEPT !.hlc = closed, !.started = @ \/ closed,
                                  !.contactor = IF closed THEN "closed" ELSE @]
          PROVE  se' \in SeFields
      <4>1. (se.started \/ closed) \in BOOLEAN
        BY DEF SeFields
      <4> QED
        BY <3>1, <4>1 DEF SeFields
    <3>2. ASSUME NEW opened \in BOOLEAN,
                 se' = [se EXCEPT !.hlc = FALSE, !.contactor = IF opened THEN "open" ELSE @]
          PROVE  se' \in SeFields
      BY <3>2 DEF SeFields
    <3> QED
      BY <2>2, <3>1, <3>2
  <2>5. S' \in Iso20States /\ wire.name # "SupportedAppProtocol"
    BY <2>1, <2>2
      DEF Iso20States, Iso20Taken, Iso20Follows, Iso20Lenient, Proceeds, Stays, Finishes,
        Responds, Fails, S
  <2>6. Iso20Inv'
    <3>1. Iso20Auth'
      <4>1. se.judged /\ se'.judged = se.judged
        BY <2>1, <2>2
          DEF Iso20Taken, Iso20Inv, Iso20Auth, Iso20Follows, Iso20Lenient, Judged20, SeFields
      <4> QED
        BY <4>1 DEF Iso20Auth
    <3>2. Iso20Place'
      <4>1. ~ Requested' /\ (SeccRuns' => S' \in Judged20)
        BY <2>2
          DEF Proceeds, Stays, Finishes, Responds, RunsOn, SeccStops, SeccRuns, EvccRuns,
            Requested, Judged20
      <4> QED
        BY <4>1 DEF Iso20Place
    <3>3. Iso20Path'
      <4>1. ~ settings.ac => se'.insulated
        <5>1. se'.insulated = se.insulated
          BY <2>2 DEF SeFields
        <5> QED
          BY <2>1, <5>1 DEF Iso20Taken, Iso20Inv, Iso20Path, WireInv, Requested, Charges20
      <4> QED
        BY <2>1, <2>2, <4>1, ZenonT(60)
          DEF DIN, ISO2, ISO20, WireInv, EndInv, Iso20Taken, Iso20Inv, Iso20Auth, Iso20Place,
            Iso20Path, Iso20Stop, Iso20Told, Iso20Again, Iso20Ends, Proceeds, Stays, Finishes,
            Fails, Peer, Responds, Kept, Off, RunsOn, SeccStops, Stopping, Ac, Requested,
            Granted, SeccRuns, EvccRuns, SeccMarked, Speaks, E, S, Iso20Follows, Iso20Lenient,
            SeFields, Judged20, Charges20, Before20, CoreTyped, Ends
    <3>8. Iso20Turn'
      <4>1. SeccRuns' /\ EvccRuns =>
              \/ "computing" \in wire.info /\ S' = "PowerDelivery"
              \/ /\ "computing" \notin wire.info /\ "Start" \in wire.info
                 /\ S' = IF Ac THEN "ACChargeLoop" ELSE "DCChargeLoop"
              \/ "Stop" \in wire.info /\ S' = "PowerDelivery"
        BY <2>2, ZenonT(60) DEF Proceeds, Finishes, Responds, SeccStops, SeccRuns, S
      <4>2. Orderly' => Orderly /\ E' = "PowerDelivery" /\ ~ Requested'
        BY <2>1, <2>2
          DEF Orderly, Iso20Taken, WireInv, Proceeds, Finishes, Responds, RunsOn, SeccStops,
            SeccRuns, EvccRuns, Requested, E
      <4>3. Orderly => wire.info = IF ev.stop # "none" THEN { "Stop" }
                                   ELSE { "Start" } \union IF ev.computing THEN { "computing" } ELSE {}
        <5>1. Orderly /\ ev.stop # "none" => wire.info = { "Stop" }
          BY <2>1 DEF Iso20Taken, Iso20Inv, Iso20Stop, Stopping, WireInv, Requested, Speaks, DIN,
               ISO20
        <5> QED
          BY <2>1, <5>1 DEF Iso20Taken, Iso20Inv, Iso20Turn, WireInv, Requested
      <4>4. ev.stop # "none" => ~ ev.computing
        BY <2>1 DEF Iso20Taken, Iso20Inv, Iso20Stop, Stopping, WireInv, Requested, Speaks, DIN,
             ISO20
      <4>5. Ac <=> settings.ac
        BY DEF Ac, Speaks, DIN, ISO20
      <4>6. Orderly' => S' = IF ev.computing \/ ev.stop # "none" THEN "PowerDelivery"
                             ELSE IF settings.ac THEN "ACChargeLoop" ELSE "DCChargeLoop"
        <5>1. CASE ev.stop # "none"
          BY <4>1, <4>2, <4>3, <5>1 DEF Orderly
        <5>2. CASE ev.stop = "none" /\ ev.computing
          <6>1. Orderly => wire.info = { "Start", "computing" }
            BY <4>3, <5>2
          <6>2. Orderly => "Stop" \notin wire.info /\ "computing" \in wire.info
            BY <6>1
          <6> QED
            BY <4>1, <4>2, <5>2, <6>2 DEF Orderly
        <5>3. CASE ev.stop = "none" /\ ~ ev.computing
          <6>1. Orderly => wire.info = { "Start" }
            BY <4>3, <5>3
          <6> QED
            BY <4>1, <4>2, <4>5, <5>3, <6>1 DEF Orderly
        <5> QED
          BY <5>1, <5>2, <5>3
      <4> QED
        BY <4>2, <4>6 DEF Iso20Turn, Iso20Leads
    <3> USE <2>1, <2>2
      DEF DIN, ISO2, ISO20, WireInv, EndInv, Iso20Taken, Iso20Inv, Iso20Auth, Iso20Place,
        Iso20Path, Iso20Stop, Iso20Told, Iso20Again, Iso20Ends, Proceeds, Stays, Finishes,
        Fails, Peer, Responds, Kept, Off, RunsOn, SeccStops, Stopping, Ac, Requested, Granted,
        SeccRuns, EvccRuns, SeccMarked, Speaks, E, S, Iso20Follows, Iso20Lenient, SeFields,
        Judged20, Charges20, Before20, CoreTyped, Ends
    <3>4. Iso20Stop'
      OBVIOUS
    <3>5. Iso20Told'
      OBVIOUS
    <3>6. Iso20Again'
      OBVIOUS
    <3>7. Iso20Ends'
      OBVIOUS
    <3> QED
      BY <3>1, <3>2, <3>3, <3>4, <3>5, <3>6, <3>7, <3>8
  <2>7. SeccEnergy
    <3>1. CarReady
      BY <2>1 DEF CarReady, CarInv, CarEnabled, PowerStates, Iso20Taken, WireInv, Requested, E
    <3> QED
      BY <2>1, <2>2, <3>1
        DEF SeccEnergy, SeFields, Iso20Taken, WireInv, Requested, Proceeds, Stays, Finishes,
             SeccStops, SeccRuns
  <2> QED
    BY <2>1, <2>3, <2>4, <2>5, <2>6, <2>7, SeccFrame DEF Iso20Taken, WireInv, Requested, SeccServed
<1>12. CASE Secc20!ACChargeLoop
  <2>1. Iso20Taken("ACChargeLoop")
    BY <1>12, Iso20Takes DEF Secc20!ACChargeLoop, Secc20!Statuses, Iso20Taken
  <2>2. /\ \E info : Proceeds("ACChargeLoop", info, "ACChargeLoop", Kept("ACChargeLoop"))
        /\ UNCHANGED se
    BY <1>12, Secc20Same, SeccDoes, NamesAre, CodesAre, WordsAre
      DEF Secc20!ACChargeLoop, Secc20!Statuses
  <2>3. SeccServed("ACChargeLoop") \/ Fails("secc")
    BY <2>2 DEF SeccServed, SeccAnswers, Proceeds, Stays, Finishes
  <2>4. se' \in SeFields
    BY <2>2 DEF SeFields, Proceeds, Stays, Finishes, Fails, Responds
  <2>5. S' \in Iso20States /\ wire.name # "SupportedAppProtocol"
    BY <2>1, <2>2
      DEF Iso20States, Iso20Taken, Iso20Follows, Iso20Lenient, Proceeds, Stays, Finishes,
        Responds, Fails, S
  <2>6. Iso20Inv'
    <3> USE <2>1, <2>2
      DEF DIN, ISO2, ISO20, WireInv, EndInv, Iso20Taken, Iso20Inv, Iso20Auth, Iso20Place,
        Iso20Path, Iso20Stop, Iso20Told, Iso20Again, Iso20Ends, Proceeds, Stays, Finishes,
        Fails, Peer, Responds, Kept, Off, RunsOn, SeccStops, Stopping, Ac, Requested, Granted,
        SeccRuns, EvccRuns, SeccMarked, Speaks, E, S, Iso20Follows, Iso20Lenient, SeFields,
        Judged20, Charges20, Before20, CoreTyped, Ends
    <3>1. Iso20Auth'
      OBVIOUS
    <3>2. Iso20Place'
      OBVIOUS
    <3>3. Iso20Path'
      OBVIOUS
    <3>4. Iso20Stop'
      OBVIOUS
    <3>5. Iso20Told'
      OBVIOUS
    <3>6. Iso20Again'
      OBVIOUS
    <3>7. Iso20Ends'
      OBVIOUS
    <3>8. Iso20Turn'
      BY DEF Iso20Turn, Iso20Fits, Iso20Leads, Iso20Next, Advances, Answered, Orderly, EvccMarked
    <3> QED
      BY <3>1, <3>2, <3>3, <3>4, <3>5, <3>6, <3>7, <3>8
  <2>7. SeccEnergy
    BY <2>2 DEF SeccEnergy, SeFields
  <2> QED
    BY <2>1, <2>3, <2>4, <2>5, <2>6, <2>7, SeccFrame DEF Iso20Taken, WireInv, Requested, SeccServed
<1>13. CASE Secc20!DCChargeLoop
  <2>1. Iso20Taken("DCChargeLoop")
    BY <1>13, Iso20Takes DEF Secc20!DCChargeLoop, Secc20!Statuses, Iso20Taken
  <2>2. \/ /\ \E info : Stays("DCChargeLoop", info)
           /\ UNCHANGED se
        \/ Finishes("DCChargeLoop", "FAILED", FALSE) /\ UNCHANGED se
    BY <1>13, Secc20Same, SeccDoes, NamesAre, CodesAre, WordsAre, ZenonT(60)
      DEF Secc20!DCChargeLoop, Secc20!Statuses
  <2>3. SeccServed("DCChargeLoop") \/ Fails("secc")
    BY <2>2 DEF SeccServed, SeccAnswers, Proceeds, Stays, Finishes
  <2>4. se' \in SeFields
    BY <2>2 DEF SeFields, Proceeds, Stays, Finishes, Fails, Responds
  <2>5. S' \in Iso20States /\ wire.name # "SupportedAppProtocol"
    BY <2>1, <2>2
      DEF Iso20States, Iso20Taken, Iso20Follows, Iso20Lenient, Proceeds, Stays, Finishes,
        Responds, Fails, S
  <2>6. Iso20Inv'
    <3> USE <2>1, <2>2
      DEF DIN, ISO2, ISO20, WireInv, EndInv, Iso20Taken, Iso20Inv, Iso20Auth, Iso20Place,
        Iso20Path, Iso20Stop, Iso20Told, Iso20Again, Iso20Ends, Proceeds, Stays, Finishes,
        Fails, Peer, Responds, Kept, Off, RunsOn, SeccStops, Stopping, Ac, Requested, Granted,
        SeccRuns, EvccRuns, SeccMarked, Speaks, E, S, Iso20Follows, Iso20Lenient, SeFields,
        Judged20, Charges20, Before20, CoreTyped, Ends
    <3>1. Iso20Auth'
      OBVIOUS
    <3>2. Iso20Place'
      OBVIOUS
    <3>3. Iso20Path'
      OBVIOUS
    <3>4. Iso20Stop'
      OBVIOUS
    <3>5. Iso20Told'
      OBVIOUS
    <3>6. Iso20Again'
      OBVIOUS
    <3>7. Iso20Ends'
      OBVIOUS
    <3>8. Iso20Turn'
      BY DEF Iso20Turn, Iso20Fits, Iso20Leads, Iso20Next, Advances, Answered, Orderly, EvccMarked
    <3> QED
      BY <3>1, <3>2, <3>3, <3>4, <3>5, <3>6, <3>7, <3>8
  <2>7. SeccEnergy
    BY <2>2 DEF SeccEnergy, SeFields
  <2> QED
    BY <2>1, <2>3, <2>4, <2>5, <2>6, <2>7, SeccFrame DEF Iso20Taken, WireInv, Requested, SeccServed
<1>14. CASE Secc20!DCCableCheck
  <2>1. Iso20Taken("DCCableCheck")
    BY <1>14, Iso20Takes DEF Secc20!DCCableCheck, Iso20Taken
  <2>2. \/ Finishes("DCCableCheck", "FAILED", FALSE) /\ UNCHANGED se
        \/ Proceeds("DCCableCheck", {}, "DCCableCheck", Kept("DCCableCheck")) /\ UNCHANGED se
        \/ /\ Proceeds("DCCableCheck", {}, "DCCableCheck", { "closed" })
           /\ se' = [se EXCEPT !.contactor = "closed"]
        \/ /\ "closed" \in Kept("DCCableCheck")
           /\ Proceeds("DCCableCheck", { "finished" } \union {}, "DCPreCharge", {})
           /\ se' = [se EXCEPT !.insulated = TRUE]
    <3>1. CheckCable("DCCableCheck", {}, "DCPreCharge")
      BY <1>14, Secc20Same DEF Secc20!DCCableCheck
    <3> QED
      BY <3>1, CheckCableDoes, NamesAre, WordsAre
  <2>3. SeccServed("DCCableCheck") \/ Fails("secc")
    BY <2>2 DEF SeccServed, SeccAnswers, Proceeds, Stays, Finishes
  <2>4. se' \in SeFields
    BY <2>2 DEF SeFields, Proceeds, Stays, Finishes, Fails, Responds
  <2>5. S' \in Iso20States /\ wire.name # "SupportedAppProtocol"
    BY <2>1, <2>2
      DEF Iso20States, Iso20Taken, Iso20Follows, Iso20Lenient, Proceeds, Stays, Finishes,
        Responds, Fails, S
  <2>6. Iso20Inv'
    <3> USE <2>1, <2>2
      DEF DIN, ISO2, ISO20, WireInv, EndInv, Iso20Taken, Iso20Inv, Iso20Auth, Iso20Place,
        Iso20Path, Iso20Stop, Iso20Told, Iso20Again, Iso20Ends, Proceeds, Stays, Finishes,
        Fails, Peer, Responds, Kept, Off, RunsOn, SeccStops, Stopping, Ac, Requested, Granted,
        SeccRuns, EvccRuns, SeccMarked, Speaks, E, S, Iso20Follows, Iso20Lenient, SeFields,
        Judged20, Charges20, Before20, CoreTyped, Ends
    <3>1. Iso20Auth'
      OBVIOUS
    <3>2. Iso20Place'
      OBVIOUS
    <3>3. Iso20Path'
      OBVIOUS
    <3>4. Iso20Stop'
      OBVIOUS
    <3>5. Iso20Told'
      OBVIOUS
    <3>6. Iso20Again'
      OBVIOUS
    <3>7. Iso20Ends'
      OBVIOUS
    <3>8. Iso20Turn'
      BY DEF Iso20Turn, Iso20Fits, Iso20Leads, Iso20Next, Advances, Answered, Orderly, EvccMarked
    <3> QED
      BY <3>1, <3>2, <3>3, <3>4, <3>5, <3>6, <3>7, <3>8
  <2>7. SeccEnergy
    BY <2>1, <2>2
      DEF SeccEnergy, CarReady, CarInv, CarEnabled, PowerStates, SeFields, Iso20Taken,
           WireInv, Requested, E, Proceeds, Stays
  <2> QED
    BY <2>1, <2>3, <2>4, <2>5, <2>6, <2>7, SeccFrame DEF Iso20Taken, WireInv, Requested, SeccServed
<1>15. CASE Secc20!DCPreCharge
  <2>1. Iso20Taken("DCPreCharge")
    BY <1>15, Iso20Takes DEF Secc20!DCPreCharge, Iso20Taken
  <2>2. \/ /\ "finished" \in wire.info
           /\ Proceeds("DCPreCharge", {}, "PowerDelivery", {})
           /\ UNCHANGED se
        \/ /\ Stays("DCPreCharge", {})
           /\ UNCHANGED se
        \/ Finishes("DCPreCharge", "FAILED", FALSE) /\ UNCHANGED se
    BY <1>15, Secc20Same, SeccDoes, NamesAre, CodesAre, WordsAre DEF Secc20!DCPreCharge
  <2>3. SeccServed("DCPreCharge") \/ Fails("secc")
    BY <2>2 DEF SeccServed, SeccAnswers, Proceeds, Stays, Finishes
  <2>4. se' \in SeFields
    BY <2>2 DEF SeFields, Proceeds, Stays, Finishes, Fails, Responds
  <2>5. S' \in Iso20States /\ wire.name # "SupportedAppProtocol"
    BY <2>1, <2>2
      DEF Iso20States, Iso20Taken, Iso20Follows, Iso20Lenient, Proceeds, Stays, Finishes,
        Responds, Fails, S
  <2>6. Iso20Inv'
    <3> USE <2>1, <2>2
      DEF DIN, ISO2, ISO20, WireInv, EndInv, Iso20Taken, Iso20Inv, Iso20Auth, Iso20Place,
        Iso20Path, Iso20Stop, Iso20Told, Iso20Again, Iso20Ends, Proceeds, Stays, Finishes,
        Fails, Peer, Responds, Kept, Off, RunsOn, SeccStops, Stopping, Ac, Requested, Granted,
        SeccRuns, EvccRuns, SeccMarked, Speaks, E, S, Iso20Follows, Iso20Lenient, SeFields,
        Judged20, Charges20, Before20, CoreTyped, Ends
    <3>1. Iso20Auth'
      OBVIOUS
    <3>2. Iso20Place'
      OBVIOUS
    <3>3. Iso20Path'
      OBVIOUS
    <3>4. Iso20Stop'
      OBVIOUS
    <3>5. Iso20Told'
      OBVIOUS
    <3>6. Iso20Again'
      OBVIOUS
    <3>7. Iso20Ends'
      OBVIOUS
    <3>8. Iso20Turn'
      BY DEF Iso20Turn, Iso20Fits, Iso20Leads, Iso20Next, Advances, Answered, Orderly, EvccMarked
    <3> QED
      BY <3>1, <3>2, <3>3, <3>4, <3>5, <3>6, <3>7, <3>8
  <2>7. SeccEnergy
    BY <2>2 DEF SeccEnergy, SeFields
  <2> QED
    BY <2>1, <2>3, <2>4, <2>5, <2>6, <2>7, SeccFrame DEF Iso20Taken, WireInv, Requested, SeccServed
<1>16. CASE Secc20!DCWeldingDetection
  <2>1. Iso20Taken("DCWeldingDetection")
    BY <1>16, Iso20Takes DEF Secc20!DCWeldingDetection, Iso20Taken
  <2>2. /\ Stays("DCWeldingDetection", {})
        /\ UNCHANGED se
    BY <1>16, Secc20Same, SeccDoes, NamesAre, CodesAre, WordsAre DEF Secc20!DCWeldingDetection
  <2>3. SeccServed("DCWeldingDetection") \/ Fails("secc")
    BY <2>2 DEF SeccServed, SeccAnswers, Proceeds, Stays, Finishes
  <2>4. se' \in SeFields
    BY <2>2 DEF SeFields, Proceeds, Stays, Finishes, Fails, Responds
  <2>5. S' \in Iso20States /\ wire.name # "SupportedAppProtocol"
    BY <2>1, <2>2
      DEF Iso20States, Iso20Taken, Iso20Follows, Iso20Lenient, Proceeds, Stays, Finishes,
        Responds, Fails, S
  <2>6. Iso20Inv'
    <3> USE <2>1, <2>2
      DEF DIN, ISO2, ISO20, WireInv, EndInv, Iso20Taken, Iso20Inv, Iso20Auth, Iso20Place,
        Iso20Path, Iso20Stop, Iso20Told, Iso20Again, Iso20Ends, Proceeds, Stays, Finishes,
        Fails, Peer, Responds, Kept, Off, RunsOn, SeccStops, Stopping, Ac, Requested, Granted,
        SeccRuns, EvccRuns, SeccMarked, Speaks, E, S, Iso20Follows, Iso20Lenient, SeFields,
        Judged20, Charges20, Before20, CoreTyped, Ends
    <3>1. Iso20Auth'
      OBVIOUS
    <3>2. Iso20Place'
      OBVIOUS
    <3>3. Iso20Path'
      OBVIOUS
    <3>4. Iso20Stop'
      OBVIOUS
    <3>5. Iso20Told'
      OBVIOUS
    <3>6. Iso20Again'
      OBVIOUS
    <3>7. Iso20Ends'
      OBVIOUS
    <3>8. Iso20Turn'
      BY DEF Iso20Turn, Iso20Fits, Iso20Leads, Iso20Next, Advances, Answered, Orderly, EvccMarked
    <3> QED
      BY <3>1, <3>2, <3>3, <3>4, <3>5, <3>6, <3>7, <3>8
  <2>7. SeccEnergy
    BY <2>2 DEF SeccEnergy, SeFields
  <2> QED
    BY <2>1, <2>3, <2>4, <2>5, <2>6, <2>7, SeccFrame DEF Iso20Taken, WireInv, Requested, SeccServed
<1>17. CASE Secc20!SessionStop
  <2>1. Iso20Taken("SessionStop")
    BY <1>17, Iso20Takes DEF Secc20!SessionStop, Iso20Taken
  <2>2. /\ IF "ServiceRenegotiation" \in wire.info /\ settings.renegotiates
           THEN Proceeds("SessionStop", { "finished" }, "ServiceDiscovery", {})
           ELSE Finishes("SessionStop", "OK", TRUE)
        /\ UNCHANGED se
    BY <1>17, Secc20Same, SeccDoes, NamesAre, CodesAre, WordsAre DEF Secc20!SessionStop
  <2>3. SeccServed("SessionStop") \/ Fails("secc")
    BY <2>2 DEF SeccServed, SeccAnswers, Proceeds, Stays, Finishes
  <2>4. se' \in SeFields
    BY <2>2 DEF SeFields, Proceeds, Stays, Finishes, Fails, Responds
  <2>5. S' \in Iso20States /\ wire.name # "SupportedAppProtocol"
    BY <2>1, <2>2
      DEF Iso20States, Iso20Taken, Iso20Follows, Iso20Lenient, Proceeds, Stays, Finishes,
        Responds, Fails, S
  <2>6. Iso20Inv'
    <3> USE <2>1, <2>2
      DEF DIN, ISO2, ISO20, WireInv, EndInv, Iso20Taken, Iso20Inv, Iso20Auth, Iso20Place,
        Iso20Path, Iso20Stop, Iso20Told, Iso20Again, Iso20Ends, Proceeds, Stays, Finishes,
        Fails, Peer, Responds, Kept, Off, RunsOn, SeccStops, Stopping, Ac, Requested, Granted,
        SeccRuns, EvccRuns, SeccMarked, Speaks, E, S, Iso20Follows, Iso20Lenient, SeFields,
        Judged20, Charges20, Before20, CoreTyped, Ends
    <3>1. Iso20Auth'
      OBVIOUS
    <3>2. Iso20Place'
      OBVIOUS
    <3>3. Iso20Path'
      OBVIOUS
    <3>4. Iso20Stop'
      OBVIOUS
    <3>5. Iso20Told'
      OBVIOUS
    <3>6. Iso20Again'
      OBVIOUS
    <3>7. Iso20Ends'
      OBVIOUS
    <3>8. Iso20Turn'
      BY DEF Iso20Turn, Iso20Fits, Iso20Leads, Iso20Next, Advances, Answered, Orderly, EvccMarked
    <3> QED
      BY <3>1, <3>2, <3>3, <3>4, <3>5, <3>6, <3>7, <3>8
  <2>7. SeccEnergy
    BY <2>2 DEF SeccEnergy, SeFields
  <2> QED
    BY <2>1, <2>3, <2>4, <2>5, <2>6, <2>7, SeccFrame DEF Iso20Taken, WireInv, Requested, SeccServed
<1> QED
  BY <1>1, <1>2, <1>3, <1>4, <1>5, <1>6, <1>7, <1>8, <1>9, <1>10, <1>11, <1>12, <1>13, <1>14,
      <1>15, <1>16, <1>17 DEF Secc20!Handle

=============================================================================
