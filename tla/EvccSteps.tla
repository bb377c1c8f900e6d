----------------------------- MODULE EvccSteps ------------------------------
(* What the operators of V2GSession do at the EVCC, and that its handlers,  *)
(* protocol by protocol, keep the invariant of SessionSteps: per handler    *)
(* what it takes, what it does, and the parts.  From SeccSteps it takes the *)
(* facts about words, state objects and endings.                            *)
EXTENDS SeccSteps

-----------------------------------------------------------------------------
(* What the EVCC's operators do.                                             *)

\* Ask leaves a new object that waits for the response.
LEMMA AskDoes ==
  ASSUME CoreTyped, NEW r \in Names, NEW info \in SUBSET Words, Ask(r, info)
  PROVE  Asks(r, info, {}, NoMessage)
<1>1. /\ state' \in [Ends -> Objects]
      /\ state'["evcc"] = New(r) /\ state'["secc"] = state["secc"]
  BY ObjectIs DEF Ask, CoreTyped, Ends
<1>2. wire' = IF SeccRuns THEN Message("req", r, "OK", info) ELSE NoMessage
  BY DEF Ask, Send, SeccRuns
<1>3. wire' \in Messages
  BY <1>2, MessageTyped, NoMessageTyped, CodesAre
<1>4. CoreTyped'
  BY <1>1, <1>3 DEF Ask, CoreTyped
<1> QED
  BY <1>1, <1>2, <1>4 DEF Ask, Asks, AsksAgain, E, RunsOn, New, Message, NoMessage

\* A request that leaves the object, with other marks or the same.
LEMMA AskInPlaceDoes ==
  ASSUME CoreTyped, NEW info \in SUBSET Words, NEW marks \in SUBSET Marks, NEW object,
         object = [state["evcc"] EXCEPT !.marks = marks, !.out = Message("req", E, "OK", info)],
         Send("secc", Message("req", E, "OK", info)),
         state' = [state EXCEPT !["evcc"] = object], RunsOn
  PROVE  Asks(E, info, marks, Message("req", E, "OK", info))
<1> DEFINE m == Message("req", E, "OK", info)
<1>1. m \in Messages /\ m.kind = "req" /\ m.name = E /\ m.code = "OK" /\ m.info = info
  BY CodesAre, MessageTyped DEF Message, E, CoreTyped, Objects, Ends
<1>2. wire' = IF SeccRuns THEN m ELSE NoMessage
  BY DEF Send, SeccRuns
<1> HIDE DEF m
<1>3. object = [state["evcc"] EXCEPT !.marks = marks, !.out = m]
  BY DEF m
<1>4. object \in Objects /\ object.name = E /\ object.marks = marks /\ object.out = m
  BY <1>1, <1>3 DEF CoreTyped, Objects, Ends, E
<1>5. /\ state' \in [Ends -> Objects]
      /\ state'["evcc"] = object /\ state'["secc"] = state["secc"]
  BY <1>4 DEF CoreTyped, Ends
<1>6. CoreTyped'
  BY <1>1, <1>2, <1>5, NoMessageTyped DEF CoreTyped, RunsOn
<1> QED
  BY <1>1, <1>2, <1>4, <1>5, <1>6, NoMessageTyped DEF Asks, AsksAgain, E, m

\* AskAgain leaves the object, with the request in it.
LEMMA AskAgainDoes ==
  ASSUME CoreTyped, NEW info \in SUBSET Words, AskAgain(E, info)
  PROVE  AsksAgain(E, info)
<1> DEFINE m == Message("req", E, "OK", info)
           object == [state["evcc"] EXCEPT !.marks = state["evcc"].marks, !.out = m]
<1>1. state' = [state EXCEPT !["evcc"].out = m] /\ Send("secc", m) /\ RunsOn
  BY DEF AskAgain, RunsOn
<1> HIDE DEF m
<1>2. state["evcc"] \in Objects
  BY DEF CoreTyped, Ends
<1>3. object = [state["evcc"] EXCEPT !.out = m] /\ state["evcc"].marks \in SUBSET Marks
  BY <1>2 DEF Objects
<1>4. state' = [state EXCEPT !["evcc"] = object]
  BY <1>1, <1>3
<1> QED
  BY <1>1, <1>3, <1>4, AskInPlaceDoes DEF AsksAgain, m

\* What the EVCC's operators do, for any response.
LEMMA EvccDoes ==
  ASSUME CoreTyped
  PROVE  /\ \A r \in Names, info \in SUBSET Words : Ask(r, info) => Asks(r, info, {}, NoMessage)
         /\ \A r \in Names, info \in SUBSET Words : r = E /\ AskAgain(r, info) => AsksAgain(r, info)
         /\ EvccStop(TRUE) => Completes
         /\ EvccStop(FALSE) => GivesUp
         /\ Crash("evcc") => Fails("evcc")
<1>1. ASSUME NEW ok \in BOOLEAN, EvccStop(ok)
      PROVE  Leaves(ok)
  <2>1. wire' = IF SeccRuns THEN state["evcc"].out ELSE NoMessage
    BY <1>1 DEF EvccStop, Send, SeccRuns
  <2>2. state["evcc"] \in Objects
    BY DEF CoreTyped, Ends
  <2>3. wire' \in Messages
    BY <2>1, <2>2, NoMessageTyped DEF Objects
  <2> QED
    BY <1>1, <2>1, <2>3 DEF EvccStop, Leaves, EvccStops, CoreTyped, Ends
<1> QED
  BY <1>1, AskDoes, AskAgainDoes, CrashDoes DEF Ends, Completes, GivesUp

-----------------------------------------------------------------------------
(* The protocol modules' copies of them are the same.                        *)

\* DIN SPEC 70121's EVCC uses the operators of V2GSession.
LEMMA EvccDinSame ==
  /\ \A r : EvccDin!Response(r) <=> Response(r)
  /\ \A r, info : EvccDin!Ask(r, info) <=> Ask(r, info)
  /\ \A r, info : EvccDin!AskAgain(r, info) <=> AskAgain(r, info)
  /\ EvccDin!EvccStop(TRUE) <=> EvccStop(TRUE)
  /\ EvccDin!EvccStop(FALSE) <=> EvccStop(FALSE)
  /\ \A e : EvccDin!Crash(e) <=> Crash(e)
  /\ EvccDin!Overdue <=> Overdue
  /\ EvccDin!TimerOff = TimerOff
  /\ \A phase : EvccDin!TimerOn(phase) = TimerOn(phase)
BY Zenon DEF EvccDin!Response, Response, EvccDin!Ask, Ask, EvccDin!AskAgain, AskAgain,
       EvccDin!EvccStop, EvccStop, EvccDin!Crash, Crash, EvccDin!Overdue, Overdue,
       EvccDin!New, New, EvccDin!Message, Message, EvccDin!NoMessage, NoMessage,
       EvccDin!Send, Send, EvccDin!TimerOff, TimerOff, EvccDin!TimerOn, TimerOn

\* ISO 15118-2's EVCC uses them.
LEMMA Evcc2Same ==
  /\ \A r : Evcc2!Response(r) <=> Response(r)
  /\ \A r, info : Evcc2!Ask(r, info) <=> Ask(r, info)
  /\ \A r, info : Evcc2!AskAgain(r, info) <=> AskAgain(r, info)
  /\ Evcc2!EvccStop(TRUE) <=> EvccStop(TRUE)
  /\ Evcc2!EvccStop(FALSE) <=> EvccStop(FALSE)
  /\ \A e : Evcc2!Crash(e) <=> Crash(e)
  /\ Evcc2!Overdue <=> Overdue
  /\ Evcc2!TimerOff = TimerOff
  /\ \A phase : Evcc2!TimerOn(phase) = TimerOn(phase)
BY Zenon DEF Evcc2!Response, Response, Evcc2!Ask, Ask, Evcc2!AskAgain, AskAgain,
       Evcc2!EvccStop, EvccStop, Evcc2!Crash, Crash, Evcc2!Overdue, Overdue, Evcc2!New, New,
       Evcc2!Message, Message, Evcc2!NoMessage, NoMessage, Evcc2!Send, Send, Evcc2!TimerOff,
       TimerOff, Evcc2!TimerOn, TimerOn

\* ISO 15118-20's EVCC uses them.
LEMMA Evcc20Same ==
  /\ \A r : Evcc20!Response(r) <=> Response(r)
  /\ \A r, info : Evcc20!Ask(r, info) <=> Ask(r, info)
  /\ \A r, info : Evcc20!AskAgain(r, info) <=> AskAgain(r, info)
  /\ Evcc20!EvccStop(TRUE) <=> EvccStop(TRUE)
  /\ Evcc20!EvccStop(FALSE) <=> EvccStop(FALSE)
  /\ \A e : Evcc20!Crash(e) <=> Crash(e)
  /\ Evcc20!Overdue <=> Overdue
  /\ Evcc20!TimerOff = TimerOff
  /\ \A phase : Evcc20!TimerOn(phase) = TimerOn(phase)
BY Zenon DEF Evcc20!Response, Response, Evcc20!Ask, Ask, Evcc20!AskAgain, AskAgain,
       Evcc20!EvccStop, EvccStop, Evcc20!Crash, Crash, Evcc20!Overdue, Overdue, Evcc20!New,
       New, Evcc20!Message, Message, Evcc20!NoMessage, NoMessage, Evcc20!Send, Send,
       Evcc20!TimerOff, TimerOff, Evcc20!TimerOn, TimerOn

-----------------------------------------------------------------------------
(* The handlers.                                                             *)

\* What the EVCC may do with a response.
EvccMoves ==
  \/ \E r, info, marks :
       /\ r # "SupportedAppProtocol"
       /\ \/ Asks(r, info, marks, NoMessage)
          \/ /\ info \subseteq { "finished" } /\ r # "PowerDelivery"
             /\ Asks(r, info, marks, Message("req", r, "OK", info))
  \/ GivesUp \/ (success["secc"] /\ Completes) \/ Fails("evcc")

\* The EVCC asks to start, with a power profile that may not be ready.
Starts(current) ==
  \/ /\ Asks("PowerDelivery", { "Start" }, {}, NoMessage)
     /\ ev' = [current EXCEPT !.computing = FALSE]
  \/ /\ Asks("PowerDelivery", { "Start", "computing" }, {}, NoMessage)
     /\ ev' = [current EXCEPT !.computing = TRUE]

\* The request to start, as ISO 15118-20's EVCC makes it.
LEMMA StartDoes ==
  ASSUME CoreTyped, NEW current, Evcc20!StartCharging(current)
  PROVE  Starts(current)
<1>1. PICK ready \in BOOLEAN :
        /\ Evcc20!Ask("PowerDelivery", { "Start" } \union IF ready THEN {} ELSE { "computing" })
        /\ ev' = [current EXCEPT !.computing = ~ ready]
  BY DEF Evcc20!StartCharging
<1>2. CASE ready
  <2>1. Ask("PowerDelivery", { "Start" }) /\ ev' = [current EXCEPT !.computing = FALSE]
    <3>1. ({ "Start" } \union IF ready THEN {} ELSE { "computing" }) = { "Start" } /\ ((~ ready) = FALSE)
      BY <1>2
    <3> QED
      BY <1>1, <3>1, Evcc20Same
  <2> QED
    BY <2>1, EvccDoes, NamesAre, WordsAre DEF Starts
<1>3. CASE ~ ready
  <2>1. Ask("PowerDelivery", { "Start", "computing" }) /\ ev' = [current EXCEPT !.computing = TRUE]
    <3>1. /\ ({ "Start" } \union IF ready THEN {} ELSE { "computing" }) = { "Start", "computing" }
          /\ ((~ ready) = TRUE)
      BY <1>3
    <3> QED
      BY <1>1, <3>1, Evcc20Same
  <2> QED
    BY <2>1, EvccDoes, NamesAre, WordsAre DEF Starts
<1> QED
  BY <1>2, <1>3

\* What the EVCC may do with the energy: nothing, get the car ready, or turn it
\* off, but not while the station charges.
EvccEnergy ==
  \/ ev'.enabled = ev.enabled
  \/ ev'.enabled /\ RunsOn
  \/ /\ ~ ev'.enabled /\ RunsOn
     /\ ~ se.hlc \/ ~ SeccRuns \/ (Speaks(DIN) /\ "quits" \in settings.quirks)

\* What the EVCC's moves leave on the wire.
LEMMA EvccTells ==
  ASSUME WireInv
  PROVE  /\ \A r, info, marks, out : Asks(r, info, marks, out) =>
              /\ ~ Granted' /\ RunsOn
              /\ Requested' => wire'.name = r /\ wire'.info = info
         /\ GivesUp => /\ ~ Granted' /\ ~ EvccRuns' /\ run'["secc"] = run["secc"]
                       /\ Requested' => wire'.info \subseteq { "finished" }
         /\ Fails("evcc") => ~ Granted' /\ ~ Requested'
<1>1. \A r, info, marks, out : Asks(r, info, marks, out) =>
        /\ ~ Granted' /\ RunsOn
        /\ Requested' => wire'.name = r /\ wire'.info = info
  BY DEF Granted, Requested, Asks, AsksAgain, SeccRuns
<1>2. GivesUp => /\ ~ Granted' /\ ~ EvccRuns' /\ run'["secc"] = run["secc"]
                 /\ Requested' => wire'.info \subseteq { "finished" }
  BY DEF Granted, Requested, GivesUp, Leaves, EvccStops, SeccRuns, EvccRuns, NoMessage, Message,
      WireInv
<1>3. Fails("evcc") => ~ Granted' /\ ~ Requested'
  BY DEF Granted, Requested, Fails
<1> QED
  BY <1>1, <1>2, <1>3

\* Handling a response keeps what concerns the wire and the ends.
LEMMA EvccFrame ==
  ASSUME CoreTyped, WireInv, EndInv, wire.kind = "res", EvccRuns, EvccMoves, E # "SupportedAppProtocol"
  PROVE  CoreTyped' /\ WireInv' /\ EndInv' /\ E' # "SupportedAppProtocol"
         /\ run'["secc"] = run["secc"] /\ wire'.kind # "res"
<1>1. CASE \E r, info, marks :
             /\ r # "SupportedAppProtocol"
             /\ \/ Asks(r, info, marks, NoMessage)
                \/ /\ info \subseteq { "finished" } /\ r # "PowerDelivery"
                   /\ Asks(r, info, marks, Message("req", r, "OK", info))
  <2>1. PICK r, info, marks, out :
          /\ r # "SupportedAppProtocol" /\ Asks(r, info, marks, out)
          /\ \/ out = NoMessage
             \/ /\ info \subseteq { "finished" } /\ r # "PowerDelivery"
                /\ out = Message("req", r, "OK", info)
    BY <1>1
  <2> QED
    BY <2>1
      DEF Asks, AsksAgain, RunsOn, WireInv, EndInv, Granted, Requested, SeccRuns, EvccRuns, E,
        NoMessage, Message
<1>2. CASE GivesUp \/ (success["secc"] /\ Completes)
  BY <1>2
    DEF GivesUp, Completes, Leaves, EvccStops, WireInv, EndInv, Granted, Requested, SeccRuns,
      EvccRuns, E, NoMessage, Message
<1>3. CASE Fails("evcc")
  BY <1>3 DEF Fails, Peer, WireInv, EndInv, Granted, Requested, SeccRuns, EvccRuns, E
<1> QED
  BY <1>1, <1>2, <1>3 DEF EvccMoves

\* A request leaves the SECC where it is, and the turn with it.
LEMMA AskTurn ==
  ASSUME UNCHANGED settings, NEW r, NEW info, NEW marks, NEW out, Asks(r, info, marks, out),
         Orderly'
  PROVE  /\ Orderly /\ Requested' /\ wire'.info = info /\ E' = r
         /\ S' = S /\ SeccMarked("answered")' = SeccMarked("answered")
         /\ state'["evcc"].marks = marks
BY DEF Asks, Orderly, RunsOn, SeccRuns, EvccRuns, Requested, S, SeccMarked

\* So does the request to start, which says whether the profile is ready.
LEMMA StartTurn ==
  ASSUME UNCHANGED settings, NEW current \in EvFields, Starts(current), Orderly'
  PROVE  /\ Orderly /\ Requested' /\ E' = "PowerDelivery"
         /\ S' = S /\ SeccMarked("answered")' = SeccMarked("answered")
         /\ wire'.info = { "Start" } \union IF ev'.computing THEN { "computing" } ELSE {}
<1>1. CASE /\ Asks("PowerDelivery", { "Start" }, {}, NoMessage)
           /\ ev' = [current EXCEPT !.computing = FALSE]
  <2>1. ~ ev'.computing /\ { "Start" } = { "Start" } \union {}
    BY <1>1 DEF EvFields
  <2> QED
    BY <1>1, <2>1, AskTurn
<1>2. CASE /\ Asks("PowerDelivery", { "Start", "computing" }, {}, NoMessage)
           /\ ev' = [current EXCEPT !.computing = TRUE]
  <2>1. ev'.computing /\ { "Start", "computing" } = { "Start" } \union { "computing" }
    BY <1>2 DEF EvFields
  <2> QED
    BY <1>2, <2>1, AskTurn
<1> QED
  BY <1>1, <1>2 DEF Starts

\* Nobody has a turn when the EVCC is gone.
LEMMA LeaveTurn ==
  /\ GivesUp => ~ Orderly'
  /\ Completes => ~ Orderly'
  /\ Fails("evcc") => ~ Orderly'
BY DEF GivesUp, Completes, Leaves, EvccStops, Fails, Orderly, EvccRuns

-----------------------------------------------------------------------------

\* Every handler of DIN SPEC 70121's EVCC keeps the invariant.
LEMMA DinEvccStep ==
  ASSUME settings \in Settings, CoreTyped, ev \in EvFields, se \in SeFields, ProtocolInv,
         DinInv, WireInv, EndInv, CarInv, protocol["evcc"] = DIN, Speaks(DIN), EvccDin!Handle,
         UNCHANGED << settings, protocol, se >>
  PROVE  /\ CoreTyped' /\ WireInv' /\ EndInv' /\ CarInv' /\ S' = S
         /\ ev' \in EvFields /\ E' # "SupportedAppProtocol"
         /\ DinInv' /\ EvccEnergy /\ EvccRuns /\ run'["secc"] = run["secc"] /\ wire'.kind # "res"
<1>1. E # "SupportedAppProtocol"
  BY DEF ProtocolInv, DIN, ISO2, ISO20
<1>2. settings.ac \in BOOLEAN /\ settings.renegotiates \in BOOLEAN
  BY SettingsAssumption DEF Setting
<1>3. CASE EvccDin!SessionSetup
  <2>1. Granted /\ EvccRuns /\ E = "SessionSetup" /\ wire.name = "SessionSetup"
    BY <1>3 DEF EvccDin!SessionSetup, EvccDin!Response, Granted, EvccRuns, E
  <2>2. Asks("ServiceDiscovery", {}, {}, NoMessage) /\ UNCHANGED ev
    BY <1>3, <2>1, EvccDinSame, EvccDoes, NamesAre, WordsAre DEF EvccDin!SessionSetup
  <2>3. EvccMoves
    BY <1>2, <2>1, <2>2 DEF EvccMoves, AsksAgain, DinInv, DinStop, Granted
  <2>4. ev' \in EvFields
    BY <2>2, NamesAre DEF EvFields, TimerOn, TimerOff
  <2>5. S' = S
    BY <2>2 DEF Asks, AsksAgain, GivesUp, Completes, Leaves, Fails, S
  <2>6. DinInv' /\ CarInv'
    <3> USE <1>1, <1>2, <2>1, <2>2
      DEF DIN, ISO2, ISO20, WireInv, EndInv, CarInv, CarEnabled, CarTimed, ProtocolInv, DinInv,
        DinAuth, DinPath, DinStop, Asks, AsksAgain, GivesUp, Completes, Leaves, EvccStops,
        Fails, Peer, Off, RunsOn, Stopping, Requested, Granted, SeccRuns, EvccRuns, SeccMarked,
        Speaks, E, S, EvFields, TimerOn, TimerOff, GrantedV1, CoreTyped, Ends, Message,
        NoMessage
    <3>1. DinAuth'
      OBVIOUS
    <3>2. DinPath'
      OBVIOUS
    <3>3. DinStop'
      OBVIOUS
    <3>4. CarEnabled'
      BY DEF PowerStates
    <3>5. CarTimed'
      BY DEF TimedPhases
    <3>6. DinTurn'
      BY DEF DinTurn, DinFits, DinLeads, DinNext, DinFollows, Advances, Answered,
        Orderly, EvccMarked
    <3> QED
      BY <3>1, <3>2, <3>3, <3>4, <3>5, <3>6
  <2>7. EvccEnergy
    BY <2>2 DEF EvccEnergy, EvFields, TimerOn, TimerOff
  <2> QED
    BY <1>1, <2>1, <2>3, <2>4, <2>5, <2>6, <2>7, EvccFrame DEF Granted
<1>4. CASE EvccDin!ServiceDiscovery
  <2>1. Granted /\ EvccRuns /\ E = "ServiceDiscovery" /\ wire.name = "ServiceDiscovery"
    BY <1>4 DEF EvccDin!ServiceDiscovery, EvccDin!Response, Granted, EvccRuns, E
  <2>2. \/ /\ Asks("ServicePaymentSelection", { "EIM" }, {}, NoMessage)
           /\ ev' = [ev EXCEPT !.auth = "EIM"]
        \/ GivesUp /\ ev' = [ev EXCEPT !.auth = "EIM"]
        \/ GivesUp /\ UNCHANGED ev
    BY <1>4, <2>1, EvccDinSame, EvccDoes, NamesAre, WordsAre DEF EvccDin!ServiceDiscovery
  <2>3. EvccMoves
    BY <1>2, <2>1, <2>2 DEF EvccMoves, AsksAgain, DinInv, DinStop, Granted
  <2>4. ev' \in EvFields
    BY <2>2, NamesAre DEF EvFields, TimerOn, TimerOff
  <2>5. S' = S
    BY <2>2 DEF Asks, AsksAgain, GivesUp, Completes, Leaves, Fails, S
  <2>6. DinInv' /\ CarInv'
    <3> USE <1>1, <1>2, <2>1, <2>2
      DEF DIN, ISO2, ISO20, WireInv, EndInv, CarInv, CarEnabled, CarTimed, ProtocolInv, DinInv,
        DinAuth, DinPath, DinStop, Asks, AsksAgain, GivesUp, Completes, Leaves, EvccStops,
        Fails, Peer, Off, RunsOn, Stopping, Requested, Granted, SeccRuns, EvccRuns, SeccMarked,
        Speaks, E, S, EvFields, TimerOn, TimerOff, GrantedV1, CoreTyped, Ends, Message,
        NoMessage
    <3>1. DinAuth'
      OBVIOUS
    <3>2. DinPath'
      OBVIOUS
    <3>3. DinStop'
      OBVIOUS
    <3>4. CarEnabled'
      BY DEF PowerStates
    <3>5. CarTimed'
      BY DEF TimedPhases
    <3>6. DinTurn'
      BY DEF DinTurn, DinFits, DinLeads, DinNext, DinFollows, Advances, Answered,
        Orderly, EvccMarked
    <3> QED
      BY <3>1, <3>2, <3>3, <3>4, <3>5, <3>6
  <2>7. EvccEnergy
    BY <2>2 DEF EvccEnergy, EvFields, TimerOn, TimerOff
  <2> QED
    BY <1>1, <2>1, <2>3, <2>4, <2>5, <2>6, <2>7, EvccFrame DEF Granted
<1>5. CASE EvccDin!ServicePaymentSelection
  <2>1. Granted /\ EvccRuns /\ E = "ServicePaymentSelection" /\ wire.name = "ServicePaymentSelection"
    BY <1>5 DEF EvccDin!ServicePaymentSelection, EvccDin!Response, Granted, EvccRuns, E
  <2>2. Asks("ContractAuthentication", {}, {}, NoMessage) /\ UNCHANGED ev
    BY <1>5, <2>1, EvccDinSame, EvccDoes, NamesAre, WordsAre DEF EvccDin!ServicePaymentSelection
  <2>3. EvccMoves
    BY <1>2, <2>1, <2>2 DEF EvccMoves, AsksAgain, DinInv, DinStop, Granted
  <2>4. ev' \in EvFields
    BY <2>2, NamesAre DEF EvFields, TimerOn, TimerOff
  <2>5. S' = S
    BY <2>2 DEF Asks, AsksAgain, GivesUp, Completes, Leaves, Fails, S
  <2>6. DinInv' /\ CarInv'
    <3> USE <1>1, <1>2, <2>1, <2>2
      DEF DIN, ISO2, ISO20, WireInv, EndInv, CarInv, CarEnabled, CarTimed, ProtocolInv, DinInv,
        DinAuth, DinPath, DinStop, Asks, AsksAgain, GivesUp, Completes, Leaves, EvccStops,
        Fails, Peer, Off, RunsOn, Stopping, Requested, Granted, SeccRuns, EvccRuns, SeccMarked,
        Speaks, E, S, EvFields, TimerOn, TimerOff, GrantedV1, CoreTyped, Ends, Message,
        NoMessage
    <3>1. DinAuth'
      OBVIOUS
    <3>2. DinPath'
      OBVIOUS
    <3>3. DinStop'
      OBVIOUS
    <3>4. CarEnabled'
      BY DEF PowerStates
    <3>5. CarTimed'
      BY DEF TimedPhases
    <3>6. DinTurn'
      BY DEF DinTurn, DinFits, DinLeads, DinNext, DinFollows, Advances, Answered,
        Orderly, EvccMarked
    <3> QED
      BY <3>1, <3>2, <3>3, <3>4, <3>5, <3>6
  <2>7. EvccEnergy
    BY <2>2 DEF EvccEnergy, EvFields, TimerOn, TimerOff
  <2> QED
    BY <1>1, <2>1, <2>3, <2>4, <2>5, <2>6, <2>7, EvccFrame DEF Granted
<1>6. CASE EvccDin!ContractAuthentication
  <2>1. Granted /\ EvccRuns /\ E = "ContractAuthentication" /\ wire.name = "ContractAuthentication"
    BY <1>6 DEF EvccDin!ContractAuthentication, EvccDin!Response, Granted, EvccRuns, E
  <2>2. \/ GivesUp /\ UNCHANGED ev
        \/ /\ "finished" \in wire.info
           /\ Asks("ChargeParameterDiscovery", {}, {}, NoMessage)
           /\ ev' = TimerOn("ContractAuthentication")
        \/ /\ "finished" \notin wire.info
           /\ AsksAgain("ContractAuthentication", {})
           /\ ev' = TimerOn("ContractAuthentication")
    BY <1>6, <2>1, EvccDinSame, EvccDoes, NamesAre, WordsAre DEF EvccDin!ContractAuthentication
  <2>3. EvccMoves
    BY <1>2, <2>1, <2>2 DEF EvccMoves, AsksAgain, DinInv, DinStop, Granted
  <2>4. ev' \in EvFields
    BY <2>2, NamesAre DEF EvFields, TimerOn, TimerOff
  <2>5. S' = S
    BY <2>2 DEF Asks, AsksAgain, GivesUp, Completes, Leaves, Fails, S
  <2>6. DinInv' /\ CarInv'
    <3>6. DinTurn'
      <4>1. Orderly => S = IF "finished" \in wire.info THEN "ChargeParameterDiscovery" ELSE "ContractAuthentication"
        BY <2>1 DEF DinInv, DinTurn, DinLeads, DinNext, Advances, Answered, Granted
      <4>2. ASSUME Orderly'
            PROVE  /\ Requested' /\ DinFits'
                   /\ E' = "PowerDelivery" => ev'.complete \/ "Start" \in wire'.info
        BY <2>2, <4>1, <4>2, AskTurn, LeaveTurn DEF DinFits, DinFollows, AsksAgain
      <4> QED
        BY <4>2 DEF DinTurn, Requested
    <3> USE <1>1, <1>2, <2>1, <2>2
      DEF DIN, ISO2, ISO20, WireInv, EndInv, CarInv, CarEnabled, CarTimed, ProtocolInv, DinInv,
        DinAuth, DinPath, DinStop, Asks, AsksAgain, GivesUp, Completes, Leaves, EvccStops,
        Fails, Peer, Off, RunsOn, Stopping, Requested, Granted, SeccRuns, EvccRuns, SeccMarked,
        Speaks, E, S, EvFields, TimerOn, TimerOff, GrantedV1, CoreTyped, Ends, Message,
        NoMessage
    <3>1. DinAuth'
      OBVIOUS
    <3>2. DinPath'
      OBVIOUS
    <3>3. DinStop'
      OBVIOUS
    <3>4. CarEnabled'
      BY DEF PowerStates
    <3>5. CarTimed'
      BY DEF TimedPhases
    <3> QED
      BY <3>1, <3>2, <3>3, <3>4, <3>5, <3>6
  <2>7. EvccEnergy
    BY <2>2 DEF EvccEnergy, EvFields, TimerOn, TimerOff
  <2> QED
    BY <1>1, <2>1, <2>3, <2>4, <2>5, <2>6, <2>7, EvccFrame DEF Granted
<1>7. CASE EvccDin!ChargeParameterDiscovery
  <2>1. Granted /\ EvccRuns /\ E = "ChargeParameterDiscovery" /\ wire.name = "ChargeParameterDiscovery"
    BY <1>7 DEF EvccDin!ChargeParameterDiscovery, EvccDin!Response, Granted, EvccRuns, E
  <2>2. \/ /\ "finished" \in wire.info
           /\ Asks("CableCheck", {}, {}, NoMessage)
           /\ ev' = [TimerOff EXCEPT !.enabled = TRUE]
        \/ /\ "finished" \notin wire.info
           /\ AsksAgain("ChargeParameterDiscovery", {})
           /\ ev' = TimerOn("ChargeParameterDiscovery")
        \/ GivesUp /\ UNCHANGED ev
    BY <1>7, <2>1, EvccDinSame, EvccDoes, NamesAre, WordsAre
      DEF EvccDin!ChargeParameterDiscovery, EvccDin!Poll
  <2>3. EvccMoves
    BY <1>2, <2>1, <2>2 DEF EvccMoves, AsksAgain, DinInv, DinStop, Granted
  <2>4. ev' \in EvFields
    BY <2>2, NamesAre DEF EvFields, TimerOn, TimerOff
  <2>5. S' = S
    BY <2>2 DEF Asks, AsksAgain, GivesUp, Completes, Leaves, Fails, S
  <2>6. DinInv' /\ CarInv'
    <3>6. DinTurn'
      <4>1. Orderly => S = IF "finished" \in wire.info THEN "CableCheck" ELSE "ChargeParameterDiscovery"
        BY <2>1 DEF DinInv, DinTurn, DinLeads, DinNext, Advances, Answered, Granted
      <4>2. ASSUME Orderly'
            PROVE  /\ Requested' /\ DinFits'
                   /\ E' = "PowerDelivery" => ev'.complete \/ "Start" \in wire'.info
        BY <2>2, <4>1, <4>2, AskTurn, LeaveTurn DEF DinFits, DinFollows, AsksAgain
      <4> QED
        BY <4>2 DEF DinTurn, Requested
    <3> USE <1>1, <1>2, <2>1, <2>2
      DEF DIN, ISO2, ISO20, WireInv, EndInv, CarInv, CarEnabled, CarTimed, ProtocolInv, DinInv,
        DinAuth, DinPath, DinStop, Asks, AsksAgain, GivesUp, Completes, Leaves, EvccStops,
        Fails, Peer, Off, RunsOn, Stopping, Requested, Granted, SeccRuns, EvccRuns, SeccMarked,
        Speaks, E, S, EvFields, TimerOn, TimerOff, GrantedV1, CoreTyped, Ends, Message,
        NoMessage
    <3>1. DinAuth'
      OBVIOUS
    <3>2. DinPath'
      OBVIOUS
    <3>3. DinStop'
      BY ZenonT(60)
    <3>4. CarEnabled'
      BY ZenonT(60) DEF PowerStates
    <3>5. CarTimed'
      BY DEF TimedPhases
    <3> QED
      BY <3>1, <3>2, <3>3, <3>4, <3>5, <3>6
  <2>7. EvccEnergy
    BY <1>1, <1>2, <2>1, <2>2
      DEF EvccEnergy, EvFields, TimerOn, TimerOff, Asks, AsksAgain, DinInv, DinPath, Stopping,
        Off, Speaks, DIN, ISO2, ISO20, S, SeccRuns
  <2> QED
    BY <1>1, <2>1, <2>3, <2>4, <2>5, <2>6, <2>7, EvccFrame DEF Granted
<1>8. CASE EvccDin!CableCheck
  <2>1. Granted /\ EvccRuns /\ E = "CableCheck" /\ wire.name = "CableCheck"
    BY <1>8 DEF EvccDin!CableCheck, EvccDin!Response, Granted, EvccRuns, E
  <2>2. \/ /\ "finished" \in wire.info
           /\ Asks("PreCharge", {}, {}, NoMessage)
           /\ ev' = TimerOff
        \/ GivesUp /\ ev' = TimerOff
        \/ /\ "finished" \notin wire.info
           /\ AsksAgain("CableCheck", {})
           /\ ev' = TimerOn("CableCheck")
        \/ GivesUp /\ UNCHANGED ev
    BY <1>8, <2>1, EvccDinSame, EvccDoes, NamesAre, WordsAre
      DEF EvccDin!CableCheck, EvccDin!Poll
  <2>3. EvccMoves
    BY <1>2, <2>1, <2>2 DEF EvccMoves, AsksAgain, DinInv, DinStop, Granted
  <2>4. ev' \in EvFields
    BY <2>2, NamesAre DEF EvFields, TimerOn, TimerOff
  <2>5. S' = S
    BY <2>2 DEF Asks, AsksAgain, GivesUp, Completes, Leaves, Fails, S
  <2>6. DinInv' /\ CarInv'
    <3>6. DinTurn'
      <4>1. Orderly => S = IF "finished" \in wire.info THEN "PreCharge" ELSE "CableCheck"
        BY <2>1 DEF DinInv, DinTurn, DinLeads, DinNext, Advances, Answered, Granted
      <4>2. ASSUME Orderly'
            PROVE  /\ Requested' /\ DinFits'
                   /\ E' = "PowerDelivery" => ev'.complete \/ "Start" \in wire'.info
        BY <2>2, <4>1, <4>2, AskTurn, LeaveTurn DEF DinFits, DinFollows, AsksAgain
      <4> QED
        BY <4>2 DEF DinTurn, Requested
    <3> USE <1>1, <1>2, <2>1, <2>2
      DEF DIN, ISO2, ISO20, WireInv, EndInv, CarInv, CarEnabled, CarTimed, ProtocolInv, DinInv,
        DinAuth, DinPath, DinStop, Asks, AsksAgain, GivesUp, Completes, Leaves, EvccStops,
        Fails, Peer, Off, RunsOn, Stopping, Requested, Granted, SeccRuns, EvccRuns, SeccMarked,
        Speaks, E, S, EvFields, TimerOn, TimerOff, GrantedV1, CoreTyped, Ends, Message,
        NoMessage
    <3>1. DinAuth'
      OBVIOUS
    <3>2. DinPath'
      OBVIOUS
    <3>3. DinStop'
      OBVIOUS
    <3>4. CarEnabled'
      BY ZenonT(60) DEF PowerStates
    <3>5. CarTimed'
      BY DEF TimedPhases
    <3> QED
      BY <3>1, <3>2, <3>3, <3>4, <3>5, <3>6
  <2>7. EvccEnergy
    BY <2>2 DEF EvccEnergy, EvFields, TimerOn, TimerOff
  <2> QED
    BY <1>1, <2>1, <2>3, <2>4, <2>5, <2>6, <2>7, EvccFrame DEF Granted
<1>9. CASE EvccDin!PreCharge
  <2>1. Granted /\ EvccRuns /\ E = "PreCharge" /\ wire.name = "PreCharge"
    BY <1>9 DEF EvccDin!PreCharge, EvccDin!Response, Granted, EvccRuns, E
  <2>2. \/ Asks("PowerDelivery", { "Start" }, {}, NoMessage) /\ ev' = TimerOff
        \/ /\ AsksAgain("PreCharge", {})
           /\ ev' = TimerOn("PreCharge")
        \/ GivesUp /\ UNCHANGED ev
    BY <1>9, <2>1, EvccDinSame, EvccDoes, NamesAre, WordsAre DEF EvccDin!PreCharge, EvccDin!Poll
  <2>3. EvccMoves
    BY <1>2, <2>1, <2>2 DEF EvccMoves, AsksAgain, DinInv, DinStop, Granted
  <2>4. ev' \in EvFields
    BY <2>2, NamesAre DEF EvFields, TimerOn, TimerOff
  <2>5. S' = S
    BY <2>2 DEF Asks, AsksAgain, GivesUp, Completes, Leaves, Fails, S
  <2>6. DinInv' /\ CarInv'
    <3> USE <1>1, <1>2, <2>1, <2>2
      DEF DIN, ISO2, ISO20, WireInv, EndInv, CarInv, CarEnabled, CarTimed, ProtocolInv, DinInv,
        DinAuth, DinPath, DinStop, Asks, AsksAgain, GivesUp, Completes, Leaves, EvccStops,
        Fails, Peer, Off, RunsOn, Stopping, Requested, Granted, SeccRuns, EvccRuns, SeccMarked,
        Speaks, E, S, EvFields, TimerOn, TimerOff, GrantedV1, CoreTyped, Ends, Message,
        NoMessage
    <3>1. DinAuth'
      OBVIOUS
    <3>2. DinPath'
      OBVIOUS
    <3>3. DinStop'
      BY ZenonT(60)
    <3>4. CarEnabled'
      BY ZenonT(60) DEF PowerStates
    <3>5. CarTimed'
      BY DEF TimedPhases
    <3>6. DinTurn'
      BY DEF DinTurn, DinFits, DinLeads, DinNext, DinFollows, Advances, Answered,
        Orderly, EvccMarked
    <3> QED
      BY <3>1, <3>2, <3>3, <3>4, <3>5, <3>6
  <2>7. EvccEnergy
    BY <2>2 DEF EvccEnergy, EvFields, TimerOn, TimerOff
  <2> QED
    BY <1>1, <2>1, <2>3, <2>4, <2>5, <2>6, <2>7, EvccFrame DEF Granted
<1>10. CASE EvccDin!PowerDelivery
  <2>1. Granted /\ EvccRuns /\ E = "PowerDelivery" /\ wire.name = "PowerDelivery"
    BY <1>10 DEF EvccDin!PowerDelivery, EvccDin!Response, Granted, EvccRuns, E
  <2>2. \/ /\ ~ ev.complete
           /\ Asks("CurrentDemand", {}, {}, NoMessage)
           /\ UNCHANGED ev
        \/ /\ ev.complete \/ "quits" \in settings.quirks
           /\ Asks("WeldingDetection", {}, {}, NoMessage)
           /\ ev' = [ev EXCEPT !.enabled = FALSE]
    BY <1>10, <2>1, EvccDinSame, EvccDoes, NamesAre, WordsAre DEF EvccDin!PowerDelivery
  <2>3. EvccMoves
    BY <1>2, <2>1, <2>2 DEF EvccMoves, AsksAgain, DinInv, DinStop, Granted
  <2>4. ev' \in EvFields
    BY <2>2, NamesAre DEF EvFields, TimerOn, TimerOff
  <2>5. S' = S
    BY <2>2 DEF Asks, AsksAgain, GivesUp, Completes, Leaves, Fails, S
  <2>6. DinInv' /\ CarInv'
    <3> USE <1>1, <1>2, <2>1, <2>2
      DEF DIN, ISO2, ISO20, WireInv, EndInv, CarInv, CarEnabled, CarTimed, ProtocolInv, DinInv,
        DinAuth, DinPath, DinStop, Asks, AsksAgain, GivesUp, Completes, Leaves, EvccStops,
        Fails, Peer, Off, RunsOn, Stopping, Requested, Granted, SeccRuns, EvccRuns, SeccMarked,
        Speaks, E, S, EvFields, TimerOn, TimerOff, GrantedV1, CoreTyped, Ends, Message,
        NoMessage
    <3>1. DinAuth'
      OBVIOUS
    <3>2. DinPath'
      OBVIOUS
    <3>3. DinStop'
      OBVIOUS
    <3>4. CarEnabled'
      BY DEF PowerStates
    <3>5. CarTimed'
      BY DEF TimedPhases
    <3>6. DinTurn'
      BY DEF DinTurn, DinFits, DinLeads, DinNext, DinFollows, Advances, Answered,
        Orderly, EvccMarked
    <3> QED
      BY <3>1, <3>2, <3>3, <3>4, <3>5, <3>6
  <2>7. EvccEnergy
    BY <1>1, <1>2, <2>1, <2>2
      DEF EvccEnergy, EvFields, TimerOn, TimerOff, Asks, AsksAgain, DinInv, DinPath, Stopping,
        Off, Speaks, DIN, ISO2, ISO20, S, SeccRuns
  <2> QED
    BY <1>1, <2>1, <2>3, <2>4, <2>5, <2>6, <2>7, EvccFrame DEF Granted
<1>11. CASE EvccDin!CurrentDemand
  <2>1. Granted /\ EvccRuns /\ E = "CurrentDemand" /\ wire.name = "CurrentDemand"
    BY <1>11 DEF EvccDin!CurrentDemand, EvccDin!Response, Granted, EvccRuns, E
  <2>2. \/ /\ AsksAgain("CurrentDemand", {})
           /\ UNCHANGED ev
        \/ /\ Asks("PowerDelivery", {}, {}, NoMessage)
           /\ ev' = [ev EXCEPT !.complete = TRUE]
    BY <1>11, <2>1, EvccDinSame, EvccDoes, NamesAre, WordsAre DEF EvccDin!CurrentDemand
  <2>3. EvccMoves
    BY <1>2, <2>1, <2>2 DEF EvccMoves, AsksAgain, DinInv, DinStop, Granted
  <2>4. ev' \in EvFields
    BY <2>2, NamesAre DEF EvFields, TimerOn, TimerOff
  <2>5. S' = S
    BY <2>2 DEF Asks, AsksAgain, GivesUp, Completes, Leaves, Fails, S
  <2>6. DinInv' /\ CarInv'
    <3> USE <1>1, <1>2, <2>1, <2>2
      DEF DIN, ISO2, ISO20, WireInv, EndInv, CarInv, CarEnabled, CarTimed, ProtocolInv, DinInv,
        DinAuth, DinPath, DinStop, Asks, AsksAgain, GivesUp, Completes, Leaves, EvccStops,
        Fails, Peer, Off, RunsOn, Stopping, Requested, Granted, SeccRuns, EvccRuns, SeccMarked,
        Speaks, E, S, EvFields, TimerOn, TimerOff, GrantedV1, CoreTyped, Ends, Message,
        NoMessage
    <3>1. DinAuth'
      OBVIOUS
    <3>2. DinPath'
      OBVIOUS
    <3>3. DinStop'
      OBVIOUS
    <3>4. CarEnabled'
      BY DEF PowerStates
    <3>5. CarTimed'
      BY DEF TimedPhases
    <3>6. DinTurn'
      BY DEF DinTurn, DinFits, DinLeads, DinNext, DinFollows, Advances, Answered,
        Orderly, EvccMarked
    <3> QED
      BY <3>1, <3>2, <3>3, <3>4, <3>5, <3>6
  <2>7. EvccEnergy
    BY <2>2 DEF EvccEnergy, EvFields, TimerOn, TimerOff
  <2> QED
    BY <1>1, <2>1, <2>3, <2>4, <2>5, <2>6, <2>7, EvccFrame DEF Granted
<1>12. CASE EvccDin!WeldingDetection
  <2>1. Granted /\ EvccRuns /\ E = "WeldingDetection" /\ wire.name = "WeldingDetection"
    BY <1>12 DEF EvccDin!WeldingDetection, EvccDin!Response, Granted, EvccRuns, E
  <2>2. \/ GivesUp /\ UNCHANGED ev
        \/ /\ Asks("SessionStop", {}, {}, NoMessage)
           /\ ev' = TimerOn("WeldingDetection")
        \/ /\ AsksAgain("WeldingDetection", {})
           /\ ev' = TimerOn("WeldingDetection")
    BY <1>12, <2>1, EvccDinSame, EvccDoes, NamesAre, WordsAre DEF EvccDin!WeldingDetection
  <2>3. EvccMoves
    BY <1>2, <2>1, <2>2 DEF EvccMoves, AsksAgain, DinInv, DinStop, Granted
  <2>4. ev' \in EvFields
    BY <2>2, NamesAre DEF EvFields, TimerOn, TimerOff
  <2>5. S' = S
    BY <2>2 DEF Asks, AsksAgain, GivesUp, Completes, Leaves, Fails, S
  <2>6. DinInv' /\ CarInv'
    <3> USE <1>1, <1>2, <2>1, <2>2
      DEF DIN, ISO2, ISO20, WireInv, EndInv, CarInv, CarEnabled, CarTimed, ProtocolInv, DinInv,
        DinAuth, DinPath, DinStop, Asks, AsksAgain, GivesUp, Completes, Leaves, EvccStops,
        Fails, Peer, Off, RunsOn, Stopping, Requested, Granted, SeccRuns, EvccRuns, SeccMarked,
        Speaks, E, S, EvFields, TimerOn, TimerOff, GrantedV1, CoreTyped, Ends, Message,
        NoMessage
    <3>1. DinAuth'
      OBVIOUS
    <3>2. DinPath'
      OBVIOUS
    <3>3. DinStop'
      OBVIOUS
    <3>4. CarEnabled'
      BY DEF PowerStates
    <3>5. CarTimed'
      BY DEF TimedPhases
    <3>6. DinTurn'
      BY DEF DinTurn, DinFits, DinLeads, DinNext, DinFollows, Advances, Answered,
        Orderly, EvccMarked
    <3> QED
      BY <3>1, <3>2, <3>3, <3>4, <3>5, <3>6
  <2>7. EvccEnergy
    BY <2>2 DEF EvccEnergy, EvFields, TimerOn, TimerOff
  <2> QED
    BY <1>1, <2>1, <2>3, <2>4, <2>5, <2>6, <2>7, EvccFrame DEF Granted
<1>13. CASE EvccDin!SessionStop
  <2>1. Granted /\ EvccRuns /\ E = "SessionStop" /\ wire.name = "SessionStop"
    BY <1>13 DEF EvccDin!SessionStop, EvccDin!Response, Granted, EvccRuns, E
  <2>2. Completes /\ UNCHANGED ev
    BY <1>13, <2>1, EvccDinSame, EvccDoes, NamesAre, WordsAre DEF EvccDin!SessionStop
  <2>3. EvccMoves
    BY <1>2, <2>1, <2>2 DEF EvccMoves, AsksAgain, DinInv, DinStop, Granted
  <2>4. ev' \in EvFields
    BY <2>2, NamesAre DEF EvFields, TimerOn, TimerOff
  <2>5. S' = S
    BY <2>2 DEF Asks, AsksAgain, GivesUp, Completes, Leaves, Fails, S
  <2>6. DinInv' /\ CarInv'
    <3> USE <1>1, <1>2, <2>1, <2>2
      DEF DIN, ISO2, ISO20, WireInv, EndInv, CarInv, CarEnabled, CarTimed, ProtocolInv, DinInv,
        DinAuth, DinPath, DinStop, Asks, AsksAgain, GivesUp, Completes, Leaves, EvccStops,
        Fails, Peer, Off, RunsOn, Stopping, Requested, Granted, SeccRuns, EvccRuns, SeccMarked,
        Speaks, E, S, EvFields, TimerOn, TimerOff, GrantedV1, CoreTyped, Ends, Message,
        NoMessage
    <3>1. DinAuth'
      OBVIOUS
    <3>2. DinPath'
      OBVIOUS
    <3>3. DinStop'
      OBVIOUS
    <3>4. CarEnabled'
      BY DEF PowerStates
    <3>5. CarTimed'
      BY DEF TimedPhases
    <3>6. DinTurn'
      BY DEF DinTurn, DinFits, DinLeads, DinNext, DinFollows, Advances, Answered,
        Orderly, EvccMarked
    <3> QED
      BY <3>1, <3>2, <3>3, <3>4, <3>5, <3>6
  <2>7. EvccEnergy
    BY <2>2 DEF EvccEnergy, EvFields, TimerOn, TimerOff
  <2> QED
    BY <1>1, <2>1, <2>3, <2>4, <2>5, <2>6, <2>7, EvccFrame DEF Granted
<1> QED
  BY <1>3, <1>4, <1>5, <1>6, <1>7, <1>8, <1>9, <1>10, <1>11, <1>12, <1>13 DEF EvccDin!Handle

-----------------------------------------------------------------------------

\* Every handler of ISO 15118-2's EVCC keeps the invariant.
LEMMA Iso2EvccStep ==
  ASSUME settings \in Settings, CoreTyped, ev \in EvFields, se \in SeFields, ProtocolInv,
         Iso2Inv, WireInv, EndInv, CarInv, protocol["evcc"] = ISO2, Speaks(ISO2), Evcc2!Handle,
         UNCHANGED << settings, protocol, se >>
  PROVE  /\ CoreTyped' /\ WireInv' /\ EndInv' /\ CarInv' /\ S' = S
         /\ ev' \in EvFields /\ E' # "SupportedAppProtocol"
         /\ Iso2Inv' /\ EvccEnergy /\ EvccRuns /\ run'["secc"] = run["secc"] /\ wire'.kind # "res"
<1>1. E # "SupportedAppProtocol"
  BY DEF ProtocolInv, DIN, ISO2, ISO20
<1>2. settings.ac \in BOOLEAN /\ settings.renegotiates \in BOOLEAN
  BY SettingsAssumption DEF Setting
<1>3. CASE Evcc2!SessionSetup
  <2>1. Granted /\ EvccRuns /\ E = "SessionSetup" /\ wire.name = "SessionSetup"
    BY <1>3 DEF Evcc2!SessionSetup, Evcc2!Response, Granted, EvccRuns, E
  <2>2. Asks("ServiceDiscovery", {}, {}, NoMessage) /\ UNCHANGED ev
    BY <1>3, <2>1, Evcc2Same, EvccDoes, NamesAre, WordsAre DEF Evcc2!SessionSetup
  <2>3. EvccMoves
    BY <1>2, <2>1, <2>2 DEF EvccMoves, AsksAgain, Iso2Inv, Iso2Stop, Granted
  <2>4. ev' \in EvFields
    BY <2>2, NamesAre DEF EvFields, TimerOn, TimerOff
  <2>5. S' = S
    BY <2>2 DEF Asks, AsksAgain, GivesUp, Completes, Leaves, Fails, S
  <2>6. Iso2Inv' /\ CarInv'
    <3> USE <1>1, <1>2, <2>1, <2>2
      DEF DIN, ISO2, ISO20, WireInv, EndInv, CarInv, CarEnabled, CarTimed, ProtocolInv, Iso2Inv,
        Iso2Auth, Iso2Path, Iso2Stop, Asks, AsksAgain, GivesUp, Completes, Leaves, EvccStops,
        Fails, Peer, Off, RunsOn, Stopping, Requested, Granted, SeccRuns, EvccRuns, SeccMarked,
        Speaks, E, S, EvFields, TimerOn, TimerOff, GrantedV1, ChargesV1, CoreTyped, Ends,
        Message, NoMessage
    <3>1. Iso2Auth'
      OBVIOUS
    <3>2. Iso2Path'
      OBVIOUS
    <3>3. Iso2Stop'
      OBVIOUS
    <3>4. CarEnabled'
      BY DEF PowerStates
    <3>5. CarTimed'
      BY DEF TimedPhases
    <3>6. Iso2Turn'
      BY DEF Iso2Turn, Iso2Fits, Iso2Leads, Iso2Asks, Iso2Next, Iso2Follows, Advances, Answered,
        Orderly, EvccMarked
    <3> QED
      BY <3>1, <3>2, <3>3, <3>4, <3>5, <3>6
  <2>7. EvccEnergy
    BY <2>2 DEF EvccEnergy, EvFields, TimerOn, TimerOff
  <2> QED
    BY <1>1, <2>1, <2>3, <2>4, <2>5, <2>6, <2>7, EvccFrame DEF Granted
<1>4. CASE Evcc2!ServiceDiscovery
  <2>1. Granted /\ EvccRuns /\ E = "ServiceDiscovery" /\ wire.name = "ServiceDiscovery"
    BY <1>4 DEF Evcc2!ServiceDiscovery, Evcc2!Response, Granted, EvccRuns, E
  <2>2. \E auth \in { "EIM", "PnC" } :
          /\ ev' = [ev EXCEPT !.auth = auth]
          /\ \/ Asks("ServiceDetail", {}, {}, NoMessage)
             \/ Asks("PaymentServiceSelection", { auth }, {}, NoMessage)
             \/ GivesUp
    BY <1>4, <2>1, Evcc2Same, EvccDoes, NamesAre, WordsAre DEF Evcc2!ServiceDiscovery
  <2>3. EvccMoves
    BY <1>2, <2>1, <2>2 DEF EvccMoves, AsksAgain, Iso2Inv, Iso2Stop, Granted
  <2>4. ev' \in EvFields
    BY <2>2, NamesAre DEF EvFields, TimerOn, TimerOff
  <2>5. S' = S
    BY <2>2 DEF Asks, AsksAgain, GivesUp, Completes, Leaves, Fails, S
  <2>6. Iso2Inv' /\ CarInv'
    <3>6. Iso2Turn'
      <4>1. Orderly => ~ ev.renegotiating /\ Answered("ServiceDiscovery")
        BY <2>1 DEF Iso2Inv, Iso2Turn, Iso2Leads, Iso2Next, Advances, Answered, Granted
      <4>2. ev.stop = "none"
        BY <2>1 DEF Iso2Inv, Iso2Stop
      <4>3. ASSUME Orderly'
            PROVE  /\ Requested' /\ Iso2Fits'
                   /\ E' = "PowerDelivery" => wire'.info = { Iso2Asks' }
                   /\ ev'.renegotiating => E' = "PowerDelivery" /\ ev'.stop = "none"
        BY <2>2, <4>1, <4>2, <4>3, AskTurn, LeaveTurn
          DEF Iso2Fits, Iso2Follows, Iso2Asks, Answered, AsksAgain, TimerOn, TimerOff, EvFields
      <4> QED
        BY <4>3 DEF Iso2Turn, Requested
    <3> USE <1>1, <1>2, <2>1, <2>2
      DEF DIN, ISO2, ISO20, WireInv, EndInv, CarInv, CarEnabled, CarTimed, ProtocolInv, Iso2Inv,
        Iso2Auth, Iso2Path, Iso2Stop, Asks, AsksAgain, GivesUp, Completes, Leaves, EvccStops,
        Fails, Peer, Off, RunsOn, Stopping, Requested, Granted, SeccRuns, EvccRuns, SeccMarked,
        Speaks, E, S, EvFields, TimerOn, TimerOff, GrantedV1, ChargesV1, CoreTyped, Ends,
        Message, NoMessage
    <3>1. Iso2Auth'
      OBVIOUS
    <3>2. Iso2Path'
      OBVIOUS
    <3>3. Iso2Stop'
      OBVIOUS
    <3>4. CarEnabled'
      BY DEF PowerStates
    <3>5. CarTimed'
      BY DEF TimedPhases
    <3> QED
      BY <3>1, <3>2, <3>3, <3>4, <3>5, <3>6
  <2>7. EvccEnergy
    BY <2>2 DEF EvccEnergy, EvFields, TimerOn, TimerOff
  <2> QED
    BY <1>1, <2>1, <2>3, <2>4, <2>5, <2>6, <2>7, EvccFrame DEF Granted
<1>5. CASE Evcc2!ServiceDetail
  <2>1. Granted /\ EvccRuns /\ E = "ServiceDetail" /\ wire.name = "ServiceDetail"
    BY <1>5 DEF Evcc2!ServiceDetail, Evcc2!Response, Granted, EvccRuns, E
  <2>2. Asks("PaymentServiceSelection", { ev.auth }, {}, NoMessage) /\ UNCHANGED ev
    <3>1. { ev.auth } \in SUBSET Words
      BY DEF EvFields, Words
    <3> QED
      BY <1>5, <3>1, Evcc2Same, EvccDoes, NamesAre DEF Evcc2!ServiceDetail
  <2>3. EvccMoves
    BY <1>2, <2>1, <2>2 DEF EvccMoves, AsksAgain, Iso2Inv, Iso2Stop, Granted
  <2>4. ev' \in EvFields
    BY <2>2, NamesAre DEF EvFields, TimerOn, TimerOff
  <2>5. S' = S
    BY <2>2 DEF Asks, AsksAgain, GivesUp, Completes, Leaves, Fails, S
  <2>6. Iso2Inv' /\ CarInv'
    <3> USE <1>1, <1>2, <2>1, <2>2
      DEF DIN, ISO2, ISO20, WireInv, EndInv, CarInv, CarEnabled, CarTimed, ProtocolInv, Iso2Inv,
        Iso2Auth, Iso2Path, Iso2Stop, Asks, AsksAgain, GivesUp, Completes, Leaves, EvccStops,
        Fails, Peer, Off, RunsOn, Stopping, Requested, Granted, SeccRuns, EvccRuns, SeccMarked,
        Speaks, E, S, EvFields, TimerOn, TimerOff, GrantedV1, ChargesV1, CoreTyped, Ends,
        Message, NoMessage
    <3>1. Iso2Auth'
      OBVIOUS
    <3>2. Iso2Path'
      OBVIOUS
    <3>3. Iso2Stop'
      OBVIOUS
    <3>4. CarEnabled'
      BY DEF PowerStates
    <3>5. CarTimed'
      BY DEF TimedPhases
    <3>6. Iso2Turn'
      BY DEF Iso2Turn, Iso2Fits, Iso2Leads, Iso2Asks, Iso2Next, Iso2Follows, Advances, Answered,
        Orderly, EvccMarked
    <3> QED
      BY <3>1, <3>2, <3>3, <3>4, <3>5, <3>6
  <2>7. EvccEnergy
    BY <2>2 DEF EvccEnergy, EvFields, TimerOn, TimerOff
  <2> QED
    BY <1>1, <2>1, <2>3, <2>4, <2>5, <2>6, <2>7, EvccFrame DEF Granted
<1>6. CASE Evcc2!PaymentServiceSelection
  <2>1. Granted /\ EvccRuns /\ E = "PaymentServiceSelection" /\ wire.name = "PaymentServiceSelection"
    BY <1>6 DEF Evcc2!PaymentServiceSelection, Evcc2!Response, Granted, EvccRuns, E
  <2>2. /\ \/ Asks("Authorization", {}, {}, NoMessage)
           \/ Asks("CertificateInstallation", {}, {}, NoMessage)
           \/ Asks("PaymentDetails", {}, {}, NoMessage)
           \/ GivesUp
        /\ UNCHANGED ev
    BY <1>6, <2>1, Evcc2Same, EvccDoes, NamesAre, WordsAre DEF Evcc2!PaymentServiceSelection
  <2>3. EvccMoves
    BY <1>2, <2>1, <2>2 DEF EvccMoves, AsksAgain, Iso2Inv, Iso2Stop, Granted
  <2>4. ev' \in EvFields
    BY <2>2, NamesAre DEF EvFields, TimerOn, TimerOff
  <2>5. S' = S
    BY <2>2 DEF Asks, AsksAgain, GivesUp, Completes, Leaves, Fails, S
  <2>6. Iso2Inv' /\ CarInv'
    <3> USE <1>1, <1>2, <2>1, <2>2
      DEF DIN, ISO2, ISO20, WireInv, EndInv, CarInv, CarEnabled, CarTimed, ProtocolInv, Iso2Inv,
        Iso2Auth, Iso2Path, Iso2Stop, Asks, AsksAgain, GivesUp, Completes, Leaves, EvccStops,
        Fails, Peer, Off, RunsOn, Stopping, Requested, Granted, SeccRuns, EvccRuns, SeccMarked,
        Speaks, E, S, EvFields, TimerOn, TimerOff, GrantedV1, ChargesV1, CoreTyped, Ends,
        Message, NoMessage
    <3>1. Iso2Auth'
      OBVIOUS
    <3>2. Iso2Path'
      OBVIOUS
    <3>3. Iso2Stop'
      OBVIOUS
    <3>4. CarEnabled'
      BY DEF PowerStates
    <3>5. CarTimed'
      BY DEF TimedPhases
    <3>6. Iso2Turn'
      BY ZenonT(60) DEF Iso2Turn, Iso2Fits, Iso2Leads, Iso2Asks, Iso2Next, Iso2Follows, Advances,
          Answered,
        Orderly, EvccMarked
    <3> QED
      BY <3>1, <3>2, <3>3, <3>4, <3>5, <3>6
  <2>7. EvccEnergy
    BY <2>2 DEF EvccEnergy, EvFields, TimerOn, TimerOff
  <2> QED
    BY <1>1, <2>1, <2>3, <2>4, <2>5, <2>6, <2>7, EvccFrame DEF Granted
<1>7. CASE Evcc2!CertificateInstallation
  <2>1. Granted /\ EvccRuns /\ E = "CertificateInstallation" /\ wire.name = "CertificateInstallation"
    BY <1>7 DEF Evcc2!CertificateInstallation, Evcc2!Response, Granted, EvccRuns, E
  <2>2. \/ Asks("PaymentDetails", {}, {}, NoMessage) /\ UNCHANGED ev
        \/ GivesUp /\ UNCHANGED ev
    BY <1>7, <2>1, Evcc2Same, EvccDoes, NamesAre, WordsAre DEF Evcc2!CertificateInstallation
  <2>3. EvccMoves
    BY <1>2, <2>1, <2>2 DEF EvccMoves, AsksAgain, Iso2Inv, Iso2Stop, Granted
  <2>4. ev' \in EvFields
    BY <2>2, NamesAre DEF EvFields, TimerOn, TimerOff
  <2>5. S' = S
    BY <2>2 DEF Asks, AsksAgain, GivesUp, Completes, Leaves, Fails, S
  <2>6. Iso2Inv' /\ CarInv'
    <3> USE <1>1, <1>2, <2>1, <2>2
      DEF DIN, ISO2, ISO20, WireInv, EndInv, CarInv, CarEnabled, CarTimed, ProtocolInv, Iso2Inv,
        Iso2Auth, Iso2Path, Iso2Stop, Asks, AsksAgain, GivesUp, Completes, Leaves, EvccStops,
        Fails, Peer, Off, RunsOn, Stopping, Requested, Granted, SeccRuns, EvccRuns, SeccMarked,
        Speaks, E, S, EvFields, TimerOn, TimerOff, GrantedV1, ChargesV1, CoreTyped, Ends,
        Message, NoMessage
    <3>1. Iso2Auth'
      OBVIOUS
    <3>2. Iso2Path'
      OBVIOUS
    <3>3. Iso2Stop'
      OBVIOUS
    <3>4. CarEnabled'
      BY DEF PowerStates
    <3>5. CarTimed'
      BY DEF TimedPhases
    <3>6. Iso2Turn'
      BY ZenonT(60) DEF Iso2Turn, Iso2Fits, Iso2Leads, Iso2Asks, Iso2Next, Iso2Follows, Advances,
          Answered,
        Orderly, EvccMarked
    <3> QED
      BY <3>1, <3>2, <3>3, <3>4, <3>5, <3>6
  <2>7. EvccEnergy
    BY <2>2 DEF EvccEnergy, EvFields, TimerOn, TimerOff
  <2> QED
    BY <1>1, <2>1, <2>3, <2>4, <2>5, <2>6, <2>7, EvccFrame DEF Granted
<1>8. CASE Evcc2!PaymentDetails
  <2>1. Granted /\ EvccRuns /\ E = "PaymentDetails" /\ wire.name = "PaymentDetails"
    BY <1>8 DEF Evcc2!PaymentDetails, Evcc2!Response, Granted, EvccRuns, E
  <2>2. \/ Asks("Authorization", {}, {}, NoMessage) /\ UNCHANGED ev
        \/ GivesUp /\ UNCHANGED ev
    BY <1>8, <2>1, Evcc2Same, EvccDoes, NamesAre, WordsAre DEF Evcc2!PaymentDetails
  <2>3. EvccMoves
    BY <1>2, <2>1, <2>2 DEF EvccMoves, AsksAgain, Iso2Inv, Iso2Stop, Granted
  <2>4. ev' \in EvFields
    BY <2>2, NamesAre DEF EvFields, TimerOn, TimerOff
  <2>5. S' = S
    BY <2>2 DEF Asks, AsksAgain, GivesUp, Completes, Leaves, Fails, S
  <2>6. Iso2Inv' /\ CarInv'
    <3> USE <1>1, <1>2, <2>1, <2>2
      DEF DIN, ISO2, ISO20, WireInv, EndInv, CarInv, CarEnabled, CarTimed, ProtocolInv, Iso2Inv,
        Iso2Auth, Iso2Path, Iso2Stop, Asks, AsksAgain, GivesUp, Completes, Leaves, EvccStops,
        Fails, Peer, Off, RunsOn, Stopping, Requested, Granted, SeccRuns, EvccRuns, SeccMarked,
        Speaks, E, S, EvFields, TimerOn, TimerOff, GrantedV1, ChargesV1, CoreTyped, Ends,
        Message, NoMessage
    <3>1. Iso2Auth'
      OBVIOUS
    <3>2. Iso2Path'
      OBVIOUS
    <3>3. Iso2Stop'
      OBVIOUS
    <3>4. CarEnabled'
      BY DEF PowerStates
    <3>5. CarTimed'
      BY DEF TimedPhases
    <3>6. Iso2Turn'
      BY ZenonT(60) DEF Iso2Turn, Iso2Fits, Iso2Leads, Iso2Asks, Iso2Next, Iso2Follows, Advances,
          Answered,
        Orderly, EvccMarked
    <3> QED
      BY <3>1, <3>2, <3>3, <3>4, <3>5, <3>6
  <2>7. EvccEnergy
    BY <2>2 DEF EvccEnergy, EvFields, TimerOn, TimerOff
  <2> QED
    BY <1>1, <2>1, <2>3, <2>4, <2>5, <2>6, <2>7, EvccFrame DEF Granted
<1>9. CASE Evcc2!Authorization
  <2>1. Granted /\ EvccRuns /\ E = "Authorization" /\ wire.name = "Authorization"
    BY <1>9 DEF Evcc2!Authorization, Evcc2!Response, Granted, EvccRuns, E
  <2>2. \/ /\ "finished" \in wire.info
           /\ Asks("ChargeParameterDiscovery", {}, {}, NoMessage)
           /\ ev' = TimerOff
        \/ /\ "finished" \notin wire.info
           /\ Asks("Authorization", {}, {}, NoMessage)
           /\ ev' = TimerOn("Authorization")
        \/ GivesUp /\ UNCHANGED ev
    BY <1>9, <2>1, Evcc2Same, EvccDoes, NamesAre, WordsAre DEF Evcc2!Authorization, Evcc2!Poll
  <2>3. EvccMoves
    BY <1>2, <2>1, <2>2 DEF EvccMoves, AsksAgain, Iso2Inv, Iso2Stop, Granted
  <2>4. ev' \in EvFields
    BY <2>2, NamesAre DEF EvFields, TimerOn, TimerOff
  <2>5. S' = S
    BY <2>2 DEF Asks, AsksAgain, GivesUp, Completes, Leaves, Fails, S
  <2>6. Iso2Inv' /\ CarInv'
    <3>6. Iso2Turn'
      <4>1. Orderly => ~ ev.renegotiating /\ S = IF "finished" \in wire.info THEN "ChargeParameterDiscovery" ELSE "Authorization"
        BY <2>1 DEF Iso2Inv, Iso2Turn, Iso2Leads, Iso2Next, Advances, Answered, Granted
      <4>2. ev.stop = "none"
        BY <2>1 DEF Iso2Inv, Iso2Stop
      <4>3. ASSUME Orderly'
            PROVE  /\ Requested' /\ Iso2Fits'
                   /\ E' = "PowerDelivery" => wire'.info = { Iso2Asks' }
                   /\ ev'.renegotiating => E' = "PowerDelivery" /\ ev'.stop = "none"
        BY <2>2, <4>1, <4>2, <4>3, AskTurn, LeaveTurn
          DEF Iso2Fits, Iso2Follows, Iso2Asks, Answered, AsksAgain, TimerOn, TimerOff, EvFields
      <4> QED
        BY <4>3 DEF Iso2Turn, Requested
    <3> USE <1>1, <1>2, <2>1, <2>2
      DEF DIN, ISO2, ISO20, WireInv, EndInv, CarInv, CarEnabled, CarTimed, ProtocolInv, Iso2Inv,
        Iso2Auth, Iso2Path, Iso2Stop, Asks, AsksAgain, GivesUp, Completes, Leaves, EvccStops,
        Fails, Peer, Off, RunsOn, Stopping, Requested, Granted, SeccRuns, EvccRuns, SeccMarked,
        Speaks, E, S, EvFields, TimerOn, TimerOff, GrantedV1, ChargesV1, CoreTyped, Ends,
        Message, NoMessage
    <3>1. Iso2Auth'
      BY ZenonT(60)
    <3>2. Iso2Path'
      OBVIOUS
    <3>3. Iso2Stop'
      BY ZenonT(60)
    <3>4. CarEnabled'
      BY DEF PowerStates
    <3>5. CarTimed'
      BY ZenonT(60) DEF TimedPhases
    <3> QED
      BY <3>1, <3>2, <3>3, <3>4, <3>5, <3>6
  <2>7. EvccEnergy
    BY <2>2 DEF EvccEnergy, EvFields, TimerOn, TimerOff
  <2> QED
    BY <1>1, <2>1, <2>3, <2>4, <2>5, <2>6, <2>7, EvccFrame DEF Granted
<1>10. CASE Evcc2!ChargeParameterDiscovery
  <2>1. Granted /\ EvccRuns /\ E = "ChargeParameterDiscovery" /\ wire.name = "ChargeParameterDiscovery"
    BY <1>10 DEF Evcc2!ChargeParameterDiscovery, Evcc2!Response, Granted, EvccRuns, E
  <2>2. \/ /\ settings.ac /\ "finished" \in wire.info
           /\ \E progress \in { "Start", "Stop" } :
                /\ progress = "Stop" => "delays" \in settings.quirks
                /\ Asks("PowerDelivery", { progress }, {}, NoMessage)
           /\ ev' = [TimerOff EXCEPT !.enabled = TRUE]
        \/ /\ ~ settings.ac /\ "finished" \in wire.info
           /\ Asks("CableCheck", {}, {}, NoMessage)
           /\ ev' = [TimerOff EXCEPT !.enabled = TRUE]
        \/ /\ "finished" \notin wire.info
           /\ Asks("ChargeParameterDiscovery", {}, {}, NoMessage)
           /\ ev' = TimerOn("ChargeParameterDiscovery")
        \/ GivesUp /\ UNCHANGED ev
    BY <1>10, <2>1, Evcc2Same, EvccDoes, NamesAre, WordsAre
      DEF Evcc2!ChargeParameterDiscovery, Evcc2!Poll
  <2>3. EvccMoves
    BY <1>2, <2>1, <2>2 DEF EvccMoves, AsksAgain, Iso2Inv, Iso2Stop, Granted
  <2>4. ev' \in EvFields
    BY <2>2, NamesAre DEF EvFields, TimerOn, TimerOff
  <2>5. S' = S
    BY <2>2 DEF Asks, AsksAgain, GivesUp, Completes, Leaves, Fails, S
  <2>6. Iso2Inv' /\ CarInv'
    <3>6. Iso2Turn'
      <4>1. Orderly => ~ ev.renegotiating /\ 
              S = IF "finished" \in wire.info
                  THEN IF settings.ac THEN "PowerDelivery" ELSE "CableCheck"
                  ELSE "ChargeParameterDiscovery"
        BY <2>1 DEF Iso2Inv, Iso2Turn, Iso2Leads, Iso2Next, Advances, Answered, Granted
      <4>2. ev.stop = "none"
        BY <2>1 DEF Iso2Inv, Iso2Stop
      <4>3. ASSUME Orderly'
            PROVE  /\ Requested' /\ Iso2Fits'
                   /\ E' = "PowerDelivery" => wire'.info = { Iso2Asks' }
                   /\ ev'.renegotiating => E' = "PowerDelivery" /\ ev'.stop = "none"
        <5>1. ev'.stop = "none" /\ ~ ev'.renegotiating
          BY <2>2, <4>1, <4>2, <4>3, AskTurn, LeaveTurn DEF EvFields, TimerOn, TimerOff
        <5> QED
          BY <2>2, <4>1, <4>3, <5>1, AskTurn, LeaveTurn
            DEF Iso2Fits, Iso2Follows, Iso2Asks, Answered, Orderly
      <4> QED
        BY <4>3 DEF Iso2Turn, Requested
    <3> USE <1>1, <1>2, <2>1, <2>2
      DEF DIN, ISO2, ISO20, WireInv, EndInv, CarInv, CarEnabled, CarTimed, ProtocolInv, Iso2Inv,
        Iso2Auth, Iso2Path, Iso2Stop, Asks, AsksAgain, GivesUp, Completes, Leaves, EvccStops,
        Fails, Peer, Off, RunsOn, Stopping, Requested, Granted, SeccRuns, EvccRuns, SeccMarked,
        Speaks, E, S, EvFields, TimerOn, TimerOff, GrantedV1, ChargesV1, CoreTyped, Ends,
        Message, NoMessage
    <3>1. Iso2Auth'
      OBVIOUS
    <3>2. Iso2Path'
      OBVIOUS
    <3>3. Iso2Stop'
      BY ZenonT(60)
    <3>4. CarEnabled'
      BY ZenonT(60) DEF PowerStates
    <3>5. CarTimed'
      BY ZenonT(60) DEF TimedPhases
    <3> QED
      BY <3>1, <3>2, <3>3, <3>4, <3>5, <3>6
  <2>7. EvccEnergy
    BY <1>1, <1>2, <2>1, <2>2
      DEF EvccEnergy, EvFields, TimerOn, TimerOff, Asks, AsksAgain, Iso2Inv, Iso2Path, Stopping,
        Off, Speaks, DIN, ISO2, ISO20, S, SeccRuns
  <2> QED
    BY <1>1, <2>1, <2>3, <2>4, <2>5, <2>6, <2>7, EvccFrame DEF Granted
<1>11. CASE Evcc2!PowerDelivery
  <2>1. Granted /\ EvccRuns /\ E = "PowerDelivery" /\ wire.name = "PowerDelivery"
    BY <1>11 DEF Evcc2!PowerDelivery, Evcc2!Response, Granted, EvccRuns, E
  <2>2. \/ /\ ev.stop # "none"
           /\ settings.ac
           /\ Asks("SessionStop", { ev.stop }, {}, NoMessage)
           /\ UNCHANGED ev
        \/ /\ ev.stop # "none"
           /\ ~ settings.ac
           /\ Asks("WeldingDetection", {}, {}, NoMessage)
           /\ ev' = [ev EXCEPT !.enabled = FALSE]
        \/ /\ ev.stop = "none" /\ ev.renegotiating
           /\ Asks("ChargeParameterDiscovery", {}, {}, NoMessage)
           /\ ev' = [ev EXCEPT !.renegotiating = FALSE]
        \/ /\ ev.stop = "none" /\ ~ ev.renegotiating
           /\ Asks(IF settings.ac THEN "ChargingStatus" ELSE "CurrentDemand", {}, {}, NoMessage)
           /\ UNCHANGED ev
    <3>1. { ev.stop } \in SUBSET Words
      BY DEF EvFields, Words
    <3>2. Ask(IF settings.ac THEN "ChargingStatus" ELSE "CurrentDemand", {}) =>
            Asks(IF settings.ac THEN "ChargingStatus" ELSE "CurrentDemand", {}, {}, NoMessage)
      BY EvccDoes, NamesAre, WordsAre
    <3>3. /\ Ask("SessionStop", { ev.stop }) => Asks("SessionStop", { ev.stop }, {}, NoMessage)
          /\ Ask("WeldingDetection", {}) => Asks("WeldingDetection", {}, {}, NoMessage)
          /\ Ask("ChargeParameterDiscovery", {}) => Asks("ChargeParameterDiscovery", {}, {}, NoMessage)
      BY <3>1, EvccDoes, NamesAre, WordsAre
    <3> QED
      BY <1>11, <3>2, <3>3, Evcc2Same DEF Evcc2!PowerDelivery
  <2>3. EvccMoves
    BY <1>2, <2>1, <2>2 DEF EvccMoves, AsksAgain, Iso2Inv, Iso2Stop, Granted
  <2>4. ev' \in EvFields
    BY <2>2, NamesAre DEF EvFields, TimerOn, TimerOff
  <2>5. S' = S
    BY <2>2 DEF Asks, AsksAgain, GivesUp, Completes, Leaves, Fails, S
  <2>6. Iso2Inv' /\ CarInv'
    <3>6. Iso2Turn'
      <4>1. ev.stop \in { "none", "Terminate", "ServiceRenegotiation" }
        BY DEF EvFields
      <4>2. Orderly =>
              IF ev.stop # "none" THEN IF settings.ac THEN S = "SessionStop" ELSE Answered("PowerDelivery")
              ELSE S = IF ev.renegotiating THEN "ChargeParameterDiscovery"
                       ELSE IF settings.ac THEN "ChargingStatus" ELSE "CurrentDemand"
        BY <2>1, <4>1 DEF Iso2Inv, Iso2Turn, Iso2Leads, Iso2Asks, Iso2Next, Advances, Granted
      <4>3. ASSUME Orderly'
            PROVE  /\ Requested' /\ Iso2Fits' /\ E' # "PowerDelivery"
                   /\ ~ ev'.renegotiating
        <5>1. Orderly
          BY <2>2, <4>3, AskTurn
        <5>2. ev.stop # "none" => ~ ev.renegotiating
          BY <2>1, <5>1 DEF Iso2Inv, Iso2Turn
        <5> QED
          BY <1>2, <2>2, <4>1, <4>2, <4>3, <5>1, <5>2, AskTurn, LeaveTurn
            DEF Iso2Fits, Iso2Follows, Answered, EvFields
      <4> QED
        BY <4>3 DEF Iso2Turn, Requested
    <3> USE <1>1, <1>2, <2>1, <2>2
      DEF DIN, ISO2, ISO20, WireInv, EndInv, CarInv, CarEnabled, CarTimed, ProtocolInv, Iso2Inv,
        Iso2Auth, Iso2Path, Iso2Stop, Asks, AsksAgain, GivesUp, Completes, Leaves, EvccStops,
        Fails, Peer, Off, RunsOn, Stopping, Requested, Granted, SeccRuns, EvccRuns, SeccMarked,
        Speaks, E, S, EvFields, TimerOn, TimerOff, GrantedV1, ChargesV1, CoreTyped, Ends,
        Message, NoMessage
    <3>1. Iso2Auth'
      OBVIOUS
    <3>2. Iso2Path'
      OBVIOUS
    <3>3. Iso2Stop'
      OBVIOUS
    <3>4. CarEnabled'
      BY DEF PowerStates
    <3>5. CarTimed'
      BY DEF TimedPhases
    <3> QED
      BY <3>1, <3>2, <3>3, <3>4, <3>5, <3>6
  <2>7. EvccEnergy
    BY <1>1, <1>2, <2>1, <2>2
      DEF EvccEnergy, EvFields, TimerOn, TimerOff, Asks, AsksAgain, Iso2Inv, Iso2Path, Stopping,
        Off, Speaks, DIN, ISO2, ISO20, S, SeccRuns
  <2> QED
    BY <1>1, <2>1, <2>3, <2>4, <2>5, <2>6, <2>7, EvccFrame DEF Granted
<1>12. CASE Evcc2!ChargingStatus
  <2>1. Granted /\ EvccRuns /\ E = "ChargingStatus" /\ wire.name = "ChargingStatus"
    BY <1>12 DEF Evcc2!ChargingStatus, Evcc2!StopCharging, Evcc2!Response, Granted, EvccRuns, E
  <2>2. \/ /\ Asks("PowerDelivery", { "Renegotiate" }, {}, NoMessage)
           /\ ev' = [ev EXCEPT !.renegotiating = TRUE]
        \/ Asks("ChargingStatus", {}, {}, NoMessage) /\ UNCHANGED ev
        \/ /\ Asks("PowerDelivery", { "Stop" }, {}, NoMessage)
           /\ ev' = [ev EXCEPT !.stop = "Terminate"]
    BY <1>12, <2>1, Evcc2Same, EvccDoes, NamesAre, WordsAre
      DEF Evcc2!ChargingStatus, Evcc2!StopCharging
  <2>3. EvccMoves
    BY <1>2, <2>1, <2>2 DEF EvccMoves, AsksAgain, Iso2Inv, Iso2Stop, Granted
  <2>4. ev' \in EvFields
    BY <2>2, NamesAre DEF EvFields, TimerOn, TimerOff
  <2>5. S' = S
    BY <2>2 DEF Asks, AsksAgain, GivesUp, Completes, Leaves, Fails, S
  <2>6. Iso2Inv' /\ CarInv'
    <3>6. Iso2Turn'
      <4>1. Orderly => ~ ev.renegotiating /\ Answered("ChargingStatus")
        BY <2>1 DEF Iso2Inv, Iso2Turn, Iso2Leads, Iso2Next, Advances, Answered, Granted
      <4>2. ev.stop = "none"
        BY <2>1 DEF Iso2Inv, Iso2Stop
      <4>3. ASSUME Orderly'
            PROVE  /\ Requested' /\ Iso2Fits'
                   /\ E' = "PowerDelivery" => wire'.info = { Iso2Asks' }
                   /\ ev'.renegotiating => E' = "PowerDelivery" /\ ev'.stop = "none"
        BY <2>2, <4>1, <4>2, <4>3, AskTurn, LeaveTurn
          DEF Iso2Fits, Iso2Follows, Iso2Asks, Answered, AsksAgain, TimerOn, TimerOff, EvFields
      <4> QED
        BY <4>3 DEF Iso2Turn, Requested
    <3> USE <1>1, <1>2, <2>1, <2>2
      DEF DIN, ISO2, ISO20, WireInv, EndInv, CarInv, CarEnabled, CarTimed, ProtocolInv, Iso2Inv,
        Iso2Auth, Iso2Path, Iso2Stop, Asks, AsksAgain, GivesUp, Completes, Leaves, EvccStops,
        Fails, Peer, Off, RunsOn, Stopping, Requested, Granted, SeccRuns, EvccRuns, SeccMarked,
        Speaks, E, S, EvFields, TimerOn, TimerOff, GrantedV1, ChargesV1, CoreTyped, Ends,
        Message, NoMessage
    <3>1. Iso2Auth'
      OBVIOUS
    <3>2. Iso2Path'
      OBVIOUS
    <3>3. Iso2Stop'
      OBVIOUS
    <3>4. CarEnabled'
      BY DEF PowerStates
    <3>5. CarTimed'
      BY DEF TimedPhases
    <3> QED
      BY <3>1, <3>2, <3>3, <3>4, <3>5, <3>6
  <2>7. EvccEnergy
    BY <2>2 DEF EvccEnergy, EvFields, TimerOn, TimerOff
  <2> QED
    BY <1>1, <2>1, <2>3, <2>4, <2>5, <2>6, <2>7, EvccFrame DEF Granted
<1>13. CASE Evcc2!CableCheck
  <2>1. Granted /\ EvccRuns /\ E = "CableCheck" /\ wire.name = "CableCheck"
    BY <1>13 DEF Evcc2!CableCheck, Evcc2!Response, Granted, EvccRuns, E
  <2>2. \/ /\ "finished" \in wire.info
           /\ Asks("PreCharge", {}, {}, NoMessage)
           /\ ev' = TimerOff
        \/ GivesUp /\ ev' = TimerOff
        \/ /\ "finished" \notin wire.info
           /\ Asks("CableCheck", {}, {}, NoMessage)
           /\ ev' = TimerOn("CableCheck")
        \/ GivesUp /\ UNCHANGED ev
    BY <1>13, <2>1, Evcc2Same, EvccDoes, NamesAre, WordsAre DEF Evcc2!CableCheck, Evcc2!Poll
  <2>3. EvccMoves
    BY <1>2, <2>1, <2>2 DEF EvccMoves, AsksAgain, Iso2Inv, Iso2Stop, Granted
  <2>4. ev' \in EvFields
    BY <2>2, NamesAre DEF EvFields, TimerOn, TimerOff
  <2>5. S' = S
    BY <2>2 DEF Asks, AsksAgain, GivesUp, Completes, Leaves, Fails, S
  <2>6. Iso2Inv' /\ CarInv'
    <3>6. Iso2Turn'
      <4>1. Orderly => ~ ev.renegotiating /\ S = IF "finished" \in wire.info THEN "PreCharge" ELSE "CableCheck"
        BY <2>1 DEF Iso2Inv, Iso2Turn, Iso2Leads, Iso2Next, Advances, Answered, Granted
      <4>2. ev.stop = "none"
        BY <2>1 DEF Iso2Inv, Iso2Stop
      <4>3. ASSUME Orderly'
            PROVE  /\ Requested' /\ Iso2Fits'
                   /\ E' = "PowerDelivery" => wire'.info = { Iso2Asks' }
                   /\ ev'.renegotiating => E' = "PowerDelivery" /\ ev'.stop = "none"
        BY <2>2, <4>1, <4>2, <4>3, AskTurn, LeaveTurn
          DEF Iso2Fits, Iso2Follows, Iso2Asks, Answered, AsksAgain, TimerOn, TimerOff, EvFields
      <4> QED
        BY <4>3 DEF Iso2Turn, Requested
    <3> USE <1>1, <1>2, <2>1, <2>2
      DEF DIN, ISO2, ISO20, WireInv, EndInv, CarInv, CarEnabled, CarTimed, ProtocolInv, Iso2Inv,
        Iso2Auth, Iso2Path, Iso2Stop, Asks, AsksAgain, GivesUp, Completes, Leaves, EvccStops,
        Fails, Peer, Off, RunsOn, Stopping, Requested, Granted, SeccRuns, EvccRuns, SeccMarked,
        Speaks, E, S, EvFields, TimerOn, TimerOff, GrantedV1, ChargesV1, CoreTyped, Ends,
        Message, NoMessage
    <3>1. Iso2Auth'
      BY ZenonT(60)
    <3>2. Iso2Path'
      OBVIOUS
    <3>3. Iso2Stop'
      BY ZenonT(60)
    <3>4. CarEnabled'
      BY ZenonT(60) DEF PowerStates
    <3>5. CarTimed'
      BY ZenonT(60) DEF TimedPhases
    <3> QED
      BY <3>1, <3>2, <3>3, <3>4, <3>5, <3>6
  <2>7. EvccEnergy
    BY <2>2 DEF EvccEnergy, EvFields, TimerOn, TimerOff
  <2> QED
    BY <1>1, <2>1, <2>3, <2>4, <2>5, <2>6, <2>7, EvccFrame DEF Granted
<1>14. CASE Evcc2!PreCharge
  <2>1. Granted /\ EvccRuns /\ E = "PreCharge" /\ wire.name = "PreCharge"
    BY <1>14 DEF Evcc2!PreCharge, Evcc2!Response, Granted, EvccRuns, E
  <2>2. \/ Asks("PowerDelivery", { "Start" }, {}, NoMessage) /\ ev' = TimerOff
        \/ Asks("PreCharge", {}, {}, NoMessage) /\ ev' = TimerOn("PreCharge")
        \/ GivesUp /\ UNCHANGED ev
    BY <1>14, <2>1, Evcc2Same, EvccDoes, NamesAre, WordsAre DEF Evcc2!PreCharge, Evcc2!Poll
  <2>3. EvccMoves
    BY <1>2, <2>1, <2>2 DEF EvccMoves, AsksAgain, Iso2Inv, Iso2Stop, Granted
  <2>4. ev' \in EvFields
    BY <2>2, NamesAre DEF EvFields, TimerOn, TimerOff
  <2>5. S' = S
    BY <2>2 DEF Asks, AsksAgain, GivesUp, Completes, Leaves, Fails, S
  <2>6. Iso2Inv' /\ CarInv'
    <3>6. Iso2Turn'
      <4>1. Orderly => ~ ev.renegotiating /\ Answered("PreCharge")
        BY <2>1 DEF Iso2Inv, Iso2Turn, Iso2Leads, Iso2Next, Advances, Answered, Granted
      <4>2. ev.stop = "none"
        BY <2>1 DEF Iso2Inv, Iso2Stop
      <4>3. ASSUME Orderly'
            PROVE  /\ Requested' /\ Iso2Fits'
                   /\ E' = "PowerDelivery" => wire'.info = { Iso2Asks' }
                   /\ ev'.renegotiating => E' = "PowerDelivery" /\ ev'.stop = "none"
        <5>1. ev'.stop = "none" /\ ~ ev'.renegotiating
          BY <2>2, <4>1, <4>2, <4>3, AskTurn, LeaveTurn DEF EvFields, TimerOn, TimerOff
        <5> QED
          BY <2>2, <4>1, <4>3, <5>1, AskTurn, LeaveTurn
            DEF Iso2Fits, Iso2Follows, Iso2Asks, Answered, Orderly
      <4> QED
        BY <4>3 DEF Iso2Turn, Requested
    <3> USE <1>1, <1>2, <2>1, <2>2
      DEF DIN, ISO2, ISO20, WireInv, EndInv, CarInv, CarEnabled, CarTimed, ProtocolInv, Iso2Inv,
        Iso2Auth, Iso2Path, Iso2Stop, Asks, AsksAgain, GivesUp, Completes, Leaves, EvccStops,
        Fails, Peer, Off, RunsOn, Stopping, Requested, Granted, SeccRuns, EvccRuns, SeccMarked,
        Speaks, E, S, EvFields, TimerOn, TimerOff, GrantedV1, ChargesV1, CoreTyped, Ends,
        Message, NoMessage
    <3>1. Iso2Auth'
      BY ZenonT(60)
    <3>2. Iso2Path'
      OBVIOUS
    <3>3. Iso2Stop'
      BY ZenonT(60)
    <3>4. CarEnabled'
      BY ZenonT(60) DEF PowerStates
    <3>5. CarTimed'
      BY ZenonT(60) DEF TimedPhases
    <3> QED
      BY <3>1, <3>2, <3>3, <3>4, <3>5, <3>6
  <2>7. EvccEnergy
    BY <2>2 DEF EvccEnergy, EvFields, TimerOn, TimerOff
  <2> QED
    BY <1>1, <2>1, <2>3, <2>4, <2>5, <2>6, <2>7, EvccFrame DEF Granted
<1>15. CASE Evcc2!CurrentDemand
  <2>1. Granted /\ EvccRuns /\ E = "CurrentDemand" /\ wire.name = "CurrentDemand"
    BY <1>15 DEF Evcc2!CurrentDemand, Evcc2!StopCharging, Evcc2!Response, Granted, EvccRuns, E
  <2>2. \/ Asks("CurrentDemand", {}, {}, NoMessage) /\ UNCHANGED ev
        \/ /\ Asks("PowerDelivery", { "Stop" }, {}, NoMessage)
           /\ ev' = [ev EXCEPT !.stop = "Terminate"]
    BY <1>15, <2>1, Evcc2Same, EvccDoes, NamesAre, WordsAre
      DEF Evcc2!CurrentDemand, Evcc2!StopCharging
  <2>3. EvccMoves
    BY <1>2, <2>1, <2>2 DEF EvccMoves, AsksAgain, Iso2Inv, Iso2Stop, Granted
  <2>4. ev' \in EvFields
    BY <2>2, NamesAre DEF EvFields, TimerOn, TimerOff
  <2>5. S' = S
    BY <2>2 DEF Asks, AsksAgain, GivesUp, Completes, Leaves, Fails, S
  <2>6. Iso2Inv' /\ CarInv'
    <3>6. Iso2Turn'
      <4>1. Orderly => ~ ev.renegotiating /\ Answered("CurrentDemand")
        BY <2>1 DEF Iso2Inv, Iso2Turn, Iso2Leads, Iso2Next, Advances, Answered, Granted
      <4>2. ev.stop = "none"
        BY <2>1 DEF Iso2Inv, Iso2Stop
      <4>3. ASSUME Orderly'
            PROVE  /\ Requested' /\ Iso2Fits'
                   /\ E' = "PowerDelivery" => wire'.info = { Iso2Asks' }
                   /\ ev'.renegotiating => E' = "PowerDelivery" /\ ev'.stop = "none"
        BY <2>2, <4>1, <4>2, <4>3, AskTurn, LeaveTurn
          DEF Iso2Fits, Iso2Follows, Iso2Asks, Answered, AsksAgain, TimerOn, TimerOff, EvFields
      <4> QED
        BY <4>3 DEF Iso2Turn, Requested
    <3> USE <1>1, <1>2, <2>1, <2>2
      DEF DIN, ISO2, ISO20, WireInv, EndInv, CarInv, CarEnabled, CarTimed, ProtocolInv, Iso2Inv,
        Iso2Auth, Iso2Path, Iso2Stop, Asks, AsksAgain, GivesUp, Completes, Leaves, EvccStops,
        Fails, Peer, Off, RunsOn, Stopping, Requested, Granted, SeccRuns, EvccRuns, SeccMarked,
        Speaks, E, S, EvFields, TimerOn, TimerOff, GrantedV1, ChargesV1, CoreTyped, Ends,
        Message, NoMessage
    <3>1. Iso2Auth'
      OBVIOUS
    <3>2. Iso2Path'
      OBVIOUS
    <3>3. Iso2Stop'
      OBVIOUS
    <3>4. CarEnabled'
      BY DEF PowerStates
    <3>5. CarTimed'
      BY DEF TimedPhases
    <3> QED
      BY <3>1, <3>2, <3>3, <3>4, <3>5, <3>6
  <2>7. EvccEnergy
    BY <2>2 DEF EvccEnergy, EvFields, TimerOn, TimerOff
  <2> QED
    BY <1>1, <2>1, <2>3, <2>4, <2>5, <2>6, <2>7, EvccFrame DEF Granted
<1>16. CASE Evcc2!WeldingDetection
  <2>1. Granted /\ EvccRuns /\ E = "WeldingDetection" /\ wire.name = "WeldingDetection"
    BY <1>16 DEF Evcc2!WeldingDetection, Evcc2!Response, Granted, EvccRuns, E
  <2>2. \/ GivesUp /\ UNCHANGED ev
        \/ /\ Asks("SessionStop", { ev.stop }, {}, NoMessage)
           /\ ev' = TimerOn("WeldingDetection")
        \/ /\ AsksAgain("WeldingDetection", {})
           /\ ev' = TimerOn("WeldingDetection")
    <3>1. { ev.stop } \in SUBSET Words
      BY DEF EvFields, Words
    <3> QED
      BY <1>16, <2>1, <3>1, Evcc2Same, EvccDoes, NamesAre, WordsAre DEF Evcc2!WeldingDetection
  <2>3. EvccMoves
    BY <1>2, <2>1, <2>2 DEF EvccMoves, AsksAgain, Iso2Inv, Iso2Stop, Granted
  <2>4. ev' \in EvFields
    BY <2>2, NamesAre DEF EvFields, TimerOn, TimerOff
  <2>5. S' = S
    BY <2>2 DEF Asks, AsksAgain, GivesUp, Completes, Leaves, Fails, S
  <2>6. Iso2Inv' /\ CarInv'
    <3>6. Iso2Turn'
      <4>1. Orderly => ~ ev.renegotiating /\ Answered("WeldingDetection")
        BY <2>1 DEF Iso2Inv, Iso2Turn, Iso2Leads, Iso2Next, Advances, Answered, Granted
      <4>2. ASSUME Orderly'
            PROVE  Requested' /\ Iso2Fits' /\ E' # "PowerDelivery" /\ ~ ev'.renegotiating
        BY <2>2, <4>1, <4>2, AskTurn, LeaveTurn
          DEF Iso2Fits, Iso2Follows, Answered, AsksAgain, TimerOn, EvFields
      <4> QED
        BY <4>2 DEF Iso2Turn, Requested
    <3> USE <1>1, <1>2, <2>1, <2>2
      DEF DIN, ISO2, ISO20, WireInv, EndInv, CarInv, CarEnabled, CarTimed, ProtocolInv, Iso2Inv,
        Iso2Auth, Iso2Path, Iso2Stop, Asks, AsksAgain, GivesUp, Completes, Leaves, EvccStops,
        Fails, Peer, Off, RunsOn, Stopping, Requested, Granted, SeccRuns, EvccRuns, SeccMarked,
        Speaks, E, S, EvFields, TimerOn, TimerOff, GrantedV1, ChargesV1, CoreTyped, Ends,
        Message, NoMessage
    <3>1. Iso2Auth'
      OBVIOUS
    <3>2. Iso2Path'
      OBVIOUS
    <3>3. Iso2Stop'
      OBVIOUS
    <3>4. CarEnabled'
      BY DEF PowerStates
    <3>5. CarTimed'
      BY DEF TimedPhases
    <3> QED
      BY <3>1, <3>2, <3>3, <3>4, <3>5, <3>6
  <2>7. EvccEnergy
    BY <2>2 DEF EvccEnergy, EvFields, TimerOn, TimerOff
  <2> QED
    BY <1>1, <2>1, <2>3, <2>4, <2>5, <2>6, <2>7, EvccFrame DEF Granted
<1>17. CASE Evcc2!SessionStop
  <2>1. Granted /\ EvccRuns /\ E = "SessionStop" /\ wire.name = "SessionStop"
    BY <1>17 DEF Evcc2!SessionStop, Evcc2!Response, Granted, EvccRuns, E
  <2>2. Completes /\ UNCHANGED ev
    BY <1>17, <2>1, Evcc2Same, EvccDoes, NamesAre, WordsAre DEF Evcc2!SessionStop
  <2>3. EvccMoves
    BY <1>2, <2>1, <2>2 DEF EvccMoves, AsksAgain, Iso2Inv, Iso2Stop, Granted
  <2>4. ev' \in EvFields
    BY <2>2, NamesAre DEF EvFields, TimerOn, TimerOff
  <2>5. S' = S
    BY <2>2 DEF Asks, AsksAgain, GivesUp, Completes, Leaves, Fails, S
  <2>6. Iso2Inv' /\ CarInv'
    <3> USE <1>1, <1>2, <2>1, <2>2
      DEF DIN, ISO2, ISO20, WireInv, EndInv, CarInv, CarEnabled, CarTimed, ProtocolInv, Iso2Inv,
        Iso2Auth, Iso2Path, Iso2Stop, Asks, AsksAgain, GivesUp, Completes, Leaves, EvccStops,
        Fails, Peer, Off, RunsOn, Stopping, Requested, Granted, SeccRuns, EvccRuns, SeccMarked,
        Speaks, E, S, EvFields, TimerOn, TimerOff, GrantedV1, ChargesV1, CoreTyped, Ends,
        Message, NoMessage
    <3>1. Iso2Auth'
      OBVIOUS
    <3>2. Iso2Path'
      OBVIOUS
    <3>3. Iso2Stop'
      OBVIOUS
    <3>4. CarEnabled'
      BY DEF PowerStates
    <3>5. CarTimed'
      BY DEF TimedPhases
    <3>6. Iso2Turn'
      BY DEF Iso2Turn, Iso2Fits, Iso2Leads, Iso2Asks, Iso2Next, Iso2Follows, Advances, Answered,
        Orderly, EvccMarked
    <3> QED
      BY <3>1, <3>2, <3>3, <3>4, <3>5, <3>6
  <2>7. EvccEnergy
    BY <2>2 DEF EvccEnergy, EvFields, TimerOn, TimerOff
  <2> QED
    BY <1>1, <2>1, <2>3, <2>4, <2>5, <2>6, <2>7, EvccFrame DEF Granted
<1> QED
  BY <1>3, <1>4, <1>5, <1>6, <1>7, <1>8, <1>9, <1>10, <1>11, <1>12, <1>13, <1>14, <1>15, <1>16,
      <1>17 DEF Evcc2!Handle

-----------------------------------------------------------------------------

\* Every handler of ISO 15118-20's EVCC keeps the invariant.
LEMMA Iso20EvccStep ==
  ASSUME settings \in Settings, CoreTyped, ev \in EvFields, se \in SeFields, ProtocolInv,
         Iso20Inv, WireInv, EndInv, CarInv, protocol["evcc"] = ISO20, Speaks(ISO20), Evcc20!Handle,
         UNCHANGED << settings, protocol, se >>
  PROVE  /\ CoreTyped' /\ WireInv' /\ EndInv' /\ CarInv' /\ S' = S
         /\ ev' \in EvFields /\ E' # "SupportedAppProtocol"
         /\ Iso20Inv' /\ EvccEnergy /\ EvccRuns /\ run'["secc"] = run["secc"] /\ wire'.kind # "res"
<1>1. E # "SupportedAppProtocol"
  BY DEF ProtocolInv, DIN, ISO2, ISO20
<1>2. settings.ac \in BOOLEAN /\ settings.renegotiates \in BOOLEAN
  BY SettingsAssumption DEF Setting
<1>3. CASE Evcc20!SessionSetup
  <2>1. Granted /\ EvccRuns /\ E = "SessionSetup" /\ wire.name = "SessionSetup"
    BY <1>3 DEF Evcc20!SessionSetup, Evcc20!Response, Granted, EvccRuns, E
  <2>2. Asks("AuthorizationSetup", {}, {}, NoMessage) /\ UNCHANGED ev
    BY <1>3, <2>1, Evcc20Same, EvccDoes, NamesAre, WordsAre DEF Evcc20!SessionSetup
  <2>3. EvccMoves
    BY <1>2, <2>1, <2>2
      DEF EvccMoves, AsksAgain, Iso20Inv, Iso20Told, Iso20Ends, Granted, Starts, Judged20
  <2>4. ev' \in EvFields
    BY <2>2, NamesAre DEF EvFields, TimerOn, TimerOff, Starts
  <2>5. S' = S
    BY <2>2 DEF Asks, AsksAgain, GivesUp, Completes, Leaves, Fails, S, Starts
  <2>6. Iso20Inv' /\ CarInv'
    <3> USE <1>1, <1>2, <2>1, <2>2
      DEF DIN, ISO2, ISO20, WireInv, EndInv, CarInv, CarEnabled, CarTimed, ProtocolInv,
        Iso20Inv, Iso20Auth, Iso20Place, Iso20Path, Iso20Stop, Iso20Told, Iso20Again, Iso20Ends,
        Asks, AsksAgain, GivesUp, Completes, Leaves, EvccStops, Fails, Peer, Off, RunsOn,
        Stopping, Requested, Granted, SeccRuns, EvccRuns, SeccMarked, Speaks, E, S, EvFields,
        TimerOn, TimerOff, Starts, Judged20, Charges20, Before20, CoreTyped, Ends, Message,
        NoMessage
    <3>1. Iso20Auth'
      OBVIOUS
    <3>2. Iso20Place'
      OBVIOUS
    <3>3. Iso20Path'
      OBVIOUS
    <3>4. Iso20Stop'
      OBVIOUS
    <3>5. Iso20Told'
      OBVIOUS
    <3>6. Iso20Again'
      OBVIOUS
    <3>7. Iso20Ends'
      OBVIOUS
    <3>8. CarEnabled'
      BY DEF PowerStates
    <3>9. CarTimed'
      BY DEF TimedPhases
    <3>10. Iso20Turn'
      BY DEF Iso20Turn, Iso20Fits, Iso20Leads, Iso20Next, Iso20Follows, Iso20Lenient, Advances,
          Answered,
        Orderly, EvccMarked
    <3> QED
      BY <3>1, <3>2, <3>3, <3>4, <3>5, <3>6, <3>7, <3>8, <3>9, <3>10
  <2>7. EvccEnergy
    BY <2>2 DEF EvccEnergy, EvFields, TimerOn, TimerOff, Starts
  <2> QED
    BY <1>1, <2>1, <2>3, <2>4, <2>5, <2>6, <2>7, EvccFrame DEF Granted
<1>4. CASE Evcc20!AuthorizationSetup
  <2>1. Granted /\ EvccRuns /\ E = "AuthorizationSetup" /\ wire.name = "AuthorizationSetup"
    BY <1>4 DEF Evcc20!AuthorizationSetup, Evcc20!Response, Granted, EvccRuns, E
  <2>2. \/ Asks("CertificateInstallation", {}, {}, NoMessage) /\ UNCHANGED ev
        \/ \E a \in { "EIM", "PnC" } :
             Asks("Authorization", { a }, {}, NoMessage) /\ ev' = [ev EXCEPT !.auth = a]
        \/ Fails("evcc") /\ UNCHANGED ev
    BY <1>4, <2>1, Evcc20Same, EvccDoes, NamesAre, WordsAre DEF Evcc20!AuthorizationSetup
  <2>3. EvccMoves
    BY <1>2, <2>1, <2>2
      DEF EvccMoves, AsksAgain, Iso20Inv, Iso20Told, Iso20Ends, Granted, Starts, Judged20
  <2>4. ev' \in EvFields
    BY <2>2, NamesAre DEF EvFields, TimerOn, TimerOff, Starts
  <2>5. S' = S
    BY <2>2 DEF Asks, AsksAgain, GivesUp, Completes, Leaves, Fails, S, Starts
  <2>6. Iso20Inv' /\ CarInv'
    <3> USE <1>1, <1>2, <2>1, <2>2
      DEF DIN, ISO2, ISO20, WireInv, EndInv, CarInv, CarEnabled, CarTimed, ProtocolInv,
        Iso20Inv, Iso20Auth, Iso20Place, Iso20Path, Iso20Stop, Iso20Told, Iso20Again, Iso20Ends,
        Asks, AsksAgain, GivesUp, Completes, Leaves, EvccStops, Fails, Peer, Off, RunsOn,
        Stopping, Requested, Granted, SeccRuns, EvccRuns, SeccMarked, Speaks, E, S, EvFields,
        TimerOn, TimerOff, Starts, Judged20, Charges20, Before20, CoreTyped, Ends, Message,
        NoMessage
    <3>1. Iso20Auth'
      OBVIOUS
    <3>2. Iso20Place'
      OBVIOUS
    <3>3. Iso20Path'
      OBVIOUS
    <3>4. Iso20Stop'
      OBVIOUS
    <3>5. Iso20Told'
      OBVIOUS
    <3>6. Iso20Again'
      OBVIOUS
    <3>7. Iso20Ends'
      OBVIOUS
    <3>8. CarEnabled'
      BY DEF PowerStates
    <3>9. CarTimed'
      BY DEF TimedPhases
    <3>10. Iso20Turn'
      BY DEF Iso20Turn, Iso20Fits, Iso20Leads, Iso20Next, Iso20Follows, Iso20Lenient, Advances,
          Answered,
        Orderly, EvccMarked
    <3> QED
      BY <3>1, <3>2, <3>3, <3>4, <3>5, <3>6, <3>7, <3>8, <3>9, <3>10
  <2>7. EvccEnergy
    BY <2>2 DEF EvccEnergy, EvFields, TimerOn, TimerOff, Starts
  <2> QED
    BY <1>1, <2>1, <2>3, <2>4, <2>5, <2>6, <2>7, EvccFrame DEF Granted
<1>5. CASE Evcc20!Authorization
  <2>1. Granted /\ EvccRuns /\ E = "Authorization" /\ wire.name = "Authorization"
    BY <1>5 DEF Evcc20!Authorization, Evcc20!Response, Granted, EvccRuns, E
  <2>2. \/ /\ "finished" \in wire.info
           /\ Asks("ServiceDiscovery", {}, {}, NoMessage)
           /\ ev' = TimerOff
        \/ /\ \E a \in { "none", "EIM", "PnC" } : Asks("Authorization", { a }, {}, NoMessage)
           /\ ev' = TimerOn("Authorization")
        \/ GivesUp /\ UNCHANGED ev
    <3>1. { ev.auth } \in SUBSET Words /\ ev.auth \in { "none", "EIM", "PnC" }
      BY DEF EvFields, Words
    <3> QED
      BY <1>5, <2>1, <3>1, Evcc20Same, EvccDoes, NamesAre, WordsAre
         DEF Evcc20!Authorization, Evcc20!Poll
  <2>3. EvccMoves
    BY <1>2, <2>1, <2>2
      DEF EvccMoves, AsksAgain, Iso20Inv, Iso20Told, Iso20Ends, Granted, Starts, Judged20
  <2>4. ev' \in EvFields
    BY <2>2, NamesAre DEF EvFields, TimerOn, TimerOff, Starts
  <2>5. S' = S
    BY <2>2 DEF Asks, AsksAgain, GivesUp, Completes, Leaves, Fails, S, Starts
  <2>6. Iso20Inv' /\ CarInv'
    <3>1. Iso20Place'
    <4>1. ev'.enabled = ev.enabled /\ ev'.stop = ev.stop
      BY <2>2 DEF EvFields, TimerOn, TimerOff, Starts
    <4>2. /\ ~ Granted' /\ (SeccRuns' => SeccRuns)
          /\ Requested' => "ServiceRenegotiation" \notin wire'.info
      BY <2>2, EvccTells DEF AsksAgain, RunsOn, SeccRuns
    <4>3. S' = S
      BY <2>5
    <4> QED
      BY <4>1, <4>2, <4>3 DEF Iso20Place, Iso20Inv, Speaks
    <3>2. Iso20Again'
    <4>1. \/ ev'.stop = ev.stop /\ ev'.renegotiating = ev.renegotiating
          \/ ev'.stop # "ServiceRenegotiation" /\ ev'.renegotiating = ev.renegotiating
          \/ ev'.renegotiating
      BY <2>2, <1>2 DEF EvFields, TimerOn, TimerOff, Starts
    <4>2. Requested' => "ServiceRenegotiation" \notin wire'.info
      BY <1>2, <2>2, EvccTells DEF AsksAgain
    <4> QED
      BY <2>1, <4>1, <4>2 DEF Iso20Again, Iso20Inv, Speaks
    <3> USE <1>1, <1>2, <2>1, <2>2
      DEF DIN, ISO2, ISO20, WireInv, EndInv, CarInv, CarEnabled, CarTimed, ProtocolInv,
        Iso20Inv, Iso20Auth, Iso20Place, Iso20Path, Iso20Stop, Iso20Told, Iso20Again, Iso20Ends,
        Asks, AsksAgain, GivesUp, Completes, Leaves, EvccStops, Fails, Peer, Off, RunsOn,
        Stopping, Requested, Granted, SeccRuns, EvccRuns, SeccMarked, Speaks, E, S, EvFields,
        TimerOn, TimerOff, Starts, Judged20, Charges20, Before20, CoreTyped, Ends, Message,
        NoMessage
    <3>3. Iso20Auth'
      BY ZenonT(60)
    <3>4. Iso20Path'
      OBVIOUS
    <3>5. Iso20Stop'
      BY ZenonT(60)
    <3>6. Iso20Told'
      OBVIOUS
    <3>7. Iso20Ends'
      OBVIOUS
    <3>8. CarEnabled'
      BY DEF PowerStates
    <3>9. CarTimed'
      BY ZenonT(60) DEF TimedPhases
    <3>10. Iso20Turn'
      BY DEF Iso20Turn, Iso20Fits, Iso20Leads, Iso20Next, Iso20Follows, Iso20Lenient, Advances,
          Answered,
        Orderly, EvccMarked
    <3> QED
      BY <3>1, <3>2, <3>3, <3>4, <3>5, <3>6, <3>7, <3>8, <3>9, <3>10
  <2>7. EvccEnergy
    BY <2>2 DEF EvccEnergy, EvFields, TimerOn, TimerOff, Starts
  <2> QED
    BY <1>1, <2>1, <2>3, <2>4, <2>5, <2>6, <2>7, EvccFrame DEF Granted
<1>6. CASE Evcc20!ServiceDiscovery
  <2>1. Granted /\ EvccRuns /\ E = "ServiceDiscovery" /\ wire.name = "ServiceDiscovery"
    BY <1>6 DEF Evcc20!ServiceDiscovery, Evcc20!Response, Granted, EvccRuns, E
  <2>2. \E known \in BOOLEAN :
          /\ known <=> "renegotiates" \in wire.info
          /\ \/ /\ Asks("ServiceDetail", {}, {}, NoMessage)
                /\ \E more \in BOOLEAN : ev' = [ev EXCEPT !.renegotiates = known, !.more = more]
             \/ /\ Asks("SessionStop", { "Terminate" }, {}, NoMessage)
                /\ ev' = [ev EXCEPT !.renegotiates = known, !.stop = "Terminate"]
    <3> DEFINE known == "renegotiates" \in wire.info
    <3>1. known \in BOOLEAN
      OBVIOUS
    <3>2. /\ Ask("ServiceDetail", {}) => Asks("ServiceDetail", {}, {}, NoMessage)
          /\ Ask("SessionStop", { "Terminate" }) => Asks("SessionStop", { "Terminate" }, {}, NoMessage)
      BY EvccDoes, NamesAre, WordsAre
    <3>3. \/ /\ Ask("ServiceDetail", {})
             /\ \E more \in BOOLEAN : ev' = [[ev EXCEPT !.renegotiates = known] EXCEPT !.more = more]
          \/ /\ Ask("SessionStop", { "Terminate" })
             /\ ev' = [[ev EXCEPT !.renegotiates = known] EXCEPT !.stop = "Terminate"]
      BY <1>6, Evcc20Same DEF Evcc20!ServiceDiscovery
    <3>4. known <=> "renegotiates" \in wire.info
      OBVIOUS
    <3> HIDE DEF known
    <3>5. /\ \A more : [[ev EXCEPT !.renegotiates = known] EXCEPT !.more = more]
                       = [ev EXCEPT !.renegotiates = known, !.more = more]
          /\ [[ev EXCEPT !.renegotiates = known] EXCEPT !.stop = "Terminate"]
               = [ev EXCEPT !.renegotiates = known, !.stop = "Terminate"]
      BY DEF EvFields
    <3> QED
      BY <3>1, <3>2, <3>3, <3>4, <3>5
  <2>3. EvccMoves
    BY <1>2, <2>1, <2>2
      DEF EvccMoves, AsksAgain, Iso20Inv, Iso20Told, Iso20Ends, Granted, Starts, Judged20
  <2>4. ev' \in EvFields
    BY <2>2, NamesAre, ZenonT(60) DEF EvFields, TimerOn, TimerOff, Starts
  <2>5. S' = S
    BY <2>2 DEF Asks, AsksAgain, GivesUp, Completes, Leaves, Fails, S, Starts
  <2>6. Iso20Inv' /\ CarInv'
    <3>10. Iso20Turn'
      <4>1. Orderly => Answered("ServiceDiscovery")
        BY <2>1 DEF Iso20Inv, Iso20Turn, Iso20Leads, Iso20Next, Advances, Answered, Granted
      <4>2. ASSUME Orderly'
            PROVE  /\ Requested' /\ Iso20Fits'
                   /\ E' \notin { "PowerDelivery", "DCPreCharge" }
        BY <1>2, <2>2, <4>1, <4>2, AskTurn, LeaveTurn
          DEF Iso20Fits, Iso20Follows, Iso20Lenient, Answered, AsksAgain, EvFields
      <4> QED
        BY <4>2 DEF Iso20Turn, Requested
    <3>1. Iso20Told'
    <4>1. ~ Granted'
      <5>1. \/ Asks("ServiceDetail", {}, {}, NoMessage)
            \/ Asks("SessionStop", { "Terminate" }, {}, NoMessage)
        BY <2>2
      <5> QED
        BY <5>1, EvccTells
    <4>2. PICK known \in BOOLEAN : (known <=> "renegotiates" \in wire.info) /\ ev'.renegotiates = known
      BY <2>2 DEF EvFields
    <4> QED
      BY <1>2, <2>1, <4>1, <4>2 DEF Iso20Told, Iso20Inv, Speaks
    <3>2. Iso20Again'
    <4>1. \/ ev'.stop = ev.stop /\ ev'.renegotiating = ev.renegotiating
          \/ ev'.stop # "ServiceRenegotiation" /\ ev'.renegotiating = ev.renegotiating
          \/ ev'.renegotiating
      BY <2>2, <1>2 DEF EvFields, TimerOn, TimerOff, Starts
    <4>2. Requested' => "ServiceRenegotiation" \notin wire'.info
      <5>1. \/ Asks("ServiceDetail", {}, {}, NoMessage)
            \/ Asks("SessionStop", { "Terminate" }, {}, NoMessage)
        BY <2>2
      <5> QED
        BY <5>1, EvccTells DEF AsksAgain
    <4> QED
      BY <2>1, <4>1, <4>2 DEF Iso20Again, Iso20Inv, Speaks
    <3> USE <1>1, <1>2, <2>1, <2>2
      DEF DIN, ISO2, ISO20, WireInv, EndInv, CarInv, CarEnabled, CarTimed, ProtocolInv,
        Iso20Inv, Iso20Auth, Iso20Place, Iso20Path, Iso20Stop, Iso20Told, Iso20Again, Iso20Ends,
        Asks, AsksAgain, GivesUp, Completes, Leaves, EvccStops, Fails, Peer, Off, RunsOn,
        Stopping, Requested, Granted, SeccRuns, EvccRuns, SeccMarked, Speaks, E, S, EvFields,
        TimerOn, TimerOff, Starts, Judged20, Charges20, Before20, CoreTyped, Ends, Message,
        NoMessage
    <3>3. Iso20Auth'
      BY ZenonT(60)
    <3>4. Iso20Place'
      OBVIOUS
    <3>5. Iso20Path'
      BY ZenonT(60)
    <3>6. Iso20Stop'
      BY ZenonT(60)
    <3>7. Iso20Ends'
      OBVIOUS
    <3>8. CarEnabled'
      BY DEF PowerStates
    <3>9. CarTimed'
      BY ZenonT(60) DEF TimedPhases
    <3> QED
      BY <3>1, <3>2, <3>3, <3>4, <3>5, <3>6, <3>7, <3>8, <3>9, <3>10
  <2>7. EvccEnergy
    BY <2>2 DEF EvccEnergy, EvFields, TimerOn, TimerOff, Starts
  <2> QED
    BY <1>1, <2>1, <2>3, <2>4, <2>5, <2>6, <2>7, EvccFrame DEF Granted
<1>7. CASE Evcc20!ServiceDetail
  <2>1. Granted /\ EvccRuns /\ E = "ServiceDetail" /\ wire.name = "ServiceDetail"
    BY <1>7 DEF Evcc20!ServiceDetail, Evcc20!Response, Granted, EvccRuns, E
  <2>2. \/ /\ Asks("ServiceDetail", {}, {}, NoMessage)
           /\ ev' = [ev EXCEPT !.more = FALSE]
        \/ Asks("ServiceSelection", {}, {}, NoMessage) /\ UNCHANGED ev
        \/ /\ "modeless" \in settings.quirks
           /\ Asks("SessionStop", { "Terminate" }, {}, NoMessage)
           /\ UNCHANGED ev
    BY <1>7, <2>1, Evcc20Same, EvccDoes, NamesAre, WordsAre DEF Evcc20!ServiceDetail
  <2>3. EvccMoves
    BY <1>2, <2>1, <2>2
      DEF EvccMoves, AsksAgain, Iso20Inv, Iso20Told, Iso20Ends, Granted, Starts, Judged20
  <2>4. ev' \in EvFields
    BY <2>2, NamesAre DEF EvFields, TimerOn, TimerOff, Starts
  <2>5. S' = S
    BY <2>2 DEF Asks, AsksAgain, GivesUp, Completes, Leaves, Fails, S, Starts
  <2>6. Iso20Inv' /\ CarInv'
    <3>10. Iso20Turn'
      <4>1. Orderly => Answered("ServiceDetail")
        BY <2>1 DEF Iso20Inv, Iso20Turn, Iso20Leads, Iso20Next, Advances, Answered, Granted
      <4>2. ASSUME Orderly'
            PROVE  /\ Requested' /\ Iso20Fits'
                   /\ E' \notin { "PowerDelivery", "DCPreCharge" }
        BY <1>2, <2>2, <4>1, <4>2, AskTurn, LeaveTurn
          DEF Iso20Fits, Iso20Follows, Iso20Lenient, Answered, AsksAgain, EvFields, Orderly
      <4> QED
        BY <4>2 DEF Iso20Turn, Requested
    <3> USE <1>1, <1>2, <2>1, <2>2
      DEF DIN, ISO2, ISO20, WireInv, EndInv, CarInv, CarEnabled, CarTimed, ProtocolInv,
        Iso20Inv, Iso20Auth, Iso20Place, Iso20Path, Iso20Stop, Iso20Told, Iso20Again, Iso20Ends,
        Asks, AsksAgain, GivesUp, Completes, Leaves, EvccStops, Fails, Peer, Off, RunsOn,
        Stopping, Requested, Granted, SeccRuns, EvccRuns, SeccMarked, Speaks, E, S, EvFields,
        TimerOn, TimerOff, Starts, Judged20, Charges20, Before20, CoreTyped, Ends, Message,
        NoMessage
    <3>1. Iso20Auth'
      OBVIOUS
    <3>2. Iso20Place'
      OBVIOUS
    <3>3. Iso20Path'
      OBVIOUS
    <3>4. Iso20Stop'
      OBVIOUS
    <3>5. Iso20Told'
      OBVIOUS
    <3>6. Iso20Again'
      OBVIOUS
    <3>7. Iso20Ends'
      OBVIOUS
    <3>8. CarEnabled'
      BY DEF PowerStates
    <3>9. CarTimed'
      BY DEF TimedPhases
    <3> QED
      BY <3>1, <3>2, <3>3, <3>4, <3>5, <3>6, <3>7, <3>8, <3>9, <3>10
  <2>7. EvccEnergy
    BY <2>2 DEF EvccEnergy, EvFields, TimerOn, TimerOff, Starts
  <2> QED
    BY <1>1, <2>1, <2>3, <2>4, <2>5, <2>6, <2>7, EvccFrame DEF Granted
<1>8. CASE Evcc20!ServiceSelection
  <2>1. Granted /\ EvccRuns /\ E = "ServiceSelection" /\ wire.name = "ServiceSelection"
    BY <1>8 DEF Evcc20!ServiceSelection, Evcc20!Response, Granted, EvccRuns, E
  <2>2. /\ Asks(IF settings.ac THEN "ACChargeParameterDiscovery"
                           ELSE "DCChargeParameterDiscovery", {}, {}, NoMessage)
        /\ UNCHANGED ev
    BY <1>8, <2>1, Evcc20Same, EvccDoes, NamesAre, WordsAre DEF Evcc20!ServiceSelection
  <2>3. EvccMoves
    BY <1>2, <2>1, <2>2
      DEF EvccMoves, AsksAgain, Iso20Inv, Iso20Told, Iso20Ends, Granted, Starts, Judged20
  <2>4. ev' \in EvFields
    BY <2>2, NamesAre DEF EvFields, TimerOn, TimerOff, Starts
  <2>5. S' = S
    BY <2>2 DEF Asks, AsksAgain, GivesUp, Completes, Leaves, Fails, S, Starts
  <2>6. Iso20Inv' /\ CarInv'
    <3> USE <1>1, <1>2, <2>1, <2>2
      DEF DIN, ISO2, ISO20, WireInv, EndInv, CarInv, CarEnabled, CarTimed, ProtocolInv,
        Iso20Inv, Iso20Auth, Iso20Place, Iso20Path, Iso20Stop, Iso20Told, Iso20Again, Iso20Ends,
        Asks, AsksAgain, GivesUp, Completes, Leaves, EvccStops, Fails, Peer, Off, RunsOn,
        Stopping, Requested, Granted, SeccRuns, EvccRuns, SeccMarked, Speaks, E, S, EvFields,
        TimerOn, TimerOff, Starts, Judged20, Charges20, Before20, CoreTyped, Ends, Message,
        NoMessage
    <3>1. Iso20Auth'
      OBVIOUS
    <3>2. Iso20Place'
      OBVIOUS
    <3>3. Iso20Path'
      OBVIOUS
    <3>4. Iso20Stop'
      OBVIOUS
    <3>5. Iso20Told'
      OBVIOUS
    <3>6. Iso20Again'
      OBVIOUS
    <3>7. Iso20Ends'
      OBVIOUS
    <3>8. CarEnabled'
      BY DEF PowerStates
    <3>9. CarTimed'
      BY DEF TimedPhases
    <3>10. Iso20Turn'
      BY DEF Iso20Turn, Iso20Fits, Iso20Leads, Iso20Next, Iso20Follows, Iso20Lenient, Advances,
          Answered,
        Orderly, EvccMarked
    <3> QED
      BY <3>1, <3>2, <3>3, <3>4, <3>5, <3>6, <3>7, <3>8, <3>9, <3>10
  <2>7. EvccEnergy
    BY <2>2 DEF EvccEnergy, EvFields, TimerOn, TimerOff, Starts
  <2> QED
    BY <1>1, <2>1, <2>3, <2>4, <2>5, <2>6, <2>7, EvccFrame DEF Granted
<1>9. CASE Evcc20!ACChargeParameterDiscovery
  <2>1. Granted /\ EvccRuns /\ E = "ACChargeParameterDiscovery" /\ wire.name = "ACChargeParameterDiscovery"
    BY <1>9
      DEF Evcc20!ACChargeParameterDiscovery, Evcc20!ChargeParameterDiscovery, Evcc20!Response,
        Granted, EvccRuns, E
  <2>2. Asks("ScheduleExchange", {}, {}, NoMessage) /\ UNCHANGED ev
    BY <1>9, <2>1, Evcc20Same, EvccDoes, NamesAre, WordsAre
      DEF Evcc20!ACChargeParameterDiscovery, Evcc20!ChargeParameterDiscovery
  <2>3. EvccMoves
    BY <1>2, <2>1, <2>2
      DEF EvccMoves, AsksAgain, Iso20Inv, Iso20Told, Iso20Ends, Granted, Starts, Judged20
  <2>4. ev' \in EvFields
    BY <2>2, NamesAre DEF EvFields, TimerOn, TimerOff, Starts
  <2>5. S' = S
    BY <2>2 DEF Asks, AsksAgain, GivesUp, Completes, Leaves, Fails, S, Starts
  <2>6. Iso20Inv' /\ CarInv'
    <3> USE <1>1, <1>2, <2>1, <2>2
      DEF DIN, ISO2, ISO20, WireInv, EndInv, CarInv, CarEnabled, CarTimed, ProtocolInv,
        Iso20Inv, Iso20Auth, Iso20Place, Iso20Path, Iso20Stop, Iso20Told, Iso20Again, Iso20Ends,
        Asks, AsksAgain, GivesUp, Completes, Leaves, EvccStops, Fails, Peer, Off, RunsOn,
        Stopping, Requested, Granted, SeccRuns, EvccRuns, SeccMarked, Speaks, E, S, EvFields,
        TimerOn, TimerOff, Starts, Judged20, Charges20, Before20, CoreTyped, Ends, Message,
        NoMessage
    <3>1. Iso20Auth'
      OBVIOUS
    <3>2. Iso20Place'
      OBVIOUS
    <3>3. Iso20Path'
      OBVIOUS
    <3>4. Iso20Stop'
      OBVIOUS
    <3>5. Iso20Told'
      OBVIOUS
    <3>6. Iso20Again'
      OBVIOUS
    <3>7. Iso20Ends'
      OBVIOUS
    <3>8. CarEnabled'
      BY DEF PowerStates
    <3>9. CarTimed'
      BY DEF TimedPhases
    <3>10. Iso20Turn'
      BY DEF Iso20Turn, Iso20Fits, Iso20Leads, Iso20Next, Iso20Follows, Iso20Lenient, Advances,
          Answered,
        Orderly, EvccMarked
    <3> QED
      BY <3>1, <3>2, <3>3, <3>4, <3>5, <3>6, <3>7, <3>8, <3>9, <3>10
  <2>7. EvccEnergy
    BY <2>2 DEF EvccEnergy, EvFields, TimerOn, TimerOff, Starts
  <2> QED
    BY <1>1, <2>1, <2>3, <2>4, <2>5, <2>6, <2>7, EvccFrame DEF Granted
<1>10. CASE Evcc20!DCChargeParameterDiscovery
  <2>1. Granted /\ EvccRuns /\ E = "DCChargeParameterDiscovery" /\ wire.name = "DCChargeParameterDiscovery"
    BY <1>10
      DEF Evcc20!DCChargeParameterDiscovery, Evcc20!ChargeParameterDiscovery, Evcc20!Response,
        Granted, EvccRuns, E
  <2>2. Asks("ScheduleExchange", {}, {}, NoMessage) /\ UNCHANGED ev
    BY <1>10, <2>1, Evcc20Same, EvccDoes, NamesAre, WordsAre
      DEF Evcc20!DCChargeParameterDiscovery, Evcc20!ChargeParameterDiscovery
  <2>3. EvccMoves
    BY <1>2, <2>1, <2>2
      DEF EvccMoves, AsksAgain, Iso20Inv, Iso20Told, Iso20Ends, Granted, Starts, Judged20
  <2>4. ev' \in EvFields
    BY <2>2, NamesAre DEF EvFields, TimerOn, TimerOff, Starts
  <2>5. S' = S
    BY <2>2 DEF Asks, AsksAgain, GivesUp, Completes, Leaves, Fails, S, Starts
  <2>6. Iso20Inv' /\ CarInv'
    <3> USE <1>1, <1>2, <2>1, <2>2
      DEF DIN, ISO2, ISO20, WireInv, EndInv, CarInv, CarEnabled, CarTimed, ProtocolInv,
        Iso20Inv, Iso20Auth, Iso20Place, Iso20Path, Iso20Stop, Iso20Told, Iso20Again, Iso20Ends,
        Asks, AsksAgain, GivesUp, Completes, Leaves, EvccStops, Fails, Peer, Off, RunsOn,
        Stopping, Requested, Granted, SeccRuns, EvccRuns, SeccMarked, Speaks, E, S, EvFields,
        TimerOn, TimerOff, Starts, Judged20, Charges20, Before20, CoreTyped, Ends, Message,
        NoMessage
    <3>1. Iso20Auth'
      OBVIOUS
    <3>2. Iso20Place'
      OBVIOUS
    <3>3. Iso20Path'
      OBVIOUS
    <3>4. Iso20Stop'
      OBVIOUS
    <3>5. Iso20Told'
      OBVIOUS
    <3>6. Iso20Again'
      OBVIOUS
    <3>7. Iso20Ends'
      OBVIOUS
    <3>8. CarEnabled'
      BY DEF PowerStates
    <3>9. CarTimed'
      BY DEF TimedPhases
    <3>10. Iso20Turn'
      BY DEF Iso20Turn, Iso20Fits, Iso20Leads, Iso20Next, Iso20Follows, Iso20Lenient, Advances,
          Answered,
        Orderly, EvccMarked
    <3> QED
      BY <3>1, <3>2, <3>3, <3>4, <3>5, <3>6, <3>7, <3>8, <3>9, <3>10
  <2>7. EvccEnergy
    BY <2>2 DEF EvccEnergy, EvFields, TimerOn, TimerOff, Starts
  <2> QED
    BY <1>1, <2>1, <2>3, <2>4, <2>5, <2>6, <2>7, EvccFrame DEF Granted
<1>11. CASE Evcc20!ScheduleExchange
  <2>1. Granted /\ EvccRuns /\ E = "ScheduleExchange" /\ wire.name = "ScheduleExchange"
    BY <1>11
      DEF Evcc20!ScheduleExchange, Evcc20!StartCharging, Evcc20!Response, Granted, EvccRuns, E
  <2>2. \/ /\ "finished" \notin wire.info
           /\ Asks("ScheduleExchange", {}, {}, NoMessage)
           /\ UNCHANGED ev
        \/ /\ "finished" \in wire.info
           /\ settings.ac
           /\ Starts([ev EXCEPT !.enabled = TRUE])
        \/ /\ "finished" \in wire.info
           /\ ~ settings.ac
           /\ Asks("DCCableCheck", {}, {}, NoMessage)
           /\ ev' = [ev EXCEPT !.enabled = TRUE]
    <3>1. Ask("ScheduleExchange", {}) => Asks("ScheduleExchange", {}, {}, NoMessage)
      BY EvccDoes, NamesAre, WordsAre
    <3>2. Ask("DCCableCheck", {}) => Asks("DCCableCheck", {}, {}, NoMessage)
      BY EvccDoes, NamesAre, WordsAre
    <3>3. Evcc20!StartCharging([ev EXCEPT !.enabled = TRUE]) => Starts([ev EXCEPT !.enabled = TRUE])
      BY StartDoes
    <3> QED
      BY <1>11, <3>1, <3>2, <3>3, Evcc20Same DEF Evcc20!ScheduleExchange
  <2>3. EvccMoves
    BY <1>2, <2>1, <2>2
      DEF EvccMoves, AsksAgain, Iso20Inv, Iso20Told, Iso20Ends, Granted, Starts, Judged20
  <2>4. ev' \in EvFields
    BY <2>2, NamesAre, ZenonT(60) DEF EvFields, TimerOn, TimerOff, Starts
  <2>5. S' = S
    BY <2>2 DEF Asks, AsksAgain, GivesUp, Completes, Leaves, Fails, S, Starts
  <2>6. Iso20Inv' /\ CarInv'
    <3>10. Iso20Turn'
      <4>1. Orderly => S = IF "finished" \in wire.info
                             THEN IF settings.ac THEN "PowerDelivery" ELSE "ScheduleExchange"
                             ELSE "ScheduleExchange"
        BY <2>1 DEF Iso20Inv, Iso20Turn, Iso20Leads, Iso20Next, Advances, Answered, Granted
      <4>2. ASSUME Orderly'
            PROVE  /\ Requested' /\ Iso20Fits'
                   /\ E' = "PowerDelivery" /\ ev'.stop = "none" =>
                        wire'.info = { "Start" } \union IF ev'.computing THEN { "computing" } ELSE {}
                   /\ E' # "DCPreCharge"
        BY <1>2, <2>2, <4>1, <4>2, AskTurn, LeaveTurn, StartTurn
          DEF Iso20Fits, Iso20Follows, Iso20Lenient, Answered, AsksAgain, EvFields
      <4> QED
        BY <4>2 DEF Iso20Turn, Requested
    <3>1. Iso20Again'
    <4>1. \/ ev'.stop = ev.stop /\ ev'.renegotiating = ev.renegotiating
          \/ ev'.stop # "ServiceRenegotiation" /\ ev'.renegotiating = ev.renegotiating
          \/ ev'.renegotiating
      BY <2>2, <1>2 DEF EvFields, TimerOn, TimerOff, Starts
    <4>2. Requested' => "ServiceRenegotiation" \notin wire'.info
      BY <1>2, <2>2, EvccTells DEF AsksAgain, Starts
    <4> QED
      BY <2>1, <4>1, <4>2 DEF Iso20Again, Iso20Inv, Speaks
    <3> USE <1>1, <1>2, <2>1, <2>2
      DEF DIN, ISO2, ISO20, WireInv, EndInv, CarInv, CarEnabled, CarTimed, ProtocolInv,
        Iso20Inv, Iso20Auth, Iso20Place, Iso20Path, Iso20Stop, Iso20Told, Iso20Again, Iso20Ends,
        Asks, AsksAgain, GivesUp, Completes, Leaves, EvccStops, Fails, Peer, Off, RunsOn,
        Stopping, Requested, Granted, SeccRuns, EvccRuns, SeccMarked, Speaks, E, S, EvFields,
        TimerOn, TimerOff, Starts, Judged20, Charges20, Before20, CoreTyped, Ends, Message,
        NoMessage
    <3>2. Iso20Auth'
      OBVIOUS
    <3>3. Iso20Place'
      OBVIOUS
    <3>4. Iso20Path'
      OBVIOUS
    <3>5. Iso20Stop'
      BY ZenonT(60)
    <3>6. Iso20Told'
      BY ZenonT(60)
    <3>7. Iso20Ends'
      OBVIOUS
    <3>8. CarEnabled'
      BY ZenonT(60) DEF PowerStates
    <3>9. CarTimed'
      BY ZenonT(60) DEF TimedPhases
    <3> QED
      BY <3>1, <3>2, <3>3, <3>4, <3>5, <3>6, <3>7, <3>8, <3>9, <3>10
  <2>7. EvccEnergy
    BY <1>1, <1>2, <2>1, <2>2
      DEF EvccEnergy, EvFields, TimerOn, TimerOff, Starts, Asks, AsksAgain, Iso20Inv, Iso20Path,
        Stopping, Off, Speaks, DIN, ISO2, ISO20, S, SeccRuns
  <2> QED
    BY <1>1, <2>1, <2>3, <2>4, <2>5, <2>6, <2>7, EvccFrame DEF Granted
<1>12. CASE Evcc20!PowerDelivery
  <2>1. Granted /\ EvccRuns /\ E = "PowerDelivery" /\ wire.name = "PowerDelivery"
    BY <1>12
      DEF Evcc20!PowerDelivery, Evcc20!StartCharging, Evcc20!Response, Granted, EvccRuns, E
  <2>2. \/ ev.computing /\ Starts(ev)
        \/ /\ ~ ev.computing /\ ev.stop # "none" /\ ev' = [ev EXCEPT !.enabled = FALSE]
           /\ IF settings.ac THEN Asks("SessionStop", { ev.stop }, {}, NoMessage)
              ELSE Asks("DCWeldingDetection", {}, {}, NoMessage)
        \/ /\ ~ ev.computing /\ ev.stop = "none" /\ UNCHANGED ev
           /\ Asks(IF settings.ac THEN "ACChargeLoop" ELSE "DCChargeLoop", {}, {}, NoMessage)
    <3>1. { ev.stop } \in SUBSET Words
      BY DEF EvFields, Words
    <3>2. Ask(IF settings.ac THEN "ACChargeLoop" ELSE "DCChargeLoop", {}) =>
            Asks(IF settings.ac THEN "ACChargeLoop" ELSE "DCChargeLoop", {}, {}, NoMessage)
      BY EvccDoes, NamesAre, WordsAre
    <3>3. /\ Ask("SessionStop", { ev.stop }) => Asks("SessionStop", { ev.stop }, {}, NoMessage)
          /\ Ask("DCWeldingDetection", {}) => Asks("DCWeldingDetection", {}, {}, NoMessage)
      BY <3>1, EvccDoes, NamesAre, WordsAre
    <3>4. Evcc20!StartCharging(ev) => Starts(ev)
      BY StartDoes
    <3> QED
      BY <1>12, <3>2, <3>3, <3>4, Evcc20Same DEF Evcc20!PowerDelivery
  <2>3. EvccMoves
    BY <1>2, <2>1, <2>2
      DEF EvccMoves, AsksAgain, Iso20Inv, Iso20Told, Iso20Ends, Granted, Starts, Judged20
  <2>4. ev' \in EvFields
    BY ZenonT(60), <2>2, NamesAre DEF EvFields, TimerOn, TimerOff, Starts
  <2>5. S' = S
    BY <2>2 DEF Asks, AsksAgain, GivesUp, Completes, Leaves, Fails, S, Starts
  <2>6. Iso20Inv' /\ CarInv'
    <3> USE <1>1, <1>2, <2>1, <2>2
      DEF DIN, ISO2, ISO20, WireInv, EndInv, CarInv, CarEnabled, CarTimed, ProtocolInv,
        Iso20Inv, Iso20Auth, Iso20Place, Iso20Path, Iso20Stop, Iso20Told, Iso20Again, Iso20Ends,
        Asks, AsksAgain, GivesUp, Completes, Leaves, EvccStops, Fails, Peer, Off, RunsOn,
        Stopping, Requested, Granted, SeccRuns, EvccRuns, SeccMarked, Speaks, E, S, EvFields,
        TimerOn, TimerOff, Starts, Judged20, Charges20, Before20, CoreTyped, Ends, Message,
        NoMessage
    <3>1. Iso20Auth'
      OBVIOUS
    <3>2. Iso20Place'
      OBVIOUS
    <3>3. Iso20Path'
      OBVIOUS
    <3>4. Iso20Stop'
      OBVIOUS
    <3>5. Iso20Told'
      OBVIOUS
    <3>6. Iso20Again'
      OBVIOUS
    <3>7. Iso20Ends'
      OBVIOUS
    <3>8. CarEnabled'
      BY DEF PowerStates
    <3>9. CarTimed'
      BY DEF TimedPhases
    <3>10. Iso20Turn'
      BY DEF Iso20Turn, Iso20Fits, Iso20Leads, Iso20Next, Iso20Follows, Iso20Lenient, Advances,
          Answered,
        Orderly, EvccMarked
    <3> QED
      BY <3>1, <3>2, <3>3, <3>4, <3>5, <3>6, <3>7, <3>8, <3>9, <3>10
  <2>7. EvccEnergy
    BY <1>1, <1>2, <2>1, <2>2
      DEF EvccEnergy, EvFields, TimerOn, TimerOff, Starts, Asks, AsksAgain, Iso20Inv, Iso20Path,
        Stopping, Off, Speaks, DIN, ISO2, ISO20, S, SeccRuns
  <2> QED
    BY <1>1, <2>1, <2>3, <2>4, <2>5, <2>6, <2>7, EvccFrame DEF Granted
<1>13. CASE Evcc20!ACChargeLoop
  <2>1. Granted /\ EvccRuns /\ E = "ACChargeLoop" /\ wire.name = "ACChargeLoop"
    BY <1>13
      DEF Evcc20!ACChargeLoop, Evcc20!ChargeLoop, Evcc20!StopCharging, Evcc20!Response, Granted,
        EvccRuns, E
  <2>2. \/ Fails("evcc") /\ UNCHANGED ev
        \/ /\ Asks("PowerDelivery", { "Stop" }, {}, NoMessage)
           /\ ev' = [ev EXCEPT !.renegotiating = TRUE, !.stop = "ServiceRenegotiation"]
        \/ /\ Asks("PowerDelivery", { "Stop" }, {}, NoMessage)
           /\ ev' = [ev EXCEPT !.stop = "Terminate"]
        \/ Asks("ACChargeLoop", {}, {}, NoMessage) /\ UNCHANGED ev
    BY <1>13, <2>1, Evcc20Same, EvccDoes, NamesAre, WordsAre
      DEF Evcc20!ACChargeLoop, Evcc20!ChargeLoop, Evcc20!StopCharging
  <2>3. EvccMoves
    BY <1>2, <2>1, <2>2
      DEF EvccMoves, AsksAgain, Iso20Inv, Iso20Told, Iso20Ends, Granted, Starts, Judged20
  <2>4. ev' \in EvFields
    BY <2>2, NamesAre DEF EvFields, TimerOn, TimerOff, Starts
  <2>5. S' = S
    BY <2>2 DEF Asks, AsksAgain, GivesUp, Completes, Leaves, Fails, S, Starts
  <2>6. Iso20Inv' /\ CarInv'
    <3>10. Iso20Turn'
      <4>1. Orderly => S = "ACChargeLoop"
        BY <2>1 DEF Iso20Inv, Iso20Turn, Iso20Leads, Iso20Next, Advances, Answered, Granted
      <4>2. ASSUME Orderly'
            PROVE  /\ Requested' /\ Iso20Fits'
                   /\ E' # "DCPreCharge"
                   /\ E' = "PowerDelivery" => ev'.stop # "none"
        BY <1>2, <2>2, <4>1, <4>2, AskTurn, LeaveTurn
          DEF Iso20Fits, Iso20Follows, Iso20Lenient, Answered, AsksAgain, EvFields
      <4> QED
        BY <4>2 DEF Iso20Turn, Requested
    <3>1. Iso20Again'
    <4>1. \/ ev'.stop = ev.stop /\ ev'.renegotiating = ev.renegotiating
          \/ ev'.stop # "ServiceRenegotiation" /\ ev'.renegotiating = ev.renegotiating
          \/ ev'.renegotiating
      BY <2>2, <1>2 DEF EvFields, TimerOn, TimerOff, Starts
    <4>2. Requested' => "ServiceRenegotiation" \notin wire'.info
      BY <1>2, <2>2, EvccTells DEF AsksAgain
    <4> QED
      BY <2>1, <4>1, <4>2 DEF Iso20Again, Iso20Inv, Speaks
    <3> USE <1>1, <1>2, <2>1, <2>2
      DEF DIN, ISO2, ISO20, WireInv, EndInv, CarInv, CarEnabled, CarTimed, ProtocolInv,
        Iso20Inv, Iso20Auth, Iso20Place, Iso20Path, Iso20Stop, Iso20Told, Iso20Again, Iso20Ends,
        Asks, AsksAgain, GivesUp, Completes, Leaves, EvccStops, Fails, Peer, Off, RunsOn,
        Stopping, Requested, Granted, SeccRuns, EvccRuns, SeccMarked, Speaks, E, S, EvFields,
        TimerOn, TimerOff, Starts, Judged20, Charges20, Before20, CoreTyped, Ends, Message,
        NoMessage
    <3>2. Iso20Auth'
      BY ZenonT(60)
    <3>3. Iso20Place'
      OBVIOUS
    <3>4. Iso20Path'
      OBVIOUS
    <3>5. Iso20Stop'
      BY ZenonT(60)
    <3>6. Iso20Told'
      BY ZenonT(60)
    <3>7. Iso20Ends'
      OBVIOUS
    <3>8. CarEnabled'
      BY DEF PowerStates
    <3>9. CarTimed'
      BY DEF TimedPhases
    <3> QED
      BY <3>1, <3>2, <3>3, <3>4, <3>5, <3>6, <3>7, <3>8, <3>9, <3>10
  <2>7. EvccEnergy
    BY <2>2 DEF EvccEnergy, EvFields, TimerOn, TimerOff, Starts
  <2> QED
    BY <1>1, <2>1, <2>3, <2>4, <2>5, <2>6, <2>7, EvccFrame DEF Granted
<1>14. CASE Evcc20!DCChargeLoop
  <2>1. Granted /\ EvccRuns /\ E = "DCChargeLoop" /\ wire.name = "DCChargeLoop"
    BY <1>14
      DEF Evcc20!DCChargeLoop, Evcc20!ChargeLoop, Evcc20!StopCharging, Evcc20!Response, Granted,
        EvccRuns, E
  <2>2. \/ Fails("evcc") /\ UNCHANGED ev
        \/ /\ Asks("PowerDelivery", { "Stop" }, {}, NoMessage)
           /\ ev' = [ev EXCEPT !.renegotiating = TRUE, !.stop = "ServiceRenegotiation"]
        \/ /\ Asks("PowerDelivery", { "Stop" }, {}, NoMessage)
           /\ ev' = [ev EXCEPT !.stop = "Terminate"]
        \/ /\ AsksAgain("DCChargeLoop", {})
           /\ UNCHANGED ev
    BY <1>14, <2>1, Evcc20Same, EvccDoes, NamesAre, WordsAre
      DEF Evcc20!DCChargeLoop, Evcc20!ChargeLoop, Evcc20!StopCharging
  <2>3. EvccMoves
    BY <1>2, <2>1, <2>2
      DEF EvccMoves, AsksAgain, Iso20Inv, Iso20Told, Iso20Ends, Granted, Starts, Judged20
  <2>4. ev' \in EvFields
    BY <2>2, NamesAre DEF EvFields, TimerOn, TimerOff, Starts
  <2>5. S' = S
    BY <2>2 DEF Asks, AsksAgain, GivesUp, Completes, Leaves, Fails, S, Starts
  <2>6. Iso20Inv' /\ CarInv'
    <3>10. Iso20Turn'
      <4>1. Orderly => Answered("DCChargeLoop")
        BY <2>1 DEF Iso20Inv, Iso20Turn, Iso20Leads, Iso20Next, Advances, Answered, Granted
      <4>2. ASSUME Orderly'
            PROVE  /\ Requested' /\ Iso20Fits'
                   /\ E' # "DCPreCharge"
                   /\ E' = "PowerDelivery" => ev'.stop # "none"
        BY <1>2, <2>2, <4>1, <4>2, AskTurn, LeaveTurn
          DEF Iso20Fits, Iso20Follows, Iso20Lenient, Answered, AsksAgain, EvFields
      <4> QED
        BY <4>2 DEF Iso20Turn, Requested
    <3>1. Iso20Again'
    <4>1. \/ ev'.stop = ev.stop /\ ev'.renegotiating = ev.renegotiating
          \/ ev'.stop # "ServiceRenegotiation" /\ ev'.renegotiating = ev.renegotiating
          \/ ev'.renegotiating
      BY <2>2, <1>2 DEF EvFields, TimerOn, TimerOff, Starts
    <4>2. Requested' => "ServiceRenegotiation" \notin wire'.info
      BY <1>2, <2>2, EvccTells DEF AsksAgain
    <4> QED
      BY <2>1, <4>1, <4>2 DEF Iso20Again, Iso20Inv, Speaks
    <3> USE <1>1, <1>2, <2>1, <2>2
      DEF DIN, ISO2, ISO20, WireInv, EndInv, CarInv, CarEnabled, CarTimed, ProtocolInv,
        Iso20Inv, Iso20Auth, Iso20Place, Iso20Path, Iso20Stop, Iso20Told, Iso20Again, Iso20Ends,
        Asks, AsksAgain, GivesUp, Completes, Leaves, EvccStops, Fails, Peer, Off, RunsOn,
        Stopping, Requested, Granted, SeccRuns, EvccRuns, SeccMarked, Speaks, E, S, EvFields,
        TimerOn, TimerOff, Starts, Judged20, Charges20, Before20, CoreTyped, Ends, Message,
        NoMessage
    <3>2. Iso20Auth'
      BY ZenonT(60)
    <3>3. Iso20Place'
      OBVIOUS
    <3>4. Iso20Path'
      OBVIOUS
    <3>5. Iso20Stop'
      BY ZenonT(60)
    <3>6. Iso20Told'
      BY ZenonT(60)
    <3>7. Iso20Ends'
      OBVIOUS
    <3>8. CarEnabled'
      BY ZenonT(60) DEF PowerStates
    <3>9. CarTimed'
      BY DEF TimedPhases
    <3> QED
      BY <3>1, <3>2, <3>3, <3>4, <3>5, <3>6, <3>7, <3>8, <3>9, <3>10
  <2>7. EvccEnergy
    BY <2>2 DEF EvccEnergy, EvFields, TimerOn, TimerOff, Starts
  <2> QED
    BY <1>1, <2>1, <2>3, <2>4, <2>5, <2>6, <2>7, EvccFrame DEF Granted
<1>15. CASE Evcc20!DCCableCheck
  <2>1. Granted /\ EvccRuns /\ E = "DCCableCheck" /\ wire.name = "DCCableCheck"
    BY <1>15 DEF Evcc20!DCCableCheck, Evcc20!Response, Granted, EvccRuns, E
  <2>2. \/ /\ "finished" \in wire.info
           /\ Asks("DCPreCharge", {}, {}, NoMessage)
           /\ ev' = TimerOff
        \/ /\ "finished" \notin wire.info
           /\ AsksAgain("DCCableCheck", {})
           /\ ev' = TimerOn("DCCableCheck")
        \/ GivesUp /\ UNCHANGED ev
    BY <1>15, <2>1, Evcc20Same, EvccDoes, NamesAre, WordsAre
      DEF Evcc20!DCCableCheck, Evcc20!Poll
  <2>3. EvccMoves
    BY <1>2, <2>1, <2>2
      DEF EvccMoves, AsksAgain, Iso20Inv, Iso20Told, Iso20Ends, Granted, Starts, Judged20
  <2>4. ev' \in EvFields
    BY <2>2, NamesAre DEF EvFields, TimerOn, TimerOff, Starts
  <2>5. S' = S
    BY <2>2 DEF Asks, AsksAgain, GivesUp, Completes, Leaves, Fails, S, Starts
  <2>6. Iso20Inv' /\ CarInv'
    <3>10. Iso20Turn'
      <4>1. Orderly => S = IF "finished" \in wire.info THEN "DCPreCharge" ELSE "DCCableCheck"
        BY <2>1 DEF Iso20Inv, Iso20Turn, Iso20Leads, Iso20Next, Advances, Answered, Granted
      <4>2. ASSUME Orderly'
            PROVE  /\ Requested' /\ Iso20Fits'
                   /\ E' # "PowerDelivery"
                   /\ "finished" \notin wire'.info
        BY <1>2, <2>2, <4>1, <4>2, AskTurn, LeaveTurn
          DEF Iso20Fits, Iso20Follows, Iso20Lenient, Answered, AsksAgain, EvFields
      <4> QED
        BY <4>2 DEF Iso20Turn, Requested
    <3>1. Iso20Again'
    <4>1. \/ ev'.stop = ev.stop /\ ev'.renegotiating = ev.renegotiating
          \/ ev'.stop # "ServiceRenegotiation" /\ ev'.renegotiating = ev.renegotiating
          \/ ev'.renegotiating
      BY <2>2, <1>2 DEF EvFields, TimerOn, TimerOff, Starts
    <4>2. Requested' => "ServiceRenegotiation" \notin wire'.info
      BY <1>2, <2>2, EvccTells DEF AsksAgain
    <4> QED
      BY <2>1, <4>1, <4>2 DEF Iso20Again, Iso20Inv, Speaks
    <3> USE <1>1, <1>2, <2>1, <2>2
      DEF DIN, ISO2, ISO20, WireInv, EndInv, CarInv, CarEnabled, CarTimed, ProtocolInv,
        Iso20Inv, Iso20Auth, Iso20Place, Iso20Path, Iso20Stop, Iso20Told, Iso20Again, Iso20Ends,
        Asks, AsksAgain, GivesUp, Completes, Leaves, EvccStops, Fails, Peer, Off, RunsOn,
        Stopping, Requested, Granted, SeccRuns, EvccRuns, SeccMarked, Speaks, E, S, EvFields,
        TimerOn, TimerOff, Starts, Judged20, Charges20, Before20, CoreTyped, Ends, Message,
        NoMessage
    <3>2. Iso20Auth'
      BY ZenonT(60)
    <3>3. Iso20Place'
      OBVIOUS
    <3>4. Iso20Path'
      OBVIOUS
    <3>5. Iso20Stop'
      BY ZenonT(60)
    <3>6. Iso20Told'
      BY ZenonT(60)
    <3>7. Iso20Ends'
      OBVIOUS
    <3>8. CarEnabled'
      BY ZenonT(60) DEF PowerStates
    <3>9. CarTimed'
      BY ZenonT(60) DEF TimedPhases
    <3> QED
      BY <3>1, <3>2, <3>3, <3>4, <3>5, <3>6, <3>7, <3>8, <3>9, <3>10
  <2>7. EvccEnergy
    BY <2>2 DEF EvccEnergy, EvFields, TimerOn, TimerOff, Starts
  <2> QED
    BY <1>1, <2>1, <2>3, <2>4, <2>5, <2>6, <2>7, EvccFrame DEF Granted
<1>16. CASE Evcc20!DCPreCharge
  <2>1. Granted /\ EvccRuns /\ E = "DCPreCharge" /\ wire.name = "DCPreCharge"
    BY <1>16 DEF Evcc20!DCPreCharge, Evcc20!StartCharging, Evcc20!Response, Granted, EvccRuns, E
  <2>2. \/ Starts(ev)
        \/ /\ EvccMarked("asked") /\ EvccMarked("reached") => settings.quirks # {}
           /\ \E info \in SUBSET { "finished" } : \E marks :
                /\ "asked" \in marks /\ ("finished" \in info => "reached" \in marks)
                /\ Asks("DCPreCharge", info, marks, Message("req", "DCPreCharge", "OK", info))
           /\ UNCHANGED ev
    <3>1. CASE Evcc20!StartCharging(ev)
      BY <3>1, StartDoes
    <3>2. CASE ~ Evcc20!StartCharging(ev)
      <4>1. PICK is_precharged \in BOOLEAN :
              LET info == IF is_precharged THEN { "finished" } ELSE {}
                  marks == { "asked" } \union IF is_precharged THEN { "reached" } ELSE {}
              IN /\ Send("secc", Message("req", "DCPreCharge", "OK", info))
                 /\ state' = [state EXCEPT !["evcc"].marks = @ \union marks,
                                           !["evcc"].out = Message("req", "DCPreCharge", "OK", info)]
                 /\ UNCHANGED << run, success, ev >>
        BY <1>16, <3>2, ZenonT(60) DEF Evcc20!DCPreCharge, Evcc20!Send, Send, Evcc20!Message,
            Message,
          Evcc20!NoMessage, NoMessage
      <4> DEFINE info == IF is_precharged THEN { "finished" } ELSE {}
                 marks == state["evcc"].marks \union { "asked" } \union
                            IF is_precharged THEN { "reached" } ELSE {}
                 m == Message("req", "DCPreCharge", "OK", info)
                 object == [state["evcc"] EXCEPT !.marks = marks, !.out = m]
      <4>2. info \in SUBSET Words /\ info \in SUBSET { "finished" }
        BY DEF Words
      <4>6. EvccMarked("asked") /\ EvccMarked("reached") => settings.quirks # {}
        BY <1>16, <3>2 DEF Evcc20!DCPreCharge, EvccMarked
      <4>7. "asked" \in marks /\ ("finished" \in info => "reached" \in marks)
        OBVIOUS
      <4>3. marks \in SUBSET Marks
        BY DEF Marks, CoreTyped, Objects, Ends
      <4>4. state' = [state EXCEPT !["evcc"] = object] /\ Send("secc", m) /\ RunsOn /\ UNCHANGED ev
        BY <4>1 DEF RunsOn
      <4> HIDE DEF info, marks
      <4>5. Asks(E, info, marks, Message("req", E, "OK", info))
        BY <2>1, <4>2, <4>3, <4>4, AskInPlaceDoes
      <4> QED
        BY <2>1, <4>2, <4>4, <4>5, <4>6, <4>7
    <3> QED
      BY <3>1, <3>2
  <2>3. EvccMoves
    BY <1>2, <2>1, <2>2
      DEF EvccMoves, AsksAgain, Iso20Inv, Iso20Told, Iso20Ends, Granted, Starts, Judged20
  <2>4. ev' \in EvFields
    BY <2>2, NamesAre DEF EvFields, TimerOn, TimerOff, Starts
  <2>5. S' = S
    BY <2>2 DEF Asks, AsksAgain, GivesUp, Completes, Leaves, Fails, S, Starts
  <2>6. Iso20Inv' /\ CarInv'
    <3>10. Iso20Turn'
      <4>1. Orderly => \/ Answered("DCPreCharge")
                       \/ S = "PowerDelivery" /\ EvccMarked("asked") /\ EvccMarked("reached")
        <5>1. Orderly => Iso20Leads
          BY <2>1 DEF Iso20Inv, Iso20Turn, Granted
        <5>2. << E, S >> \notin Iso20Next
          BY <2>1 DEF Iso20Next
        <5> QED
          BY <2>1, <5>1, <5>2 DEF Iso20Leads, Advances
      <4>2. ASSUME Orderly'
            PROVE  /\ Requested' /\ Iso20Fits'
                   /\ E' = "PowerDelivery" /\ ev'.stop = "none" =>
                        wire'.info = { "Start" } \union IF ev'.computing THEN { "computing" } ELSE {}
                   /\ E' = "DCPreCharge" /\ "finished" \in wire'.info =>
                        EvccMarked("asked")' /\ EvccMarked("reached")'
        BY <1>2, <2>2, <4>1, <4>2, AskTurn, LeaveTurn, StartTurn
          DEF Iso20Fits, Iso20Follows, Iso20Lenient, Answered, AsksAgain, EvFields, Orderly,
              EvccMarked
      <4> QED
        BY <4>2 DEF Iso20Turn, Requested
    <3>1. Iso20Again'
    <4>1. \/ ev'.stop = ev.stop /\ ev'.renegotiating = ev.renegotiating
          \/ ev'.stop # "ServiceRenegotiation" /\ ev'.renegotiating = ev.renegotiating
          \/ ev'.renegotiating
      BY <2>2, <1>2 DEF EvFields, TimerOn, TimerOff, Starts
    <4>2. Requested' => "ServiceRenegotiation" \notin wire'.info
      BY <1>2, <2>2, EvccTells DEF AsksAgain, Starts
    <4> QED
      BY <2>1, <4>1, <4>2 DEF Iso20Again, Iso20Inv, Speaks
    <3> USE <1>1, <1>2, <2>1, <2>2
      DEF DIN, ISO2, ISO20, WireInv, EndInv, CarInv, CarEnabled, CarTimed, ProtocolInv,
        Iso20Inv, Iso20Auth, Iso20Place, Iso20Path, Iso20Stop, Iso20Told, Iso20Again, Iso20Ends,
        Asks, AsksAgain, GivesUp, Completes, Leaves, EvccStops, Fails, Peer, Off, RunsOn,
        Stopping, Requested, Granted, SeccRuns, EvccRuns, SeccMarked, Speaks, E, S, EvFields,
        TimerOn, TimerOff, Starts, Judged20, Charges20, Before20, CoreTyped, Ends, Message,
        NoMessage
    <3>2. Iso20Auth'
      BY ZenonT(60)
    <3>3. Iso20Place'
      OBVIOUS
    <3>4. Iso20Path'
      BY ZenonT(60)
    <3>5. Iso20Stop'
      BY ZenonT(60)
    <3>6. Iso20Told'
      BY ZenonT(60)
    <3>7. Iso20Ends'
      OBVIOUS
    <3>8. CarEnabled'
      BY DEF PowerStates
    <3>9. CarTimed'
      BY DEF TimedPhases
    <3> QED
      BY <3>1, <3>2, <3>3, <3>4, <3>5, <3>6, <3>7, <3>8, <3>9, <3>10
  <2>7. EvccEnergy
    BY <2>2 DEF EvccEnergy, EvFields, TimerOn, TimerOff, Starts
  <2> QED
    BY <1>1, <2>1, <2>3, <2>4, <2>5, <2>6, <2>7, EvccFrame DEF Granted
<1>17. CASE Evcc20!DCWeldingDetection
  <2>1. wire.kind = "res" /\ EvccRuns /\ E = "DCWeldingDetection" /\ wire.name = "DCWeldingDetection"
    BY <1>17
      DEF Evcc20!DCWeldingDetection, Evcc20!Response, Granted, EvccRuns, E, WireInv,
        Evcc20!Unchecked
  <2>2. \/ GivesUp /\ UNCHANGED ev
        \/ /\ ev' = TimerOn("DCWeldingDetection")
           /\ \/ Asks("SessionStop", { "Terminate" }, {}, NoMessage)
              \/ \E marks : Asks("DCWeldingDetection", {}, marks,
                                 Message("req", "DCWeldingDetection", "OK", {}))
    <3>1. CASE Overdue
      BY <1>17, <3>1, Evcc20Same, EvccDoes DEF Evcc20!DCWeldingDetection
    <3>2. CASE Ask("SessionStop", { "Terminate" }) /\ ev' = TimerOn("DCWeldingDetection")
      BY <3>2, EvccDoes, NamesAre, WordsAre
    <3>3. CASE ~ Overdue /\ ~ Ask("SessionStop", { "Terminate" })
      <4>1. PICK finished \in BOOLEAN :
              /\ Send("secc", Message("req", "DCWeldingDetection", "OK", {}))
              /\ state' = [state EXCEPT
                   !["evcc"].marks = IF finished THEN { "complete" } ELSE {},
                   !["evcc"].out = Message("req", "DCWeldingDetection", "OK", {})]
              /\ UNCHANGED << run, success >>
              /\ ev' = TimerOn("DCWeldingDetection")
        BY <1>17, <3>3, Evcc20Same
          DEF Evcc20!DCWeldingDetection, Evcc20!Send, Send, Evcc20!Message,
          Message, Evcc20!NoMessage, NoMessage
      <4> DEFINE marks == IF finished THEN { "complete" } ELSE {}
                 m == Message("req", "DCWeldingDetection", "OK", {})
                 object == [state["evcc"] EXCEPT !.marks = marks, !.out = m]
      <4>2. marks \in SUBSET Marks
        BY DEF Marks
      <4>3. state' = [state EXCEPT !["evcc"] = object] /\ Send("secc", m) /\ RunsOn
        BY <4>1 DEF RunsOn
      <4> HIDE DEF marks
      <4>4. Asks(E, {}, marks, Message("req", E, "OK", {}))
        BY <2>1, <4>2, <4>3, AskInPlaceDoes, WordsAre
      <4> QED
        BY <2>1, <4>1, <4>4
    <3>4. \/ Overdue
          \/ Ask("SessionStop", { "Terminate" }) /\ ev' = TimerOn("DCWeldingDetection")
          \/ ~ Overdue /\ ~ Ask("SessionStop", { "Terminate" })
      BY <1>17, Evcc20Same DEF Evcc20!DCWeldingDetection
    <3> QED
      BY <3>1, <3>2, <3>3, <3>4
  <2>3. EvccMoves
    BY <1>2, <2>1, <2>2
      DEF EvccMoves, AsksAgain, Iso20Inv, Iso20Told, Iso20Ends, Granted, Starts, Judged20
  <2>4. ev' \in EvFields
    BY <2>2, NamesAre DEF EvFields, TimerOn, TimerOff, Starts
  <2>5. S' = S
    BY <2>2 DEF Asks, AsksAgain, GivesUp, Completes, Leaves, Fails, S, Starts
  <2>6. Iso20Inv' /\ CarInv'
    <3> USE <1>1, <1>2, <2>1, <2>2
      DEF DIN, ISO2, ISO20, WireInv, EndInv, CarInv, CarEnabled, CarTimed, ProtocolInv,
        Iso20Inv, Iso20Auth, Iso20Place, Iso20Path, Iso20Stop, Iso20Told, Iso20Again, Iso20Ends,
        Asks, AsksAgain, GivesUp, Completes, Leaves, EvccStops, Fails, Peer, Off, RunsOn,
        Stopping, Requested, Granted, SeccRuns, EvccRuns, SeccMarked, Speaks, E, S, EvFields,
        TimerOn, TimerOff, Starts, Judged20, Charges20, Before20, CoreTyped, Ends, Message,
        NoMessage
    <3>1. Iso20Auth'
      OBVIOUS
    <3>2. Iso20Place'
      OBVIOUS
    <3>3. Iso20Path'
      OBVIOUS
    <3>4. Iso20Stop'
      OBVIOUS
    <3>5. Iso20Told'
      OBVIOUS
    <3>6. Iso20Again'
      OBVIOUS
    <3>7. Iso20Ends'
      OBVIOUS
    <3>8. CarEnabled'
      BY DEF PowerStates
    <3>9. CarTimed'
      BY DEF TimedPhases
    <3>10. Iso20Turn'
      BY DEF Iso20Turn, Iso20Fits, Iso20Leads, Iso20Next, Iso20Follows, Iso20Lenient, Advances,
          Answered,
        Orderly, EvccMarked
    <3> QED
      BY <3>1, <3>2, <3>3, <3>4, <3>5, <3>6, <3>7, <3>8, <3>9, <3>10
  <2>7. EvccEnergy
    BY <2>2 DEF EvccEnergy, EvFields, TimerOn, TimerOff, Starts
  <2> QED
    BY <1>1, <2>1, <2>3, <2>4, <2>5, <2>6, <2>7, EvccFrame DEF Granted
<1>18. CASE Evcc20!SessionStop
  <2>1. Granted /\ EvccRuns /\ E = "SessionStop" /\ wire.name = "SessionStop"
    BY <1>18 DEF Evcc20!SessionStop, Evcc20!Response, Granted, EvccRuns, E
  <2>2. \/ Fails("evcc") /\ UNCHANGED ev
        \/ Fails("evcc") /\ ev' = [ev EXCEPT !.renegotiating = FALSE]
        \/ ~ (ev.renegotiates /\ ev.renegotiating) /\ Completes /\ UNCHANGED ev
    BY <1>18, <2>1, Evcc20Same, EvccDoes, NamesAre, WordsAre DEF Evcc20!SessionStop
  <2>3. EvccMoves
    BY <1>2, <2>1, <2>2
      DEF EvccMoves, AsksAgain, Iso20Inv, Iso20Told, Iso20Ends, Granted, Starts, Judged20
  <2>4. ev' \in EvFields
    BY <2>2, NamesAre DEF EvFields, TimerOn, TimerOff, Starts
  <2>5. S' = S
    BY <2>2 DEF Asks, AsksAgain, GivesUp, Completes, Leaves, Fails, S, Starts
  <2>6. Iso20Inv' /\ CarInv'
    <3> USE <1>1, <1>2, <2>1, <2>2
      DEF DIN, ISO2, ISO20, WireInv, EndInv, CarInv, CarEnabled, CarTimed, ProtocolInv,
        Iso20Inv, Iso20Auth, Iso20Place, Iso20Path, Iso20Stop, Iso20Told, Iso20Again, Iso20Ends,
        Asks, AsksAgain, GivesUp, Completes, Leaves, EvccStops, Fails, Peer, Off, RunsOn,
        Stopping, Requested, Granted, SeccRuns, EvccRuns, SeccMarked, Speaks, E, S, EvFields,
        TimerOn, TimerOff, Starts, Judged20, Charges20, Before20, CoreTyped, Ends, Message,
        NoMessage
    <3>1. Iso20Auth'
      OBVIOUS
    <3>2. Iso20Place'
      OBVIOUS
    <3>3. Iso20Path'
      OBVIOUS
    <3>4. Iso20Stop'
      OBVIOUS
    <3>5. Iso20Told'
      OBVIOUS
    <3>6. Iso20Again'
      OBVIOUS
    <3>7. Iso20Ends'
      OBVIOUS
    <3>8. CarEnabled'
      BY DEF PowerStates
    <3>9. CarTimed'
      BY DEF TimedPhases
    <3>10. Iso20Turn'
      BY DEF Iso20Turn, Iso20Fits, Iso20Leads, Iso20Next, Iso20Follows, Iso20Lenient, Advances,
          Answered,
        Orderly, EvccMarked
    <3> QED
      BY <3>1, <3>2, <3>3, <3>4, <3>5, <3>6, <3>7, <3>8, <3>9, <3>10
  <2>7. EvccEnergy
    BY <2>2 DEF EvccEnergy, EvFields, TimerOn, TimerOff, Starts
  <2> QED
    BY <1>1, <2>1, <2>3, <2>4, <2>5, <2>6, <2>7, EvccFrame DEF Granted
<1> QED
  BY <1>3, <1>4, <1>5, <1>6, <1>7, <1>8, <1>9, <1>10, <1>11, <1>12, <1>13, <1>14, <1>15, <1>16,
      <1>17, <1>18 DEF Evcc20!Handle

=============================================================================
