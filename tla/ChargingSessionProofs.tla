------------------------ MODULE ChargingSessionProofs ------------------------
(* The safety of a charging session, in every protocol and for every        *)
(* setting: the invariant of SessionSteps is inductive, and implies what    *)
(* ChargingSession promises.                                                *)
EXTENDS EvccSteps, WellFoundedInduction

Inv == Typed /\ IInv

-----------------------------------------------------------------------------
(* Steps that concern no protocol.                                           *)

\* When one of the ends is gone, or a controller misbehaves, it is nobody's turn.
LEMMA NobodysTurn ==
  ~ Orderly' => DinTurn' /\ Iso2Turn' /\ Iso20Turn'
BY DEF DinTurn, Iso2Turn, Iso20Turn

\* What the SECC answers to a request it takes is no refusal of it.
LEMMA ServedIsNotRefused ==
  ASSUME NEW r, SeccServed(r) \/ Fails("secc")
  PROVE  wire'.code # "FAILED_SEQUENCE_ERROR"
BY DEF SeccServed, SeccAnswers, Responds, Fails

\* A session starts from the invariant.
LEMMA InitInv ==
  ASSUME Init
  PROVE  Inv
<1> USE DEF Init, SessionInit, SimInit
<1>1. CoreTyped /\ E = "SupportedAppProtocol" /\ S = "SupportedAppProtocol"
  BY NoMessageTyped, NamesAre, WordsAre
     DEF CoreTyped, Message, Messages, Codes, Objects, New, Ends, E, S
<1>2. Typed
  BY <1>1, LeftoversAssumption, NamesAre
     DEF Typed, EvFields, SeFields, Words, Ends, Counters, Unused
<1>3. WireInv /\ ProtocolInv /\ EndInv /\ CarInv
  BY <1>1 DEF WireInv, ProtocolInv, EndInv, CarInv, CarEnabled, CarTimed, PowerStates, Requested,
       Granted, Speaks, SeccRuns, EvccRuns, Message, NoMessage, New, Ends, DIN, ISO2, ISO20, E
<1>4. ~ Speaks(DIN) /\ ~ Speaks(ISO2) /\ ~ Speaks(ISO20)
  BY DEF Speaks, Ends, DIN, ISO2, ISO20
<1>5. NoneRefused
  BY DEF NoneRefused, Message
<1> QED
  BY <1>2, <1>3, <1>4, <1>5 DEF Inv, IInv, DinInv, DinAuth, DinPath, DinStop, DinTurn, Iso2Inv,
       Iso2Auth, Iso2Path, Iso2Stop, Iso2Turn, Iso20Inv, Iso20Auth, Iso20Place, Iso20Path,
       Iso20Stop, Iso20Told, Iso20Again, Iso20Ends, Iso20Turn

\* Only one protocol is spoken: the parts about the others hold of anything.
LEMMA OthersStaySilent ==
  /\ ~ Speaks(DIN)' => DinInv'
  /\ ~ Speaks(ISO2)' => Iso2Inv'
  /\ ~ Speaks(ISO20)' => Iso20Inv'
BY DEF DinInv, DinAuth, DinPath, DinStop, DinTurn, Iso2Inv, Iso2Auth, Iso2Path, Iso2Stop,
       Iso2Turn, Iso20Inv, Iso20Auth, Iso20Place, Iso20Path, Iso20Stop, Iso20Told, Iso20Again,
       Iso20Ends, Iso20Turn, Speaks

\* Nothing is sent or handled: an end leaves, or time passes.
LEMMA QuietStep ==
  ASSUME Inv, UNCHANGED << settings, wire, state, success, protocol, se >>,
         SeccRuns' => SeccRuns, EvccRuns' => EvccRuns,
         Requested => SeccRuns', wire.kind = "res" => EvccRuns',
         run' \in [Ends -> { "running", "stopping", "closed" }],
         ev' \in EvFields,
         \A f \in DOMAIN ev \ { "enabled", "elapsed" } : ev'[f] = ev[f],
         ev'.enabled => ev.enabled, EvccRuns' => ev'.enabled = ev.enabled
  PROVE  CoreTyped' /\ IInv'
<1>1. /\ ev'.timer = ev.timer /\ ev'.stop = ev.stop /\ ev'.complete = ev.complete
      /\ ev'.computing = ev.computing /\ ev'.renegotiates = ev.renegotiates
      /\ ev'.renegotiating = ev.renegotiating
  BY DEF Inv, Typed, EvFields
<1>2. CoreTyped' /\ WireInv' /\ EndInv' /\ ProtocolInv'
  BY <1>1 DEF Inv, Typed, CoreTyped, IInv, WireInv, EndInv, ProtocolInv, Requested, Granted,
       SeccRuns, EvccRuns, Speaks, S, E
<1>3. CarInv'
  BY <1>1 DEF Inv, IInv, CarInv, CarEnabled, CarTimed, EvccRuns, E
<1>7. DinInv /\ Iso2Inv /\ Iso20Inv => DinTurn' /\ Iso2Turn' /\ Iso20Turn'
  <2>1. Orderly' => Orderly
    BY DEF Orderly
  <2>2. DinTurn /\ Orderly => DinTurn'
    BY <1>1 DEF DinTurn, DinFits, DinLeads, Advances, Answered, Requested, SeccMarked, Speaks,
         S, E
  <2>3. Iso2Turn /\ Orderly => Iso2Turn'
    BY <1>1 DEF Iso2Turn, Iso2Fits, Iso2Leads, Iso2Asks, Advances, Answered, Requested,
         SeccMarked, Speaks, S, E
  <2>4. Iso20Turn /\ Orderly => Iso20Turn'
    BY <1>1 DEF Iso20Turn, Iso20Fits, Iso20Leads, Advances, Answered, Requested, SeccMarked,
         EvccMarked, Speaks, S, E
  <2> QED
    BY <2>1, <2>2, <2>3, <2>4, NobodysTurn DEF DinInv, Iso2Inv, Iso20Inv
<1>8. NoneRefused'
  BY DEF Inv, IInv, NoneRefused
<1> USE <1>1, <1>7 DEF Inv, IInv, Requested, Granted, Stopping, SeccMarked, SeccRuns, EvccRuns, Off,
          Speaks, S, E, WireInv
<1>4. DinInv'
  BY DEF DinInv, DinAuth, DinPath, DinStop
<1>5. Iso2Inv'
  BY DEF Iso2Inv, Iso2Auth, Iso2Path, Iso2Stop
<1>6. Iso20Inv'
  <2>1. Iso20Auth' /\ Iso20Place' /\ Iso20Path'
    BY DEF Iso20Inv, Iso20Auth, Iso20Place, Iso20Path
  <2>2. Iso20Stop' /\ Iso20Told' /\ Iso20Again' /\ Iso20Ends'
    BY DEF Iso20Inv, Iso20Stop, Iso20Told, Iso20Again, Iso20Ends
  <2> QED
    BY <2>1, <2>2 DEF Iso20Inv
<1> QED
  BY <1>2, <1>3, <1>4, <1>5, <1>6, <1>8

-----------------------------------------------------------------------------
(* The SECC's steps.                                                         *)

\* What a step of the SECC leaves of the types.
SeccTyped ==
  CoreTyped' /\ se' \in SeFields /\ UNCHANGED << settings, ev >>
  /\ protocol' \in [Ends -> Protocols \union { "UNKNOWN" }]

\* What a step of the SECC may do with the energy, and with being there.
SeccMoves ==
  /\ SeccEnergy /\ SeccRuns
  /\ run'["evcc"] = run["evcc"] /\ protocol'["evcc"] = protocol["evcc"]

\* A request out of sequence ends the session, and nothing else changes.
LEMMA OutOfSequenceStep ==
  ASSUME Inv, NEW accepted, OutOfSequence(accepted), UNCHANGED settings,
         settings.quirks = {} /\ EvccRuns => E \in accepted
  PROVE  SeccTyped /\ IInv' /\ SeccMoves
<1>1. /\ Requested /\ SeccRuns /\ SeccStops(FALSE)
      /\ Responds(wire.name, "FAILED_SEQUENCE_ERROR", { "finished" }, S, state["secc"].marks)
      /\ UNCHANGED << protocol, ev, se >>
  BY OutOfSequenceDoes DEF Inv, Typed
<1>2. \E code : SeccAnswers(wire.name, code)
  BY <1>1 DEF SeccAnswers
<1>3. CoreTyped' /\ WireInv' /\ EndInv' /\ CarInv' /\ E' = E
  BY <1>1, <1>2, SeccFrame DEF Inv, Typed, IInv
<1>4. /\ S' = S /\ state'["secc"].marks = state["secc"].marks /\ ~ Requested' /\ ~ Granted'
      /\ ~ SeccRuns' /\ (EvccRuns' <=> EvccRuns) /\ success'["secc"] = FALSE
  BY <1>1 DEF Responds, SeccStops, Requested, Granted, SeccRuns, EvccRuns
<1>5. ProtocolInv'
  BY <1>1, <1>3, <1>4 DEF Inv, IInv, ProtocolInv, Speaks
<1>10. DinTurn' /\ Iso2Turn' /\ Iso20Turn'
  BY <1>4, NobodysTurn DEF Orderly
<1>11. NoneRefused'
  <2>1. EvccRuns => settings.quirks # {}
    BY OutOfSequenceDoes DEF Inv, Typed, IInv, WireInv, Requested
  <2> QED
    BY <1>1, <2>1 DEF NoneRefused, Responds
<1> USE <1>1, <1>3, <1>4, <1>10 DEF Inv, IInv, Stopping, SeccMarked, Off, Speaks
<1>6. DinInv'
  BY DEF DinInv, DinAuth, DinPath, DinStop
<1>7. Iso2Inv'
  BY DEF Iso2Inv, Iso2Auth, Iso2Path, Iso2Stop
<1>8. Iso20Inv'
  <2>1. Iso20Auth' /\ Iso20Place' /\ Iso20Path'
    BY DEF Iso20Inv, Iso20Auth, Iso20Place, Iso20Path
  <2>2. Iso20Stop' /\ Iso20Told' /\ Iso20Again' /\ Iso20Ends'
    BY DEF Iso20Inv, Iso20Stop, Iso20Told, Iso20Again, Iso20Ends
  <2> QED
    BY <2>1, <2>2 DEF Iso20Inv
<1>9. SeccMoves
  BY <1>1 DEF SeccMoves, SeccEnergy, SeccStops
<1> QED
  BY <1>3, <1>5, <1>6, <1>7, <1>8, <1>9, <1>11 DEF SeccTyped, Typed

\* The SECC's side of the handshake.
LEMMA SeccHandshake ==
  ASSUME Inv, SeccSupportedAppProtocol
  PROVE  SeccTyped /\ IInv' /\ SeccMoves
<1> DEFINE I == { i \in DOMAIN settings.offered : settings.offered[i] \in settings.supported }
           p == settings.offered[CHOOSE i \in I : \A j \in I : i <= j]
<1>1. /\ Request("SupportedAppProtocol") /\ S = "SupportedAppProtocol"
      /\ UNCHANGED << settings, ev, se >>
      /\ \/ Refuse("SupportedAppProtocol") /\ UNCHANGED protocol
         \/ /\ GoOn("SupportedAppProtocol", { p }, "SessionSetup")
            /\ protocol' = [protocol EXCEPT !["secc"] = p]
            /\ I # {}
  BY DEF SeccSupportedAppProtocol, S
<1>2. I # {} => p \in Protocols
  <2>1. SUFFICES ASSUME I # {}
                 PROVE  p \in Protocols
    OBVIOUS
  <2>2. Setting(settings)
    BY SettingsAssumption DEF Inv, Typed
  <2>3. settings.offered \in Seq(Protocols) /\ I \subseteq 1..Len(settings.offered)
    BY <2>2 DEF Setting
  <2>4. PICK m \in I : \A j \in I : m <= j
    <3>1. I \subseteq Nat
      BY <2>3
    <3> DEFINE R == OpToRel(<, Nat)
    <3> HIDE DEF I
    <3>2. PICK m \in I : \A j \in I : ~ (<< j, m >> \in R)
      BY <2>1, <3>1, NatLessThanWellFounded, WFMin
    <3>3. \A j \in I : ~ (j < m)
      BY <3>1, <3>2 DEF OpToRel
    <3> QED
      BY <3>1, <3>3
  <2> QED
    BY <2>3, <2>4
<1> HIDE DEF p, I
<1>3. /\ Requested /\ SeccRuns /\ wire.name = "SupportedAppProtocol"
      /\ E = "SupportedAppProtocol"
  BY <1>1 DEF Request, Requested, SeccRuns, Inv, IInv, WireInv
<1>4. /\ Speaks("UNKNOWN") /\ protocol["evcc"] = "UNKNOWN"
      /\ Off /\ ~ ev.enabled /\ ~ ev.complete /\ ev.stop = "none" /\ ~ ev.renegotiating
  BY <1>1, <1>3 DEF Inv, Typed, IInv, ProtocolInv, Speaks, Ends, Protocols, Off, DinStates,
       Iso2States, Iso20States
<1>5. CASE Refuse("SupportedAppProtocol") /\ UNCHANGED protocol
  <2>1. Finishes("SupportedAppProtocol", "FAILED", FALSE)
    BY <1>5, SeccDoes, NamesAre DEF Inv, Typed
  <2>2. CoreTyped' /\ WireInv' /\ EndInv' /\ CarInv' /\ E' = E
    <3>1. SeccServed("SupportedAppProtocol")
      BY <2>1 DEF SeccServed, SeccAnswers, Finishes
    <3> QED
      BY <1>1, <1>3, <1>5, <3>1, SeccFrame DEF Inv, Typed, IInv, SeccServed
  <2>3. S' = S /\ ~ Granted'
    BY <1>1, <2>1 DEF Finishes, Responds, Granted
  <2>4. ProtocolInv'
    BY <1>1, <1>5, <2>2, <2>3 DEF Inv, IInv, ProtocolInv, Speaks
  <2>5. DinInv' /\ Iso2Inv' /\ Iso20Inv'
    BY <1>4, <1>5, OthersStaySilent DEF Speaks, DIN, ISO2, ISO20
  <2>6. SeccMoves
    BY <1>1, <1>3, <1>5, <2>1 DEF SeccMoves, SeccEnergy, Finishes, SeccStops
  <2>7. NoneRefused'
    BY <2>1, ServedIsNotRefused DEF NoneRefused, SeccServed, SeccAnswers, Finishes
  <2> QED
    BY <1>1, <1>5, <2>2, <2>4, <2>5, <2>6, <2>7 DEF SeccTyped, Inv, Typed, IInv
<1>6. CASE /\ GoOn("SupportedAppProtocol", { p }, "SessionSetup")
           /\ protocol' = [protocol EXCEPT !["secc"] = p]
           /\ I # {}
  <2>1. Proceeds("SupportedAppProtocol", { p }, "SessionSetup", {})
    BY <1>2, <1>6, SeccDoes, NamesAre DEF Inv, Typed, Words
  <2>2. /\ protocol' \in [Ends -> Protocols \union { "UNKNOWN" }]
        /\ protocol'["evcc"] = protocol["evcc"] /\ protocol'["secc"] = p
    BY <1>2, <1>6 DEF Inv, Typed, Ends
  <2>3. CoreTyped' /\ WireInv' /\ EndInv' /\ CarInv' /\ E' = E
    BY <1>1, <1>3, <2>1, <2>2, SeccFrame DEF Inv, Typed, IInv, SeccAnswers, Proceeds
  <2>4. /\ S' = "SessionSetup" /\ ~ Requested' /\ RunsOn /\ state'["secc"].marks = {}
        /\ Granted' => wire'.info = { p }
    BY <2>1 DEF Proceeds, Responds, Granted, Requested, EvccRuns
  <2>5. ProtocolInv'
    BY <1>1, <1>2, <1>3, <1>4, <1>6, <2>2, <2>3, <2>4
       DEF ProtocolInv, Speaks, Protocols, DIN, ISO2, ISO20, DinStates, Iso2States, Iso20States
  <2>6. ~ success'["secc"]
    BY <1>3, <2>4 DEF Inv, IInv, EndInv, RunsOn
  <2>11. DinTurn' /\ Iso2Turn' /\ Iso20Turn'
    <3>1. /\ << E, S >>' \in DinNext /\ << E, S >>' \in Iso2Next /\ << E, S >>' \in Iso20Next
          /\ ~ Answered("ServiceDiscovery")'
      BY <1>3, <2>3, <2>4 DEF DinNext, Iso2Next, Iso20Next, Answered
    <3> QED
      BY <1>1, <1>4, <2>4, <3>1 DEF DinTurn, DinLeads, Iso2Turn, Iso2Leads, Iso20Turn, Iso20Leads
  <2>12. NoneRefused'
    BY <2>1, ServedIsNotRefused DEF NoneRefused, SeccServed, SeccAnswers, Proceeds
  <2> USE <1>1, <1>3, <1>4, <2>3, <2>4, <2>6, <2>11 DEF Off, Stopping, SeccMarked
  <2>7. DinInv'
    BY DEF DinInv, DinAuth, DinPath, DinStop, GrantedV1
  <2>8. Iso2Inv'
    BY DEF Iso2Inv, Iso2Auth, Iso2Path, Iso2Stop, GrantedV1, ChargesV1
  <2>9. Iso20Inv'
    BY DEF Iso20Inv, Iso20Auth, Iso20Place, Iso20Path, Iso20Stop, Iso20Told, Iso20Again,
         Iso20Ends, Judged20, Charges20, Before20
  <2>10. SeccMoves
    BY <2>2, <2>4 DEF SeccMoves, SeccEnergy, RunsOn
  <2> QED
    BY <2>2, <2>5, <2>7, <2>8, <2>9, <2>10, <2>12 DEF SeccTyped, Inv, Typed, IInv
<1> QED
  BY <1>1, <1>5, <1>6

\* Whatever the SECC does with what it receives.
LEMMA SeccStep ==
  ASSUME Inv, SeccHandles
  PROVE  SeccTyped /\ IInv' /\ SeccMoves
<1>1. ASSUME SeccDin!Next
      PROVE  SeccTyped /\ IInv' /\ SeccMoves
  <2>1. Speaks(DIN) /\ UNCHANGED << settings, protocol, ev >> /\ S \in DinStates
    BY <1>1 DEF SeccDin!Next, Speaks, Inv, IInv, ProtocolInv, SeccDin!DIN, DIN
  <2>2. CASE SeccDin!OutOfSequence(SeccDin!Accepted)
    <3>1. OutOfSequence(SeccDin!Accepted)
      BY <2>2, SeccDinSame
    <3>2. settings.quirks = {} /\ EvccRuns => E \in SeccDin!Accepted
      BY <2>1, <3>1, DinAccepts, OutOfSequenceDoes DEF Inv, Typed, IInv, DinInv, DinTurn, Orderly
    <3> QED
      BY <2>1, <3>1, <3>2, OutOfSequenceStep
  <2>3. CASE SeccDin!Handle
    <3>1. /\ CoreTyped' /\ WireInv' /\ EndInv' /\ CarInv' /\ E' = E
          /\ se' \in SeFields /\ S' \in DinStates /\ E # "SupportedAppProtocol" /\ DinInv'
          /\ SeccEnergy /\ SeccRuns /\ run'["evcc"] = run["evcc"]
          /\ SeccServed(wire.name) \/ Fails("secc")
      BY <2>1, <2>3, DinSeccStep DEF Inv, Typed, IInv
    <3>2. Iso2Inv' /\ Iso20Inv'
      BY <2>1, OthersStaySilent DEF Speaks, DIN, ISO2, ISO20
    <3>3. ProtocolInv'
      BY <2>1, <3>1 DEF Inv, IInv, ProtocolInv, Speaks, DIN, ISO2, ISO20
    <3>4. NoneRefused'
      BY <3>1, ServedIsNotRefused DEF NoneRefused
    <3> QED
      BY <2>1, <3>1, <3>2, <3>3, <3>4 DEF SeccTyped, SeccMoves, Inv, Typed, IInv
  <2> QED
    BY <1>1, <2>2, <2>3 DEF SeccDin!Next
<1>2. ASSUME Secc2!Next
      PROVE  SeccTyped /\ IInv' /\ SeccMoves
  <2>1. Speaks(ISO2) /\ UNCHANGED << settings, protocol, ev >> /\ S \in Iso2States
    BY <1>2 DEF Secc2!Next, Speaks, Inv, IInv, ProtocolInv, Secc2!ISO2, ISO2
  <2>2. CASE Secc2!OutOfSequence(Secc2!Accepted)
    <3>1. OutOfSequence(Secc2!Accepted)
      BY <2>2, Secc2Same
    <3>2. settings.quirks = {} /\ EvccRuns => E \in Secc2!Accepted
      BY <2>1, <3>1, Iso2Accepts, OutOfSequenceDoes DEF Inv, Typed, IInv, Iso2Inv, Iso2Turn, Orderly
    <3> QED
      BY <2>1, <3>1, <3>2, OutOfSequenceStep
  <2>3. CASE Secc2!Handle
    <3>1. /\ CoreTyped' /\ WireInv' /\ EndInv' /\ CarInv' /\ E' = E
          /\ se' \in SeFields /\ S' \in Iso2States /\ E # "SupportedAppProtocol" /\ Iso2Inv'
          /\ SeccEnergy /\ SeccRuns /\ run'["evcc"] = run["evcc"]
          /\ SeccServed(wire.name) \/ Fails("secc")
      BY <2>1, <2>3, Iso2SeccStep DEF Inv, Typed, IInv
    <3>2. DinInv' /\ Iso20Inv'
      BY <2>1, OthersStaySilent DEF Speaks, DIN, ISO2, ISO20
    <3>3. ProtocolInv'
      BY <2>1, <3>1 DEF Inv, IInv, ProtocolInv, Speaks, DIN, ISO2, ISO20
    <3>4. NoneRefused'
      BY <3>1, ServedIsNotRefused DEF NoneRefused
    <3> QED
      BY <2>1, <3>1, <3>2, <3>3, <3>4 DEF SeccTyped, SeccMoves, Inv, Typed, IInv
  <2> QED
    BY <1>2, <2>2, <2>3 DEF Secc2!Next
<1>3. ASSUME Secc20!Next
      PROVE  SeccTyped /\ IInv' /\ SeccMoves
  <2>1. Speaks(ISO20) /\ UNCHANGED << settings, protocol, ev >> /\ S \in Iso20States
    BY <1>3 DEF Secc20!Next, Speaks, Inv, IInv, ProtocolInv, Secc20!ISO20, ISO20
  <2>2. CASE Secc20!OutOfSequence(Secc20!Accepted)
    <3>1. OutOfSequence(Secc20!Accepted)
      BY <2>2, Secc20Same
    <3>2. settings.quirks = {} /\ EvccRuns => E \in Secc20!Accepted
      BY <2>1, <3>1, Iso20Accepts, OutOfSequenceDoes DEF Inv, Typed, IInv, Iso20Inv, Iso20Turn,
          Orderly
    <3> QED
      BY <2>1, <3>1, <3>2, OutOfSequenceStep
  <2>3. CASE Secc20!Handle
    <3>1. /\ CoreTyped' /\ WireInv' /\ EndInv' /\ CarInv' /\ E' = E
          /\ se' \in SeFields /\ S' \in Iso20States /\ E # "SupportedAppProtocol" /\ Iso20Inv'
          /\ SeccEnergy /\ SeccRuns /\ run'["evcc"] = run["evcc"]
          /\ SeccServed(wire.name) \/ Fails("secc")
      BY <2>1, <2>3, Iso20SeccStep DEF Inv, Typed, IInv
    <3>2. DinInv' /\ Iso2Inv'
      BY <2>1, OthersStaySilent DEF Speaks, DIN, ISO2, ISO20
    <3>3. ProtocolInv'
      BY <2>1, <3>1 DEF Inv, IInv, ProtocolInv, Speaks, DIN, ISO2, ISO20
    <3>4. NoneRefused'
      BY <3>1, ServedIsNotRefused DEF NoneRefused
    <3> QED
      BY <2>1, <3>1, <3>2, <3>3, <3>4 DEF SeccTyped, SeccMoves, Inv, Typed, IInv
  <2> QED
    BY <1>3, <2>2, <2>3 DEF Secc20!Next
<1> QED
  BY <1>1, <1>2, <1>3, SeccHandshake DEF SeccHandles

-----------------------------------------------------------------------------
(* The EVCC's steps.                                                         *)

\* What a step of the EVCC leaves of the types.
EvccTyped ==
  CoreTyped' /\ ev' \in EvFields /\ UNCHANGED << settings, se >>
  /\ protocol' \in [Ends -> Protocols \union { "UNKNOWN" }]

\* What a step of the EVCC may do with the energy, and with being there.
EvccMovesOn ==
  /\ EvccRuns /\ run'["secc"] = run["secc"]
  /\ \/ ev' = ev /\ protocol["evcc"] \in { "UNKNOWN", protocol'["evcc"] }
     \/ EvccEnergy /\ protocol' = protocol /\ protocol["evcc"] = protocol["secc"]

\* The EVCC's side of the handshake: it takes over the SECC's choice.
LEMMA EvccHandshake ==
  ASSUME Inv, EvccSupportedAppProtocol
  PROVE  EvccTyped /\ IInv' /\ EvccMovesOn
<1>1. /\ Granted /\ EvccRuns /\ E = "SupportedAppProtocol"
      /\ UNCHANGED << settings, ev, se >>
  BY DEF EvccSupportedAppProtocol, Response, Granted, EvccRuns, E
<1>2. /\ wire.info = { protocol["secc"] } /\ ~ Speaks("UNKNOWN")
      /\ protocol["evcc"] = "UNKNOWN" /\ ~ ev.enabled /\ ~ ev.complete /\ ev.stop = "none"
      /\ ~ ev.renegotiating
  BY <1>1 DEF Inv, IInv, ProtocolInv
<1>3. /\ protocol' = [protocol EXCEPT !["evcc"] = protocol["secc"]]
      /\ Ask("SessionSetup", {})
  BY <1>2 DEF EvccSupportedAppProtocol
<1>4. Asks("SessionSetup", {}, {}, NoMessage)
  BY <1>3, EvccDoes, NamesAre, WordsAre DEF Inv, Typed
<1>5. /\ protocol' \in [Ends -> Protocols \union { "UNKNOWN" }]
      /\ protocol'["evcc"] = protocol["secc"] /\ protocol'["secc"] = protocol["secc"]
  BY <1>3 DEF Inv, Typed, Ends
<1>6. /\ S' = S /\ state'["secc"] = state["secc"] /\ E' = "SessionSetup" /\ RunsOn
      /\ ~ Granted' /\ (Requested' => wire'.info = {} /\ wire'.name = "SessionSetup")
      /\ CoreTyped'
  BY <1>4 DEF Asks, S, Granted, Requested, SeccRuns
<1>7. WireInv' /\ EndInv'
  BY <1>1, <1>4, <1>6 DEF Inv, IInv, WireInv, EndInv, Asks, RunsOn, Granted, Requested,
       SeccRuns, EvccRuns, NoMessage, Message
<1>8. ProtocolInv'
  BY <1>1, <1>2, <1>5, <1>6 DEF Inv, Typed, IInv, ProtocolInv, Speaks
<1>9. CarInv'
  BY <1>1, <1>2, <1>6 DEF Inv, IInv, CarInv, CarEnabled, CarTimed, PowerStates, TimedPhases, DIN
<1>14. DinTurn' /\ Iso2Turn' /\ Iso20Turn'
  <2>1. /\ Orderly' => Orderly /\ S' = S
        /\ wire'.kind # "res" /\ E' # "PowerDelivery" /\ E' # "DCPreCharge"
    BY <1>4, <1>6, AskTurn, <1>1 DEF Asks, SeccRuns
  <2>2. ASSUME Orderly
        PROVE  S = "SessionSetup"
    <3>1. \/ Speaks(DIN) /\ DinLeads
          \/ Speaks(ISO2) /\ Iso2Leads
          \/ Speaks(ISO20) /\ Iso20Leads
      BY <1>1, <1>2, <2>2
         DEF Inv, Typed, IInv, DinInv, DinTurn, Iso2Inv, Iso2Turn, Iso20Inv, Iso20Turn, Granted,
           Speaks, Protocols, Ends
    <3> QED
      BY <1>1, <3>1 DEF DinLeads, DinNext, Iso2Leads, Iso2Next, Iso20Leads, Iso20Next, Advances
  <2> QED
    BY <1>1, <1>2, <1>6, <2>1, <2>2
       DEF DinTurn, DinFits, Iso2Turn, Iso2Fits, Iso20Turn, Iso20Fits
<1>15. NoneRefused'
  BY <1>4 DEF NoneRefused, Asks
<1> USE <1>1, <1>2, <1>5, <1>6, <1>14 DEF Inv, IInv, Off, Stopping, SeccMarked, Speaks, RunsOn, SeccRuns,
          EvccRuns
<1>10. DinInv'
  BY DEF DinInv, DinAuth, DinPath, DinStop
<1>11. Iso2Inv'
  BY DEF Iso2Inv, Iso2Auth, Iso2Path, Iso2Stop
<1>12. Iso20Inv'
  BY DEF Iso20Inv, Iso20Auth, Iso20Place, Iso20Path, Iso20Stop, Iso20Told, Iso20Again,
         Iso20Ends, Judged20, Charges20
<1>13. EvccMovesOn
  BY DEF EvccMovesOn
<1> QED
  BY <1>7, <1>8, <1>9, <1>10, <1>11, <1>12, <1>13, <1>15 DEF EvccTyped, Typed

\* A response that is refused ends the session, and the last request is sent
\* once more.
LEMMA RejectsStep ==
  ASSUME Inv, Rejects
  PROVE  EvccTyped /\ IInv' /\ EvccMovesOn
<1>1. GivesUp /\ UNCHANGED << settings, protocol, ev, se >>
  BY EvccDoes DEF Rejects, Inv, Typed
<1>2. /\ CoreTyped' /\ UNCHANGED state /\ E' = E /\ S' = S
      /\ ~ EvccRuns' /\ ~ success'["evcc"]
      /\ run'["secc"] = run["secc"] /\ success'["secc"] = success["secc"]
  BY <1>1 DEF GivesUp, Leaves, EvccStops, E, S, EvccRuns
<1>3. /\ ~ Granted'
      /\ Requested' => /\ SeccRuns /\ wire'.name = E /\ wire'.code = "OK"
                       /\ wire'.info \subseteq { "finished" } /\ E # "PowerDelivery"
  BY <1>1 DEF GivesUp, Leaves, Inv, IInv, WireInv, Granted, Requested, NoMessage, Message
<1>4. WireInv' /\ EndInv'
  BY <1>1, <1>2, <1>3 DEF Inv, IInv, WireInv, EndInv, SeccRuns, EvccRuns, GivesUp, Leaves,
       NoMessage, Message, Granted, Requested
<1>5. ProtocolInv' /\ CarInv'
  BY <1>1, <1>2, <1>3 DEF Inv, IInv, ProtocolInv, CarInv, CarEnabled, CarTimed, Speaks
<1>10. DinTurn' /\ Iso2Turn' /\ Iso20Turn'
  BY <1>2, NobodysTurn DEF Orderly
<1>11. NoneRefused'
  BY <1>1 DEF GivesUp, Leaves, Inv, IInv, WireInv, NoneRefused, NoMessage, Message
<1> USE <1>1, <1>2, <1>3, <1>10 DEF Inv, IInv, Off, Stopping, SeccMarked, Speaks, SeccRuns, EvccRuns
<1>6. DinInv'
  BY DEF DinInv, DinAuth, DinPath, DinStop
<1>7. Iso2Inv'
  BY DEF Iso2Inv, Iso2Auth, Iso2Path, Iso2Stop
<1>8. Iso20Inv'
  <2>1. Iso20Auth' /\ Iso20Place' /\ Iso20Path'
    BY DEF Iso20Inv, Iso20Auth, Iso20Place, Iso20Path
  <2>2. Iso20Stop' /\ Iso20Told' /\ Iso20Again' /\ Iso20Ends'
    BY DEF Iso20Inv, Iso20Stop, Iso20Told, Iso20Again, Iso20Ends
  <2> QED
    BY <2>1, <2>2 DEF Iso20Inv
<1>9. EvccMovesOn
  <2>1. EvccRuns
    BY DEF Rejects, EvccRuns
  <2> QED
    BY <2>1 DEF EvccMovesOn
<1> QED
  BY <1>4, <1>5, <1>6, <1>7, <1>8, <1>9, <1>11 DEF EvccTyped, Typed

\* Whatever the EVCC does with what it receives.
LEMMA EvccStep ==
  ASSUME Inv, EvccHandles
  PROVE  EvccTyped /\ IInv' /\ EvccMovesOn
<1>1. ASSUME EvccDin!Next
      PROVE  EvccTyped /\ IInv' /\ EvccMovesOn
  <2>1. /\ protocol["evcc"] = DIN /\ Speaks(DIN) /\ EvccDin!Handle
        /\ UNCHANGED << settings, protocol, se >>
    BY <1>1 DEF EvccDin!Next, Speaks, Inv, IInv, ProtocolInv, EvccDin!DIN, DIN, ISO2, ISO20
  <2>2. /\ CoreTyped' /\ WireInv' /\ EndInv' /\ CarInv' /\ S' = S
        /\ ev' \in EvFields /\ E' # "SupportedAppProtocol" /\ DinInv'
        /\ EvccEnergy /\ EvccRuns /\ run'["secc"] = run["secc"] /\ wire'.kind # "res"
    BY <2>1, DinEvccStep DEF Inv, Typed, IInv
  <2>3. Iso2Inv' /\ Iso20Inv'
    BY <2>1, OthersStaySilent DEF Speaks, DIN, ISO2, ISO20
  <2>4. ProtocolInv'
    BY <2>1, <2>2 DEF Inv, IInv, ProtocolInv, Speaks, DIN, ISO2, ISO20
  <2>5. NoneRefused'
    BY <2>2 DEF NoneRefused, WireInv
  <2> QED
    BY <2>1, <2>2, <2>3, <2>4, <2>5 DEF EvccTyped, EvccMovesOn, Speaks, Inv, Typed, IInv
<1>2. ASSUME Evcc2!Next
      PROVE  EvccTyped /\ IInv' /\ EvccMovesOn
  <2>1. /\ protocol["evcc"] = ISO2 /\ Speaks(ISO2) /\ Evcc2!Handle
        /\ UNCHANGED << settings, protocol, se >>
    BY <1>2 DEF Evcc2!Next, Speaks, Inv, IInv, ProtocolInv, Evcc2!ISO2, DIN, ISO2, ISO20
  <2>2. /\ CoreTyped' /\ WireInv' /\ EndInv' /\ CarInv' /\ S' = S
        /\ ev' \in EvFields /\ E' # "SupportedAppProtocol" /\ Iso2Inv'
        /\ EvccEnergy /\ EvccRuns /\ run'["secc"] = run["secc"] /\ wire'.kind # "res"
    BY <2>1, Iso2EvccStep DEF Inv, Typed, IInv
  <2>3. DinInv' /\ Iso20Inv'
    BY <2>1, OthersStaySilent DEF Speaks, DIN, ISO2, ISO20
  <2>4. ProtocolInv'
    BY <2>1, <2>2 DEF Inv, IInv, ProtocolInv, Speaks, DIN, ISO2, ISO20
  <2>5. NoneRefused'
    BY <2>2 DEF NoneRefused, WireInv
  <2> QED
    BY <2>1, <2>2, <2>3, <2>4, <2>5 DEF EvccTyped, EvccMovesOn, Speaks, Inv, Typed, IInv
<1>3. ASSUME Evcc20!Next
      PROVE  EvccTyped /\ IInv' /\ EvccMovesOn
  <2>1. /\ protocol["evcc"] = ISO20 /\ Speaks(ISO20) /\ Evcc20!Handle
        /\ UNCHANGED << settings, protocol, se >>
    BY <1>3 DEF Evcc20!Next, Speaks, Inv, IInv, ProtocolInv, Evcc20!ISO20, DIN, ISO2, ISO20
  <2>2. /\ CoreTyped' /\ WireInv' /\ EndInv' /\ CarInv' /\ S' = S
        /\ ev' \in EvFields /\ E' # "SupportedAppProtocol" /\ Iso20Inv'
        /\ EvccEnergy /\ EvccRuns /\ run'["secc"] = run["secc"] /\ wire'.kind # "res"
    BY <2>1, Iso20EvccStep DEF Inv, Typed, IInv
  <2>3. DinInv' /\ Iso2Inv'
    BY <2>1, OthersStaySilent DEF Speaks, DIN, ISO2, ISO20
  <2>4. ProtocolInv'
    BY <2>1, <2>2 DEF Inv, IInv, ProtocolInv, Speaks, DIN, ISO2, ISO20
  <2>5. NoneRefused'
    BY <2>2 DEF NoneRefused, WireInv
  <2> QED
    BY <2>1, <2>2, <2>3, <2>4, <2>5 DEF EvccTyped, EvccMovesOn, Speaks, Inv, Typed, IInv
<1> QED
  BY <1>1, <1>2, <1>3, EvccHandshake, RejectsStep DEF EvccHandles

-----------------------------------------------------------------------------
(* The invariant.                                                            *)

\* The shipped EV controller's counters stay within their bounds.
LEMMA SimTyped ==
  ASSUME sim \in Counters, SimEVController
  PROVE  sim' \in Counters
<1>1. Charged(sim) \in Counters /\ Welded(sim) \in Counters
  <2>1. sim.charges \in Nat /\ sim.weldings \in 0..3
    BY DEF Counters
  <2>2. /\ (IF sim.charges = 0 THEN 0 ELSE sim.charges - 1) \in Nat
        /\ (IF sim.weldings = 3 THEN 3 ELSE sim.weldings + 1) \in 0..3
    BY <2>1
  <2> QED
    BY <2>2 DEF Charged, Welded, Counters
<1>3. \A s \in Counters : Precharged(s) \in Counters
  <2> SUFFICES ASSUME NEW s \in Counters
               PROVE  Precharged(s) \in Counters
    OBVIOUS
  <2>1. s.precharges \in 0..5
    BY DEF Counters
  <2>2. (IF s.precharges = 5 THEN 5 ELSE s.precharges + 1) \in 0..5
    BY <2>1
  <2> QED
    BY <2>2 DEF Precharged, Counters
<1>2. \/ sim' = sim \/ sim' = Charged(sim) \/ sim' = Precharged(sim) \/ sim' = Welded(sim)
      \/ sim' = Precharged(Precharged(sim))
  BY DEF SimEVController, Loop, Delivered, Precharge, Precharge20, Weld, Weld20
<1> QED
  BY <1>1, <1>2, <1>3

\* Every step keeps the invariant.
LEMMA InvStep ==
  ASSUME Inv, Next
  PROVE  Inv'
<1>1. CASE SeccServes
  BY <1>1, SeccStep DEF SeccServes, SeccTyped, SimEVSEController, Inv, Typed
<1>2. CASE EvccServes
  BY <1>2, EvccStep, SimTyped DEF EvccServes, EvccTyped, Inv, Typed
<1>3. CASE Elapses
  <2>1. ev' \in EvFields /\ ev' = [ev EXCEPT !.elapsed = TRUE]
    BY <1>3 DEF Elapses, TimeElapses, Inv, Typed, EvFields
  <2>2. CoreTyped' /\ IInv'
    BY <1>3, <2>1, QuietStep DEF Elapses, TimeElapses, SeccRuns, EvccRuns, Inv, Typed, IInv,
         WireInv, CoreTyped, EvFields
  <2> QED
    BY <1>3, <2>1, <2>2 DEF Elapses, TimeElapses, Inv, Typed
<1>4. ASSUME NEW e \in Ends, IsLate(e) \/ Notices(e)
      PROVE  Inv'
  <2>1. /\ UNCHANGED << settings, wire, state, success, protocol, ev, se, sim >>
        /\ run' = [run EXCEPT ![e] = "stopping"] /\ ~ Incoming(e)
    BY <1>4 DEF IsLate, Notices, TimesOut, PeerCloses
  <2>2. CoreTyped' /\ IInv'
    BY <2>1, QuietStep DEF SeccRuns, EvccRuns, Incoming, Requested, Inv, Typed, IInv, WireInv,
         CoreTyped, Ends
  <2> QED
    BY <2>1, <2>2 DEF Inv, Typed
<1>5. ASSUME NEW e \in Ends, Closes(e)
      PROVE  Inv'
  <2>1. /\ UNCHANGED << settings, wire, state, success, protocol, se, sim >>
        /\ run[e] = "stopping" /\ run' = [run EXCEPT ![e] = "closed"]
        /\ ev' = IF e = "evcc" THEN [ev EXCEPT !.enabled = FALSE] ELSE ev
    BY <1>5 DEF Closes, Close
  <2>2. /\ ev' \in EvFields /\ (ev'.enabled => ev.enabled)
        /\ \A f \in DOMAIN ev \ { "enabled", "elapsed" } : ev'[f] = ev[f]
        /\ EvccRuns' => ev'.enabled = ev.enabled
    BY <2>1 DEF Inv, Typed, CoreTyped, EvFields, EvccRuns, Ends
  <2>3. CoreTyped' /\ IInv'
    BY <2>1, <2>2, QuietStep DEF SeccRuns, EvccRuns, Requested, Inv, Typed, IInv, WireInv,
         CoreTyped, Ends
  <2> QED
    BY <2>1, <2>2, <2>3 DEF Inv, Typed
<1> QED
  BY <1>1, <1>2, <1>3, <1>4, <1>5 DEF Next

\* The invariant holds in every state of every session.
THEOREM SessionInvariant == Spec => []Inv
<1>1. Init => Inv
  BY InitInv
<1>2. Inv /\ [Next]_sessionVars => Inv'
  <2>1. CASE Next
    BY <2>1, InvStep
  <2>2. ASSUME Inv, UNCHANGED sessionVars
        PROVE  Inv'
    <3>1. /\ UNCHANGED << settings, wire, state, run, success, protocol, ev, se, sim >>
          /\ SeccRuns' = SeccRuns /\ EvccRuns' = EvccRuns
      BY <2>2 DEF sessionVars, SeccRuns, EvccRuns
    <3>2. CoreTyped' /\ IInv'
      BY <2>2, <3>1, QuietStep DEF Inv, Typed, IInv, WireInv, CoreTyped
    <3> QED
      BY <2>2, <3>1, <3>2 DEF Inv, Typed
  <2> QED
    BY <2>1, <2>2
<1> QED
  BY <1>1, <1>2, PTL DEF Spec

-----------------------------------------------------------------------------
(* The order in which energy is handed over: EnergyHandover is implemented.  *)

\* Whether the car has left, as ChargingSession maps it, and who has.
CarLeft == ~ EvccRuns \/ (protocol["evcc"] = DIN /\ "quits" \in settings.quirks)
Left == (IF CarLeft THEN { "car" } ELSE {}) \union (IF ~ SeccRuns THEN { "station" } ELSE {})

\* Left tells who has left.
LEMMA LeftTells ==
  /\ (CarLeft <=> "car" \in Left) /\ (~ SeccRuns' <=> "station" \in Left')
  /\ CarLeft' \in BOOLEAN
  /\ ~ SeccRuns => Left # {}
BY DEF Left, CarLeft

\* One end leaves at a time, and stays away.
LEMMA OneLeaves ==
  /\ (CarLeft' <=> CarLeft) /\ (SeccRuns' <=> SeccRuns) => Left' = Left
  /\ (CarLeft' <=> CarLeft) /\ ~ SeccRuns' => Left' = Left \union { "station" }
  /\ CarLeft' /\ (SeccRuns' <=> SeccRuns) => Left' = Left \union { "car" }
BY DEF Left

\* A step of the SECC is one EnergyHandover allows the station.
LEMMA StationKeepsOrder ==
  ASSUME Inv, SeccTyped, SeccMoves
  PROVE  Handover!Next
<1>1. CarLeft' <=> CarLeft
  BY DEF SeccTyped, SeccMoves, CarLeft, EvccRuns
<1>2. /\ Left' = IF SeccRuns' THEN Left ELSE Left \union { "station" }
      /\ RunsOn => SeccRuns'
  BY <1>1, OneLeaves DEF SeccMoves, RunsOn, SeccRuns
<1>3. /\ ev.enabled \in BOOLEAN /\ ev' = ev
      /\ se.hlc \in BOOLEAN /\ se'.hlc \in BOOLEAN
      /\ CarReady => ev.enabled \/ "car" \in Left
  BY LeftTells DEF SeccTyped, Inv, Typed, EvFields, SeFields, CarReady, CarLeft
<1> DEFINE path == se.contactor = "closed"
<1>4. path \in BOOLEAN /\ path' \in BOOLEAN
  OBVIOUS
<1> USE <1>2, <1>3, LeftTells
<1>5. Handover!Leave /\ (SeccRuns' => Left' = Left)
  BY DEF Handover!Leave, Left, CarLeft, SeccRuns, EvccRuns
<1> USE <1>4, <1>5 DEF Left, CarLeft, SeccRuns, EvccRuns
<1>6. CASE se'.hlc = se.hlc /\ se'.contactor = se.contactor
  <2>1. Handover!GiveUp
    BY <1>6 DEF Handover!GiveUp
  <2> QED
    BY <2>1 DEF Handover!Next
<1>7. CASE CarReady /\ se'.contactor = "closed" /\ se'.hlc = se.hlc /\ RunsOn
  <2>1. Handover!ClosePath
    BY <1>7 DEF Handover!ClosePath
  <2> QED
    BY <2>1 DEF Handover!Next
<1>8. CASE /\ CarReady /\ se'.hlc
           /\ \/ se'.contactor = "closed" /\ RunsOn
              \/ se'.contactor = se.contactor /\ ~ SeccRuns'
  <2>1. Handover!Start
    BY <1>8 DEF Handover!Start
  <2> QED
    BY <2>1 DEF Handover!Next
<1>9. CASE /\ ~ se'.hlc
           /\ \/ se'.contactor = "open"
              \/ se'.contactor = se.contactor /\ ~ SeccRuns'
  <2>1. Handover!Stop
    BY <1>9 DEF Handover!Stop
  <2> QED
    BY <2>1 DEF Handover!Next
<1> QED
  BY <1>6, <1>7, <1>8, <1>9 DEF SeccMoves, SeccEnergy

\* A step of the EVCC is one EnergyHandover allows the car.
LEMMA CarKeepsOrder ==
  ASSUME Inv, EvccTyped, EvccMovesOn
  PROVE  Handover!Next
<1>1. /\ SeccRuns' <=> SeccRuns
      /\ CarLeft => CarLeft'
      /\ RunsOn /\ protocol' = protocol => (CarLeft' <=> CarLeft)
  BY DEF EvccTyped, EvccMovesOn, SeccRuns, EvccRuns, RunsOn, CarLeft, DIN
<1>2. /\ ev.enabled \in BOOLEAN /\ ev'.enabled \in BOOLEAN
      /\ se' = se
  BY DEF EvccTyped, Inv, Typed, EvFields
<1>3. Left' = IF CarLeft' THEN Left \union { "car" } ELSE Left
  BY <1>1 DEF Left
<1>4. Handover!Leave /\ ((CarLeft' <=> CarLeft) => Left' = Left)
  BY <1>1, <1>3 DEF Handover!Leave, Left, CarLeft, SeccRuns, EvccRuns
<1> USE <1>1, <1>2, <1>4 DEF Left, CarLeft, SeccRuns, EvccRuns
<1>5. CASE ev'.enabled = ev.enabled
  <2>1. Handover!GiveUp
    BY <1>5 DEF Handover!GiveUp
  <2> QED
    BY <2>1 DEF Handover!Next
<1>6. CASE ev'.enabled /\ RunsOn /\ protocol' = protocol
  <2>1. Handover!CarReady
    BY <1>6 DEF Handover!CarReady
  <2> QED
    BY <2>1 DEF Handover!Next
<1>7. CASE /\ ~ ev'.enabled /\ RunsOn /\ protocol' = protocol /\ protocol["evcc"] = protocol["secc"]
           /\ ~ se.hlc \/ ~ SeccRuns \/ (Speaks(DIN) /\ "quits" \in settings.quirks)
  <2>1. Handover!CarOff
    BY <1>7 DEF Handover!CarOff, Speaks
  <2> QED
    BY <2>1 DEF Handover!Next
<1> QED
  BY <1>5, <1>6, <1>7 DEF EvccMovesOn, EvccEnergy

\* Every step of a session is one that EnergyHandover allows, or none.
LEMMA HandoverStep ==
  ASSUME Inv, Next
  PROVE  Handover!Next \/ UNCHANGED Handover!vars
<1>1. CASE SeccServes
  BY <1>1, SeccStep, StationKeepsOrder DEF SeccServes
<1>2. CASE EvccServes
  BY <1>2, EvccStep, CarKeepsOrder DEF EvccServes
<1>3. CASE Elapses
  <2>1. UNCHANGED << settings, run, protocol, se >> /\ ev'.enabled = ev.enabled
    BY <1>3 DEF Elapses, TimeElapses, Inv, Typed, EvFields
  <2> QED
    BY <2>1 DEF Handover!vars
<1>4. ASSUME NEW e \in Ends, IsLate(e) \/ Notices(e)
      PROVE  Handover!GiveUp
  <2>1. /\ UNCHANGED << settings, protocol, ev, se >>
        /\ run' = [run EXCEPT ![e] = "stopping"] /\ run[e] = "running"
    BY <1>4 DEF IsLate, Notices, TimesOut, PeerCloses
  <2>2. run'[e] # "running" /\ \A f \in Ends \ { e } : run'[f] = run[f]
    BY <2>1 DEF Inv, Typed, CoreTyped
  <2>3. CASE e = "evcc"
    BY <2>1, <2>2, <2>3 DEF Handover!GiveUp, Handover!Leave, Ends
  <2>4. CASE e = "secc"
    BY <2>1, <2>2, <2>4 DEF Handover!GiveUp, Handover!Leave, Ends
  <2> QED
    BY <2>3, <2>4 DEF Ends
<1>5. ASSUME NEW e \in Ends, Closes(e)
      PROVE  Handover!Next
  <2>1. /\ UNCHANGED << settings, protocol, se >>
        /\ run[e] = "stopping" /\ run' = [run EXCEPT ![e] = "closed"]
        /\ ev' = IF e = "evcc" THEN [ev EXCEPT !.enabled = FALSE] ELSE ev
    BY <1>5 DEF Closes, Close
  <2>2. \A f \in Ends : run'[f] = "running" <=> run[f] = "running"
    BY <2>1 DEF Inv, Typed, CoreTyped
  <2>3. CASE e = "evcc"
    <3>1. Handover!CarOff
      BY <2>1, <2>2, <2>3 DEF Handover!CarOff, Inv, Typed, EvFields, Ends
    <3> QED
      BY <3>1 DEF Handover!Next
  <2>4. CASE e = "secc"
    <3>1. Handover!GiveUp
      BY <2>1, <2>2, <2>4 DEF Handover!GiveUp, Handover!Leave, Ends
    <3> QED
      BY <3>1 DEF Handover!Next
  <2> QED
    BY <2>3, <2>4 DEF Ends
<1> QED
  BY <1>1, <1>2, <1>3, <1>4, <1>5 DEF Next, Handover!Next

\* Over every session, in every protocol, the energy is handed over in the
\* order of EnergyHandover: ready, closed, on, off.
THEOREM HandoverIsKept == Spec => ImplementsHandover
<1>1. Init => Handover!Init
  BY DEF Init, SessionInit, Handover!Init, Ends, DIN
<1>2. Inv /\ [Next]_sessionVars => [Handover!Next]_(Handover!vars)
  <2>1. CASE UNCHANGED sessionVars
    BY <2>1 DEF sessionVars, Handover!vars
  <2> QED
    BY <2>1, HandoverStep
<1> QED
  BY <1>1, <1>2, SessionInvariant, PTL DEF Spec, ImplementsHandover, Handover!Spec

-----------------------------------------------------------------------------
(* What it implies.                                                          *)

\* The variables hold what the two sessions can hold.
THEOREM SessionTypeCorrect == Spec => []TypeOK
<1>1. Inv => TypeOK
  BY DEF Inv, Typed, CoreTyped, Messages, Codes, TypeOK
<1> QED
  BY <1>1, SessionInvariant, PTL

\* No energy before the authorization, in any of the three protocols.
THEOREM AuthorizedPower == Spec => []PowerOnlyAfterAuthorization
<1>1. Inv => PowerOnlyAfterAuthorization
  <2>1. SUFFICES ASSUME Inv, se.hlc \/ ev.enabled
                 PROVE  IF protocol["secc"] = ISO20 THEN se.judged ELSE se.granted
    BY DEF PowerOnlyAfterAuthorization
  <2>2. ~ Speaks("UNKNOWN")
    BY <2>1 DEF Inv, IInv, ProtocolInv, Speaks
  <2>3. CASE Speaks(DIN)
    BY <2>1, <2>3 DEF Inv, IInv, DinInv, DinAuth, Speaks, DIN, ISO20
  <2>4. CASE Speaks(ISO2)
    BY <2>1, <2>4 DEF Inv, IInv, Iso2Inv, Iso2Auth, Speaks, ISO2, ISO20
  <2>5. CASE Speaks(ISO20)
    BY <2>1, <2>5 DEF Inv, IInv, Iso20Inv, Iso20Auth, Speaks
  <2> QED
    BY <2>1, <2>2, <2>3, <2>4, <2>5 DEF Inv, Typed, Ends, Protocols, Speaks
<1> QED
  BY <1>1, SessionInvariant, PTL

\* The path the energy takes has been closed and, for DC, checked.
THEOREM EnergyPathIsReady == Spec => []EnergyPathReady
<1>1. Inv => EnergyPathReady
  <2>1. SUFFICES ASSUME Inv, se.hlc, SeccRuns
                 PROVE  se.contactor = "closed" /\ (~ Ac => se.insulated)
    BY DEF EnergyPathReady, SeccRuns
  <2>2. ~ Speaks("UNKNOWN")
    BY <2>1 DEF Inv, IInv, ProtocolInv
  <2>3. CASE Speaks(DIN)
    BY <2>1, <2>3 DEF Inv, IInv, DinInv, DinPath
  <2>4. CASE Speaks(ISO2)
    BY <2>1, <2>4 DEF Inv, IInv, Iso2Inv, Iso2Path, Speaks, Ac, DIN, ISO2
  <2>5. CASE Speaks(ISO20)
    BY <2>1, <2>5 DEF Inv, IInv, Iso20Inv, Iso20Path, Speaks, Ac, DIN, ISO20
  <2> QED
    BY <2>1, <2>2, <2>3, <2>4, <2>5 DEF Inv, Typed, Ends, Protocols, Speaks
<1> QED
  BY <1>1, SessionInvariant, PTL

\* What the SECC calls a success has ended the flow of energy.
THEOREM SuccessIsSafe == Spec => []GracefulStopIsSafe
<1>1. Inv => GracefulStopIsSafe
  <2>1. SUFFICES ASSUME Inv, success["secc"]
                 PROVE  Off
    BY DEF GracefulStopIsSafe, Off
  <2>2. CASE Speaks("UNKNOWN")
    BY <2>1, <2>2 DEF Inv, IInv, ProtocolInv, Off
  <2>3. CASE Speaks(DIN)
    BY <2>1, <2>3 DEF Inv, IInv, DinInv, DinPath
  <2>4. CASE Speaks(ISO2)
    BY <2>1, <2>4 DEF Inv, IInv, Iso2Inv, Iso2Path
  <2>5. CASE Speaks(ISO20)
    BY <2>1, <2>5 DEF Inv, IInv, Iso20Inv, Iso20Path
  <2> QED
    BY <2>1, <2>2, <2>3, <2>4, <2>5 DEF Inv, Typed, Ends, Protocols, Speaks
<1> QED
  BY <1>1, SessionInvariant, PTL

\* The two ends agree on a successful end.
THEOREM EndIsAgreed == Spec => []AgreedEnd
<1>1. Inv => AgreedEnd
  BY DEF Inv, IInv, EndInv, AgreedEnd
<1> QED
  BY <1>1, SessionInvariant, PTL

\* The two state machines fit, in every protocol: while the controllers behave
\* the SECC refuses no request as out of sequence, the EVCC reads the response
\* it waits for, and after the handshake both speak one protocol.
THEOREM SequenceIsAgreed == Spec => []SequenceAgreement
<1>1. Inv => SequenceAgreement
  <2>1. SUFFICES ASSUME Inv, settings.quirks = {}
                 PROVE  /\ wire.code # "FAILED_SEQUENCE_ERROR"
                        /\ wire.kind = "res" => wire.name = E
                        /\ Requested =>
                             wire.name = "SupportedAppProtocol" \/ protocol["evcc"] = protocol["secc"]
    BY DEF SequenceAgreement, Requested, E
  <2>2. wire.code # "FAILED_SEQUENCE_ERROR"
    BY <2>1 DEF Inv, IInv, NoneRefused
  <2>3. wire.kind # "none" => wire.name = E
    BY <2>1 DEF Inv, IInv, WireInv
  <2>4. protocol["evcc"] # protocol["secc"] => E = "SupportedAppProtocol"
    BY <2>1 DEF Inv, IInv, ProtocolInv
  <2> QED
    BY <2>2, <2>3, <2>4 DEF Requested
<1> QED
  BY <1>1, SessionInvariant, PTL

\* The ongoing timer measures the phase it was started in.
THEOREM TimerIsOfPhase == Spec => []TimerOfPhase
<1>1. Inv => TimerOfPhase
  BY DEF Inv, IInv, CarInv, CarTimed, TimerOfPhase, TimedPhases, E
<1> QED
  BY <1>1, SessionInvariant, PTL

==============================================================================
