-------------------------- MODULE MainWindowProofs --------------------------
(* Theorems about Simulator, for every transition table and every set of    *)
(* error messages that satisfies its assumptions, and about MainWindow,     *)
(* which drives it, for every table and every error rule, any number of     *)
(* sessions and every database behaviour.                                   *)
EXTENDS MainWindow, SequenceTheorems, TLAPS

----------------------------------------------------------------------------
(* The simulator.                                                           *)

\* The inductive invariant.  PendingErrorHalts needs EpisodeMemory (what
\* resolve_error restores is never "Error") and EpisodeMemory needs the types.
SimulatorInv == SimulatorTypeOK /\ PendingErrorHalts /\ EpisodeMemory

----------------------------------------------------------------------------
(* Lemmas about the operators the actions are built from.                   *)

\* What popping the PDA stack leaves is a shorter stack of errors.
LEMMA FrontOfStack ==
  ASSUME NEW S, NEW s \in Seq(S), s # << >>
  PROVE  /\ Front(s) \in Seq(S)
         /\ Len(Front(s)) = Len(s) - 1
<1>1. Len(s) \in Nat \ {0}
  BY EmptySeq, LenProperties
<1>2. Front(s) = SubSeq(s, 1, Len(s) - 1)
  BY DEF Front
<1>3. \A i \in 1 .. Len(s) - 1 : s[i] \in S
  BY <1>1, ElementOfSeq
<1>4. SubSeq(s, 1, Len(s) - 1) \in Seq(S)
  BY <1>1, <1>3, SubSeqProperties, SMTT(30)
<1>5. ASSUME NEW n \in Nat, \A i \in 1 .. n : s[i] \in S
      PROVE  Len(SubSeq(s, 1, n)) = n
  <2>1. Len(SubSeq(s, 1, n)) = IF 1 <= n THEN n - 1 + 1 ELSE 0
    <3>1. 1 \in Int /\ n \in Int
      OBVIOUS
    <3> QED
      BY <1>5, <3>1, SubSeqProperties
  <2> QED
    BY <2>1
<1>6. Len(SubSeq(s, 1, Len(s) - 1)) = Len(s) - 1
  <2>1. Len(s) - 1 \in Nat
    BY <1>1
  <2> QED
    BY <1>3, <1>5, <2>1
<1> QED
  BY <1>2, <1>4, <1>6

\* ... with the same errors at the same places.
LEMMA FrontElements ==
  ASSUME NEW S, NEW s \in Seq(S), s # << >>, NEW i \in 1 .. Len(s) - 1
  PROVE  Front(s)[i] = s[i]
<1>1. Len(s) \in Nat \ {0}
  BY EmptySeq, LenProperties
<1>2. Front(s) = SubSeq(s, 1, Len(s) - 1)
  BY DEF Front
<1>3. \A j \in 1 .. Len(s) - 1 : s[j] \in S
  BY <1>1, ElementOfSeq
<1>4. SubSeq(s, 1, Len(s) - 1)[i] = s[1 + i - 1]
  BY <1>1, <1>3, SubSeqProperties, SMTT(30)
<1> QED
  BY <1>2, <1>4

\* A transition taken on a caller's event leads to a state other than
\* "Error"; the one taken on error_occurred leads to "Error".
LEMMA TakesDestination ==
  ASSUME NEW s \in States, NEW e \in Events \cup {"error_occurred"},
         NEW i, Takes(i, s, e)
  PROVE  /\ Transitions[i].destination \in States
         /\ Transitions[i].source = s
         /\ Transitions[i].destination = "Error" <=> e = "error_occurred"
<1>1. i \in DOMAIN Transitions /\ Transitions[i].source = s /\ Transitions[i].trigger = e
  BY DEF Takes
<1>2. Transitions[i] \in TransitionRecord
  BY <1>1, TableAssumption
<1>3. Transitions[i].destination \in States
  BY <1>2 DEF TransitionRecord
<1> QED
  BY <1>1, <1>3, ErrorArcsAssumption, TableAssumption

\* StateMachine.trigger on a caller's event: the machine stays, or follows a
\* transition that does not lead to "Error".
LEMMA FsmTriggerEvent ==
  ASSUME NEW e \in Events, current_state \in States, FsmTrigger(e)
  PROVE  \/ UNCHANGED << current_state, last_valid_state >>
         \/ \E i \in DOMAIN Transitions :
              /\ Takes(i, current_state, e)
              /\ last_valid_state' = current_state
              /\ current_state' = Transitions[i].destination
              /\ current_state' \in States \ {"Error"}
<1>1. CASE UNCHANGED << current_state, last_valid_state >>
  BY <1>1
<1>2. CASE ~ UNCHANGED << current_state, last_valid_state >>
  <2>1. PICK i \in DOMAIN Transitions :
          /\ Takes(i, current_state, e)
          /\ last_valid_state' = current_state
          /\ current_state' = Transitions[i].destination
    BY <1>2, Zenon DEF FsmTrigger
  <2>2. current_state' \in States \ {"Error"}
    BY <2>1, TakesDestination, TableAssumption
  <2> QED
    BY <2>1, <2>2
<1> QED
  BY <1>1, <1>2

\* StateMachine.trigger("error_occurred"): nothing in "Error", to "Error" from
\* every other state, which becomes last_valid_state.
LEMMA FsmTriggerError ==
  ASSUME current_state \in States, FsmTrigger("error_occurred")
  PROVE  /\ current_state' = "Error"
         /\ last_valid_state' =
              IF current_state = "Error" THEN last_valid_state ELSE current_state
<1>1. CASE current_state = "Error"
  BY <1>1, Zenon DEF FsmTrigger
<1>2. CASE current_state # "Error"
  <2>1. \E i \in DOMAIN Transitions : Takes(i, current_state, "error_occurred")
    BY <1>2, ErrorArcsAssumption
  <2>2. PICK i \in DOMAIN Transitions :
          /\ Takes(i, current_state, "error_occurred")
          /\ last_valid_state' = current_state
          /\ current_state' = Transitions[i].destination
    BY <1>2, <2>1, Zenon DEF FsmTrigger
  <2>3. current_state' = "Error"
    BY <2>2, TakesDestination
  <2> QED
    BY <1>2, <2>2, <2>3
<1> QED
  BY <1>1, <1>2

----------------------------------------------------------------------------
(* The inductive invariant.                                                 *)

LEMMA InitInv == SimulatorInit => SimulatorInv
BY TableAssumption, BoundAssumption
   DEF SimulatorInit, SimulatorInv, SimulatorTypeOK, PendingErrorHalts, EpisodeMemory

LEMMA TriggerEventInv ==
  ASSUME SimulatorInv, NEW e \in Events, TriggerEvent(e)
  PROVE  SimulatorInv'
<1> USE DEF SimulatorInv, SimulatorTypeOK, PendingErrorHalts, EpisodeMemory
<1>0. UNCHANGED << stack, previous_state_before_error >>
  BY DEF TriggerEvent
<1>1. CASE UNCHANGED << current_state, last_valid_state >>
  BY <1>0, <1>1
<1>2. CASE ~ UNCHANGED << current_state, last_valid_state >>
  <2>1. stack = << >> /\ FsmTrigger(e)
    BY <1>2 DEF TriggerEvent
  <2>2. current_state' \in States \ {"Error"} /\ last_valid_state' = current_state
    BY <1>2, <2>1, FsmTriggerEvent, Zenon
  <2> QED
    BY <1>0, <2>1, <2>2
<1> QED
  BY <1>1, <1>2

LEMMA SimulateErrorInv ==
  ASSUME SimulatorInv, NEW m \in Messages, SimulateError(m)
  PROVE  SimulatorInv'
<1> USE DEF SimulatorInv, SimulatorTypeOK, PendingErrorHalts, EpisodeMemory
<1>1. /\ stack' \in Seq(Messages)
      /\ Len(stack') <= MaxErrors
  BY BoundAssumption DEF SimulateError
<1>2. /\ current_state' = "Error"
      /\ last_valid_state' =
           IF current_state = "Error" THEN last_valid_state ELSE current_state
  BY FsmTriggerError DEF SimulateError
<1>3. previous_state_before_error' =
        IF current_state # "Error" THEN current_state ELSE previous_state_before_error
  BY DEF SimulateError
<1> QED
  BY <1>1, <1>2, <1>3, TableAssumption

LEMMA ResolveErrorInv ==
  ASSUME SimulatorInv, ResolveError
  PROVE  SimulatorInv'
<1> USE DEF SimulatorInv, SimulatorTypeOK, PendingErrorHalts, EpisodeMemory
<1>1. /\ stack' \in Seq(Messages)
      /\ Len(stack') <= MaxErrors
      /\ stack' # << >> => stack # << >>
  BY FrontOfStack, BoundAssumption DEF ResolveError
<1>2. \/ /\ current_state = "Error" /\ stack' = << >>
         /\ current_state' = previous_state_before_error
         /\ previous_state_before_error' = NoState
      \/ UNCHANGED << current_state, previous_state_before_error >>
  BY DEF ResolveError
<1>3. UNCHANGED last_valid_state
  BY DEF ResolveError
<1> QED
  BY <1>1, <1>2, <1>3

LEMMA ResetErrorsInv ==
  ASSUME SimulatorInv, ResetErrors
  PROVE  SimulatorInv'
BY BoundAssumption DEF SimulatorInv, SimulatorTypeOK, PendingErrorHalts, EpisodeMemory, ResetErrors

LEMMA NextInv == SimulatorInv /\ [SimulatorNext]_simulatorVars => SimulatorInv'
<1> SUFFICES ASSUME SimulatorInv, [SimulatorNext]_simulatorVars
             PROVE  SimulatorInv'
  OBVIOUS
<1>1. ASSUME NEW e \in Events, TriggerEvent(e)  PROVE SimulatorInv'
  BY <1>1, TriggerEventInv
<1>2. ASSUME NEW m \in Messages, SimulateError(m)  PROVE SimulatorInv'
  BY <1>2, SimulateErrorInv
<1>3. CASE ResolveError
  BY <1>3, ResolveErrorInv
<1>4. CASE ResetErrors
  BY <1>4, ResetErrorsInv
<1>5. CASE UNCHANGED simulatorVars
  BY <1>5 DEF simulatorVars, SimulatorInv, SimulatorTypeOK, PendingErrorHalts, EpisodeMemory
<1> QED
  BY <1>1, <1>2, <1>3, <1>4, <1>5 DEF SimulatorNext

LEMMA Invariant == SimulatorSpec => []SimulatorInv
BY InitInv, NextInv, PTL DEF SimulatorSpec

\* Type correctness: every field of the simulator keeps a value of its kind,
\* whatever the table, the events and the errors.
THEOREM TypeCorrect == SimulatorSpec => []SimulatorTypeOK
<1>1. SimulatorInv => SimulatorTypeOK
  BY DEF SimulatorInv
<1> QED
  BY <1>1, Invariant, PTL

\* No error is ever pending outside "Error" (trigger_event's refusal suffices).
THEOREM PendingErrorAlwaysHalts == SimulatorSpec => []PendingErrorHalts
<1>1. SimulatorInv => PendingErrorHalts
  BY DEF SimulatorInv
<1> QED
  BY <1>1, Invariant, PTL

\* In "Error" the simulator always remembers the interrupted state, and it is
\* the one the machine itself left last.
THEOREM EpisodeAlwaysRemembered == SimulatorSpec => []EpisodeMemory
<1>1. SimulatorInv => EpisodeMemory
  BY DEF SimulatorInv
<1> QED
  BY <1>1, Invariant, PTL

----------------------------------------------------------------------------
(* Where "Error" is left to.                                                *)

ReturnStep ==
  current_state = "Error" /\ current_state' # "Error" =>
    /\ stack' = << >>
    /\ \/ current_state' = last_valid_state
       \/ \E i \in DOMAIN Transitions :
            /\ Transitions[i].source = "Error"
            /\ Transitions[i].destination = current_state'

LEMMA StepReturns ==
  ASSUME SimulatorInv, [SimulatorNext]_simulatorVars
  PROVE  [ReturnStep]_simulatorVars
<1> SUFFICES ASSUME current_state = "Error", current_state' # "Error"
             PROVE  /\ stack' = << >>
                    /\ \/ current_state' = last_valid_state
                       \/ \E i \in DOMAIN Transitions :
                            /\ Transitions[i].source = "Error"
                            /\ Transitions[i].destination = current_state'
  BY DEF ReturnStep
<1>1. ASSUME NEW e \in Events, TriggerEvent(e)
      PROVE  /\ stack' = << >>
             /\ \E i \in DOMAIN Transitions :
                  /\ Transitions[i].source = "Error"
                  /\ Transitions[i].destination = current_state'
  <2>1. stack = << >> /\ stack' = << >> /\ FsmTrigger(e)
    BY <1>1 DEF TriggerEvent
  <2>2. PICK i \in DOMAIN Transitions :
          Takes(i, current_state, e) /\ current_state' = Transitions[i].destination
    BY <2>1, FsmTriggerEvent DEF SimulatorInv, SimulatorTypeOK
  <2> QED
    BY <2>1, <2>2 DEF Takes
<1>2. ASSUME NEW m \in Messages, SimulateError(m)  PROVE FALSE
  BY <1>2, FsmTriggerError DEF SimulateError, SimulatorInv, SimulatorTypeOK
<1>3. ASSUME ResolveError
      PROVE  stack' = << >> /\ current_state' = last_valid_state
  BY <1>3 DEF ResolveError, SimulatorInv, EpisodeMemory
<1>4. CASE ResetErrors
  BY <1>4 DEF ResetErrors
<1>5. CASE UNCHANGED simulatorVars
  BY <1>5 DEF simulatorVars
<1> QED
  BY <1>1, <1>2, <1>3, <1>4, <1>5 DEF SimulatorNext

\* "Error" is left only with an empty stack, and only for the interrupted
\* state or along a transition of the table.
THEOREM AlwaysReturnsToInterrupted == SimulatorSpec => ReturnsToInterrupted
<1>1. SimulatorInv /\ [SimulatorNext]_simulatorVars => [ReturnStep]_simulatorVars
  BY StepReturns
<1>2. SimulatorSpec => [][ReturnStep]_simulatorVars
  BY <1>1, Invariant, PTL DEF SimulatorSpec
<1> QED
  BY <1>2 DEF ReturnsToInterrupted, ReturnStep

----------------------------------------------------------------------------
(* The simulator implements ErrorEpisodes, step by step.                    *)

LEMMA RefinesInit == SimulatorInit => Episodes!Init
BY TableAssumption DEF SimulatorInit, Episodes!Init

LEMMA TriggerEventRefines ==
  ASSUME SimulatorInv, NEW e \in Events, TriggerEvent(e)
  PROVE  Episodes!Advance \/ Episodes!Abandon \/ UNCHANGED Episodes!vars
<1>0. UNCHANGED << stack, previous_state_before_error >>
  BY DEF TriggerEvent
<1>1. CASE UNCHANGED << current_state, last_valid_state >>
  BY <1>0, <1>1 DEF Episodes!vars
<1>2. CASE ~ UNCHANGED << current_state, last_valid_state >>
  <2>1. stack = << >> /\ FsmTrigger(e)
    BY <1>2 DEF TriggerEvent
  <2>2. current_state \in States
    BY DEF SimulatorInv, SimulatorTypeOK
  <2>3. PICK i \in DOMAIN Transitions :
          /\ Takes(i, current_state, e)
          /\ current_state' = Transitions[i].destination
          /\ current_state' \in States \ {"Error"}
    BY <1>2, <2>1, <2>2, FsmTriggerEvent
  <2>4. Transitions[i].source = current_state
    BY <2>3 DEF Takes
  <2>5. CASE current_state # "Error"
    BY <1>0, <2>3, <2>4, <2>5 DEF Episodes!Advance
  <2>6. CASE current_state = "Error"
    BY <1>0, <2>1, <2>3, <2>4, <2>6 DEF Episodes!Abandon
  <2> QED
    BY <2>5, <2>6
<1> QED
  BY <1>1, <1>2

LEMMA SimulateErrorRefines ==
  ASSUME SimulatorInv, NEW m \in Messages, SimulateError(m)
  PROVE  Episodes!Raise(m)
<1>1. current_state' = "Error"
  BY FsmTriggerError DEF SimulateError, SimulatorInv, SimulatorTypeOK
<1> QED
  BY <1>1 DEF SimulateError, Episodes!Raise

LEMMA ResolveErrorRefines ==
  ASSUME SimulatorInv, ResolveError
  PROVE  Episodes!Resolve \/ UNCHANGED Episodes!vars
<1>1. CASE current_state = "Error"
  <2>1. /\ previous_state_before_error \in States \ {"Error"}
        /\ previous_state_before_error # NoState
    BY <1>1, TableAssumption DEF SimulatorInv, EpisodeMemory
  <2>2. stack' = IF stack = << >> THEN << >> ELSE Front(stack)
    BY DEF ResolveError
  <2>3. CASE stack' = << >>
    <3>1. current_state' = previous_state_before_error
      BY <1>1, <2>1, <2>2, <2>3 DEF ResolveError
    <3> QED
      BY <1>1, <2>1, <2>2, <2>3, <3>1 DEF Episodes!Resolve, Front, Episodes!Front
  <2>4. CASE stack' # << >>
    <3>1. UNCHANGED << current_state, previous_state_before_error >>
      BY <2>2, <2>4 DEF ResolveError
    <3> QED
      BY <1>1, <2>2, <2>4, <3>1 DEF Episodes!Resolve, Front, Episodes!Front
  <2> QED
    BY <2>3, <2>4
<1>2. CASE current_state # "Error"
  <2>1. stack = << >>
    BY <1>2 DEF SimulatorInv, PendingErrorHalts
  <2> QED
    BY <1>2, <2>1 DEF ResolveError, Episodes!vars
<1> QED
  BY <1>1, <1>2

LEMMA StepRefines ==
  SimulatorInv /\ [SimulatorNext]_simulatorVars => [Episodes!Next]_Episodes!vars
<1> SUFFICES ASSUME SimulatorInv, [SimulatorNext]_simulatorVars
             PROVE  Episodes!Next \/ UNCHANGED Episodes!vars
  OBVIOUS
<1>1. ASSUME NEW e \in Events, TriggerEvent(e)
      PROVE  Episodes!Next \/ UNCHANGED Episodes!vars
  BY <1>1, TriggerEventRefines DEF Episodes!Next
<1>2. ASSUME NEW m \in Messages, SimulateError(m)  PROVE Episodes!Next
  BY <1>2, SimulateErrorRefines DEF Episodes!Next
<1>3. ASSUME ResolveError  PROVE Episodes!Next \/ UNCHANGED Episodes!vars
  BY <1>3, ResolveErrorRefines DEF Episodes!Next
<1>4. ASSUME ResetErrors  PROVE Episodes!Next
  BY <1>4 DEF ResetErrors, Episodes!Next, Episodes!Forget
<1>5. ASSUME UNCHANGED simulatorVars  PROVE UNCHANGED Episodes!vars
  BY <1>5 DEF simulatorVars, Episodes!vars
<1> QED
  BY <1>1, <1>2, <1>3, <1>4, <1>5 DEF SimulatorNext

\* The bookkeeping of simulate_error, resolve_error and reset_errors keeps the
\* promise of ErrorEpisodes: errors suspend the process and never move it.
THEOREM SimulatorImplementsEpisodes == SimulatorSpec => ImplementsEpisodes
<1>1. SimulatorSpec => Episodes!Spec
  BY RefinesInit, StepRefines, Invariant, PTL DEF SimulatorSpec, Episodes!Spec
<1> QED
  BY <1>1 DEF ImplementsEpisodes

----------------------------------------------------------------------------
(* The window.                                                              *)

\* In the window "Error" always means a pending error (it never calls
\* reset_errors), so that no button can move the machine out of "Error".
ErrorMeansPending == current_state = "Error" => stack # << >>

\* The inductive invariant.
WindowInv ==
  /\ SimulatorInv
  /\ running \in BOOLEAN
  /\ charge_timer \in BOOLEAN
  /\ delivered \in BOOLEAN
  /\ charge_level \in InitialLevel..FullLevel
  /\ ErrorMeansPending
  /\ ChargeTimerFollowsState
  /\ LevelBelongsToCharge
  /\ EpisodeLegal

WindowEvents == { e \in Events : e # "charging_complete" }

----------------------------------------------------------------------------
(* What the simulator's steps do to the invariant.                          *)

\* A button's event keeps an error episode as it is and, unless it is
\* charging_complete, does not end a charge.
LEMMA EventStep ==
  ASSUME WindowInv, NEW e \in Events, TriggerEvent(e)
  PROVE  /\ SimulatorInv'
         /\ UNCHANGED << stack, previous_state_before_error >>
         /\ current_state' = "Error" <=> current_state = "Error"
         /\ e # "charging_complete" /\ current_state = "SarjEdiliyor" =>
              current_state' = "SarjEdiliyor"
<1>1. SimulatorInv'
  BY TriggerEventInv DEF WindowInv
<1>2. UNCHANGED << stack, previous_state_before_error >>
  BY DEF TriggerEvent
<1>3. CASE current_state = "Error"
  BY <1>1, <1>2, <1>3 DEF TriggerEvent, WindowInv, ErrorMeansPending
<1>4. CASE current_state # "Error"
  <2>1. FsmTrigger(e)
    BY <1>4 DEF TriggerEvent, WindowInv, SimulatorInv, PendingErrorHalts
  <2>2. \/ UNCHANGED << current_state, last_valid_state >>
        \/ \E i \in DOMAIN Transitions :
             /\ Takes(i, current_state, e)
             /\ current_state' = Transitions[i].destination
             /\ current_state' \in States \ {"Error"}
    BY <2>1, FsmTriggerEvent DEF WindowInv, SimulatorInv, SimulatorTypeOK
  <2>3. CASE UNCHANGED << current_state, last_valid_state >>
    BY <1>1, <1>2, <1>4, <2>3
  <2>4. ASSUME NEW i \in DOMAIN Transitions,
               Takes(i, current_state, e),
               current_state' = Transitions[i].destination,
               current_state' \in States \ {"Error"}
        PROVE  e # "charging_complete" /\ current_state = "SarjEdiliyor" => FALSE
    <3>1. Transitions[i].source = current_state /\ Transitions[i].trigger = e
      BY <2>4 DEF Takes
    <3>2. e # "error_occurred"
      BY TableAssumption
    <3> QED
      BY <2>4, <3>1, <3>2, ChargingArcsAssumption
  <2> QED
    BY <1>1, <1>2, <1>4, <2>2, <2>3, <2>4
<1> QED
  BY <1>3, <1>4

\* A slot that triggers an event of WindowEvents and refreshes the status.
LEMMA TriggerInv ==
  ASSUME WindowInv, running, NEW e \in WindowEvents, Trigger(e),
         running' \in BOOLEAN, UNCHANGED << charge_level, delivered >>
  PROVE  WindowInv'
<1>1. e \in Events /\ e # "charging_complete" /\ TriggerEvent(e)
  BY DEF WindowEvents, Trigger
<1>2. /\ SimulatorInv'
      /\ UNCHANGED << stack, previous_state_before_error >>
      /\ current_state' = "Error" <=> current_state = "Error"
      /\ current_state = "SarjEdiliyor" => current_state' = "SarjEdiliyor"
  BY <1>1, EventStep
<1>3. charge_timer' = (current_state' = "SarjEdiliyor")
  BY DEF Trigger, UpdateStatus
<1> QED
  BY <1>2, <1>3
     DEF WindowInv, ErrorMeansPending, ChargeTimerFollowsState, LevelBelongsToCharge,
         EpisodeLegal

\* A slot that leaves the simulator and the charge alone.
LEMMA IdleInv ==
  ASSUME WindowInv, running' \in BOOLEAN, running' => running,
         UNCHANGED << simulatorVars, charge_level, charge_timer, delivered >>
  PROVE  WindowInv'
BY DEF WindowInv, ErrorMeansPending, ChargeTimerFollowsState, LevelBelongsToCharge,
       EpisodeLegal, SimulatorInv, SimulatorTypeOK, PendingErrorHalts, EpisodeMemory,
       simulatorVars

----------------------------------------------------------------------------
(* One lemma per action that does more.                                     *)

LEMMA ConnectVehicleInv ==
  ASSUME WindowInv, ConnectVehicle
  PROVE  WindowInv'
<1>1. /\ running
      /\ UNCHANGED << charge_level, delivered >>
      /\ \/ Trigger("connect_vehicle") /\ running' = running
         \/ \E r : /\ r \in ExecuteQuery(db, Append(db.rows,
                              [vehicle |-> selected_vehicle_id, status |-> "pending",
                               paid |-> FALSE]))
                   /\ running' = ~ r.raised
                   /\ IF r.raised THEN UNCHANGED << simulatorVars, charge_timer >>
                                  ELSE Trigger("connect_vehicle")
  BY DEF ConnectVehicle, OpenSession
<1>2. running' \in BOOLEAN
  BY <1>1 DEF WindowInv
<1>3. "connect_vehicle" \in WindowEvents
  BY WindowAssumption DEF WindowEvents
<1>4. Trigger("connect_vehicle") \/ UNCHANGED << simulatorVars, charge_timer >>
  BY <1>1
<1> QED
  BY <1>1, <1>2, <1>3, <1>4, TriggerInv, IdleInv

\* What mark_session_completed leaves in "delivered" is a truth value.
LEMMA MarkCompletedDelivered ==
  ASSUME delivered \in BOOLEAN, NEW r \in MarkCompleted(db)
  PROVE  r.delivered \in BOOLEAN
<1>1. CASE session_id = 0
  BY <1>1 DEF MarkCompleted
<1>2. CASE session_id # 0
  <2>1. PICK s \in RawSelect(db) :
          r \in IF ~ s.found THEN {[db |-> s.db, delivered |-> delivered]}
               ELSE { [db |-> q.db, delivered |-> TRUE] :
                        q \in ExecuteQuery(s.db,
                                [s.db.rows EXCEPT ![session_id].status = "completed",
                                                  ![session_id].paid = TRUE]) }
    BY <1>2, Zenon DEF MarkCompleted
  <2>2. CASE ~ s.found
    BY <2>1, <2>2
  <2>3. CASE s.found
    <3>1. \E q : r = [db |-> q.db, delivered |-> TRUE]
      BY <2>1, <2>3, Zenon
    <3> QED
      BY <3>1
  <2> QED
    BY <2>2, <2>3
<1> QED
  BY <1>1, <1>2

LEMMA ChargeFullInv ==
  ASSUME WindowInv, ChargeFull
  PROVE  WindowInv'
<1>1. /\ running
      /\ charge_timer
      /\ TriggerEvent("charging_complete")
  BY DEF ChargeFull, CompleteCharge
<1>2. PICK r \in MarkCompleted(db) :
        /\ delivered' = r.delivered
        /\ running' = r.delivered
        /\ IF r.delivered
           THEN charge_level' = InitialLevel /\ UpdateStatus
           ELSE UNCHANGED charge_level /\ charge_timer' = FALSE
  BY DEF ChargeFull, CompleteCharge
<1>3. running' \in BOOLEAN /\ delivered' \in BOOLEAN
  BY <1>2, MarkCompletedDelivered DEF WindowInv
<1>4. /\ SimulatorInv'
      /\ UNCHANGED << stack, previous_state_before_error >>
      /\ current_state' = "Error" <=> current_state = "Error"
  BY <1>1, EventStep, WindowAssumption
<1>5. charge_timer' \in BOOLEAN /\ charge_level' \in InitialLevel..FullLevel
  <2>1. charge_timer' = FALSE \/ charge_timer' = (current_state' = "SarjEdiliyor")
    BY <1>2 DEF UpdateStatus
  <2>2. charge_level' = InitialLevel \/ charge_level' = charge_level
    BY <1>2
  <2>3. InitialLevel \in InitialLevel..FullLevel
    BY WindowAssumption
  <2> QED
    BY <2>1, <2>2, <2>3 DEF WindowInv
<1>6. running' => charge_level' = InitialLevel /\ (charge_timer' <=> current_state' = "SarjEdiliyor")
  BY <1>2 DEF UpdateStatus
<1> QED
  BY <1>3, <1>4, <1>5, <1>6
     DEF WindowInv, ErrorMeansPending, ChargeTimerFollowsState, LevelBelongsToCharge,
         EpisodeLegal

LEMMA ChargeTickInv ==
  ASSUME WindowInv, ChargeTick
  PROVE  WindowInv'
<1>1. /\ running /\ charge_timer /\ charge_level < FullLevel
      /\ charge_level' = charge_level + 1
      /\ UNCHANGED << simulatorVars, running, charge_timer, delivered >>
  BY DEF ChargeTick
<1>2. current_state = "SarjEdiliyor"
  BY <1>1 DEF WindowInv, ChargeTimerFollowsState
<1>3. charge_level' \in InitialLevel..FullLevel
  BY <1>1, WindowAssumption DEF WindowInv
<1> QED
  BY <1>1, <1>2, <1>3
     DEF WindowInv, ErrorMeansPending, ChargeTimerFollowsState, LevelBelongsToCharge,
         EpisodeLegal, SimulatorInv, SimulatorTypeOK, PendingErrorHalts, EpisodeMemory,
         simulatorVars

\* Pushing an error that is allowed and not pending keeps the episode legal.
LEMMA PushLegal ==
  ASSUME WindowInv, NEW m \in Messages, ~ Contains(stack, m),
         current_state \in ErrorRules[m], SimulateError(m)
  PROVE  EpisodeLegal'
<1>1. stack \in Seq(Messages) /\ stack' = Append(stack, m)
  BY DEF WindowInv, SimulatorInv, SimulatorTypeOK, SimulateError
<1>2. previous_state_before_error' =
        IF current_state # "Error" THEN current_state ELSE previous_state_before_error
  BY DEF SimulateError
<1>3. \A i \in DOMAIN stack : stack[i] # m
  BY <1>1 DEF Contains
<1>4. current_state = "Error" <=> stack # << >>
  BY DEF WindowInv, ErrorMeansPending, SimulatorInv, PendingErrorHalts
<1>5. \A i \in DOMAIN stack' :
        (IF i = 1 THEN previous_state_before_error' ELSE "Error") \in ErrorRules[stack'[i]]
  <2> SUFFICES ASSUME NEW i \in DOMAIN stack'
               PROVE  (IF i = 1 THEN previous_state_before_error' ELSE "Error")
                        \in ErrorRules[stack'[i]]
    OBVIOUS
  <2>1. i \in 1 .. Len(stack) + 1 /\ Len(stack) \in Nat
    BY <1>1
  <2>2. CASE i = Len(stack) + 1
    <3>1. stack'[i] = m
      BY <1>1, <2>2
    <3>2. i = 1 <=> stack = << >>
      BY <1>1, <2>2, EmptySeq
    <3> QED
      BY <1>2, <1>4, <3>1, <3>2
  <2>3. CASE i # Len(stack) + 1
    <3>1. i \in DOMAIN stack /\ stack'[i] = stack[i]
      BY <1>1, <2>1, <2>3
    <3>2. stack # << >>
      BY <3>1, <1>1, EmptySeq
    <3> QED
      BY <1>2, <1>4, <3>1, <3>2 DEF WindowInv, EpisodeLegal
  <2> QED
    BY <2>2, <2>3
<1>6. \A i, j \in DOMAIN stack' : stack'[i] = stack'[j] => i = j
  <2> SUFFICES ASSUME NEW i \in DOMAIN stack', NEW j \in DOMAIN stack',
                      stack'[i] = stack'[j]
               PROVE  i = j
    OBVIOUS
  <2>1. \A k \in DOMAIN stack' :
          \/ k = Len(stack) + 1 /\ stack'[k] = m
          \/ k \in DOMAIN stack /\ stack'[k] = stack[k]
    BY <1>1
  <2> QED
    BY <1>3, <2>1 DEF WindowInv, EpisodeLegal
<1> QED
  BY <1>5, <1>6 DEF EpisodeLegal

LEMMA AddSelectedErrorInv ==
  ASSUME WindowInv, NEW m \in Messages, AddSelectedError(m)
  PROVE  WindowInv'
<1>1. SimulateError(m) /\ UpdateStatus /\ UNCHANGED << running, charge_level, delivered >>
  BY DEF AddSelectedError
<1>2. EpisodeLegal'
  BY <1>1, PushLegal DEF AddSelectedError
<1>3. SimulatorInv'
  BY <1>1, SimulateErrorInv DEF WindowInv
<1>4. /\ current_state' = "Error"
      /\ previous_state_before_error' =
           IF current_state # "Error" THEN current_state ELSE previous_state_before_error
      /\ stack' # << >>
  BY <1>1, FsmTriggerError, AppendProperties
     DEF SimulateError, WindowInv, SimulatorInv, SimulatorTypeOK
<1>5. charge_timer' = FALSE
  BY <1>1, <1>4, WindowAssumption DEF UpdateStatus
<1> QED
  BY <1>1, <1>2, <1>3, <1>4, <1>5, WindowAssumption
     DEF WindowInv, ErrorMeansPending, ChargeTimerFollowsState, LevelBelongsToCharge

LEMMA ResolveErrorButtonInv ==
  ASSUME WindowInv, ResolveErrorButton
  PROVE  WindowInv'
<1>1. ResolveError /\ UpdateStatus /\ UNCHANGED << running, charge_level, delivered >>
  BY DEF ResolveErrorButton
<1>2. SimulatorInv'
  BY <1>1, ResolveErrorInv DEF WindowInv
<1>3. charge_timer' = (current_state' = "SarjEdiliyor")
  BY <1>1 DEF UpdateStatus
<1>4. CASE current_state # "Error"
  <2>1. stack = << >> /\ UNCHANGED simulatorVars
    BY <1>1, <1>4 DEF WindowInv, SimulatorInv, PendingErrorHalts, ResolveError, simulatorVars
  <2> QED
    BY <1>1, <1>2, <1>3, <2>1
       DEF WindowInv, ErrorMeansPending, ChargeTimerFollowsState, LevelBelongsToCharge,
           EpisodeLegal, simulatorVars
<1>5. CASE current_state = "Error"
  <2>1. stack # << >> /\ stack' = Front(stack)
    BY <1>1, <1>5 DEF WindowInv, ErrorMeansPending, ResolveError
  <2>2. previous_state_before_error \in States \ {"Error"}
    BY <1>5 DEF WindowInv, SimulatorInv, EpisodeMemory
  <2>3. CASE stack' = << >>
    <3>1. current_state' = previous_state_before_error
      BY <1>1, <1>5, <2>1, <2>2, <2>3, TableAssumption DEF ResolveError
    <3>2. EpisodeLegal'
      BY <2>3 DEF EpisodeLegal
    <3> QED
      BY <1>1, <1>2, <1>3, <1>5, <2>2, <2>3, <3>1, <3>2, WindowAssumption
         DEF WindowInv, ErrorMeansPending, ChargeTimerFollowsState, LevelBelongsToCharge
  <2>4. CASE stack' # << >>
    <3>1. UNCHANGED << current_state, previous_state_before_error >>
      BY <1>1, <2>1, <2>4 DEF ResolveError
    <3>2. \A i \in DOMAIN stack' : i \in DOMAIN stack /\ stack'[i] = stack[i]
      <4>1. stack \in Seq(Messages) /\ Len(stack) \in Nat
        BY DEF WindowInv, SimulatorInv, SimulatorTypeOK
      <4>2. stack' \in Seq(Messages) /\ Len(stack') = Len(stack) - 1
        BY <2>1, <4>1, FrontOfStack
      <4> QED
        BY <2>1, <4>1, <4>2, FrontElements
    <3>3. EpisodeLegal'
      BY <3>1, <3>2 DEF WindowInv, EpisodeLegal
    <3> QED
      BY <1>1, <1>2, <1>3, <1>5, <2>4, <3>1, <3>3, WindowAssumption
         DEF WindowInv, ErrorMeansPending, ChargeTimerFollowsState, LevelBelongsToCharge
  <2> QED
    BY <2>3, <2>4
<1> QED
  BY <1>4, <1>5

----------------------------------------------------------------------------
LEMMA WindowInitInv == WindowInit => WindowInv
<1> SUFFICES ASSUME WindowInit PROVE WindowInv
  OBVIOUS
<1>1. SimulatorInit /\ SimulatorInv
  BY InitInv DEF WindowInit
<1>2. current_state \notin {"Error", "SarjEdiliyor"} /\ stack = << >>
  BY <1>1, ChargingArcsAssumption, TableAssumption DEF SimulatorInit
<1>3. running = TRUE /\ charge_timer = FALSE /\ delivered = FALSE /\ charge_level = InitialLevel
  BY DEF WindowInit
<1>4. charge_level \in InitialLevel..FullLevel
  BY <1>3, WindowAssumption
<1>5. EpisodeLegal
  BY <1>2 DEF EpisodeLegal
<1> QED
  BY <1>1, <1>2, <1>3, <1>4, <1>5
     DEF WindowInv, ErrorMeansPending, ChargeTimerFollowsState, LevelBelongsToCharge

LEMMA WindowNextInv == WindowInv /\ [WindowNext]_vars => WindowInv'
<1> SUFFICES ASSUME WindowInv, [WindowNext]_vars
             PROVE  WindowInv'
  OBVIOUS
<1>0. {"connect_vehicle", "start_cert_check", "auth_ok", "start_charging",
       "start_payment", "payment_complete", "disconnect"} \subseteq WindowEvents
  BY WindowAssumption DEF WindowEvents
<1>00. running \in BOOLEAN
  BY DEF WindowInv
<1>1. CASE SetupChargePoint
  BY <1>1, <1>00, IdleInv DEF SetupChargePoint
<1>2. ASSUME NEW v \in Vehicles, OnVehicleChanged(v)  PROVE WindowInv'
  BY <1>2, <1>00, IdleInv DEF OnVehicleChanged
<1>3. CASE ConnectVehicle
  BY <1>3, ConnectVehicleInv
<1>4. ASSUME NEW e \in {"start_cert_check", "disconnect"}, PlainButton(e)  PROVE WindowInv'
  BY <1>0, <1>00, <1>4, TriggerInv DEF PlainButton
<1>5. CASE AuthOk
  BY <1>0, <1>00, <1>5, TriggerInv DEF AuthOk
<1>6. CASE StartCharging
  BY <1>0, <1>00, <1>6, TriggerInv DEF StartCharging
<1>7. CASE StartPayment
  BY <1>0, <1>00, <1>7, TriggerInv DEF StartPayment
<1>8. CASE CompletePaymentProcess
  BY <1>0, <1>00, <1>8, TriggerInv DEF CompletePaymentProcess
<1>80. CASE PaymentWait
  BY <1>00, <1>80, IdleInv DEF PaymentWait
<1>9. CASE ChargeTick
  BY <1>9, ChargeTickInv
<1>10. CASE ChargeFull
  BY <1>10, ChargeFullInv
<1>11. ASSUME NEW m \in Messages, AddSelectedError(m)  PROVE WindowInv'
  BY <1>11, AddSelectedErrorInv
<1>12. CASE ResolveErrorButton
  BY <1>12, ResolveErrorButtonInv
<1>13. CASE UNCHANGED vars
  <2>1. UNCHANGED << simulatorVars, running, charge_level, charge_timer, delivered >>
    BY <1>13 DEF vars, windowVars
  <2> QED
    BY <1>00, <2>1, IdleInv
<1> QED
  BY <1>1, <1>2, <1>3, <1>4, <1>5, <1>6, <1>7, <1>8, <1>80, <1>9, <1>10, <1>11,
     <1>12, <1>13
     DEF WindowNext

LEMMA WindowInvariant == WindowSafetySpec => []WindowInv
BY WindowInitInv, WindowNextInv, PTL DEF WindowSafetySpec

\* Charging goes on exactly in "SarjEdiliyor", for every order of buttons,
\* timers, errors and database failures.
THEOREM ChargeTimerAlwaysFollows == WindowSafetySpec => []ChargeTimerFollowsState
<1>1. WindowInv => ChargeTimerFollowsState
  BY DEF WindowInv
<1> QED
  BY <1>1, WindowInvariant, PTL

\* A charge never inherits the level of another one.
THEOREM LevelAlwaysBelongs == WindowSafetySpec => []LevelBelongsToCharge
<1>1. WindowInv => LevelBelongsToCharge
  BY DEF WindowInv
<1> QED
  BY <1>1, WindowInvariant, PTL

\* Every pending error was legal where it was injected, and none is pending
\* twice.
THEOREM EpisodesAlwaysLegal == WindowSafetySpec => []EpisodeLegal
<1>1. WindowInv => EpisodeLegal
  BY DEF WindowInv
<1> QED
  BY <1>1, WindowInvariant, PTL

----------------------------------------------------------------------------
(* The window only drives the simulator through its operations.             *)

LEMMA WindowStepSimulator == [WindowNext]_vars => [SimulatorNext]_simulatorVars
<1> SUFFICES ASSUME [WindowNext]_vars
             PROVE  [SimulatorNext]_simulatorVars
  OBVIOUS
<1> USE DEF Trigger
<1>0. {"connect_vehicle", "start_cert_check", "auth_ok", "start_charging", "start_payment",
       "payment_complete", "charging_complete", "disconnect"} \subseteq Events
  BY WindowAssumption
<1>1. CASE SetupChargePoint
  BY <1>1 DEF SetupChargePoint
<1>2. ASSUME NEW v \in Vehicles, OnVehicleChanged(v)  PROVE UNCHANGED simulatorVars
  BY <1>2 DEF OnVehicleChanged
<1>3. ASSUME ConnectVehicle
      PROVE  TriggerEvent("connect_vehicle") \/ UNCHANGED simulatorVars
  BY <1>3 DEF ConnectVehicle, OpenSession
<1>4. ASSUME NEW e \in {"start_cert_check", "disconnect"}, PlainButton(e)
      PROVE  TriggerEvent(e)
  BY <1>4 DEF PlainButton
<1>5. ASSUME AuthOk  PROVE TriggerEvent("auth_ok")
  BY <1>5 DEF AuthOk
<1>6. ASSUME StartCharging  PROVE TriggerEvent("start_charging")
  BY <1>6 DEF StartCharging
<1>7. ASSUME StartPayment  PROVE TriggerEvent("start_payment")
  BY <1>7 DEF StartPayment
<1>8. ASSUME CompletePaymentProcess  PROVE TriggerEvent("payment_complete")
  BY <1>8 DEF CompletePaymentProcess
<1>80. CASE PaymentWait
  BY <1>80 DEF PaymentWait
<1>9. CASE ChargeTick
  BY <1>9 DEF ChargeTick
<1>10. ASSUME ChargeFull  PROVE TriggerEvent("charging_complete")
  BY <1>10 DEF ChargeFull, CompleteCharge
<1>11. ASSUME NEW m \in Messages, AddSelectedError(m)  PROVE SimulateError(m)
  BY <1>11 DEF AddSelectedError
<1>12. ASSUME ResolveErrorButton  PROVE ResolveError
  BY <1>12 DEF ResolveErrorButton
<1>13. CASE UNCHANGED vars
  BY <1>13 DEF vars
<1> QED
  BY <1>0, <1>1, <1>2, <1>3, <1>4, <1>5, <1>6, <1>7, <1>8, <1>80, <1>9, <1>10, <1>11,
     <1>12, <1>13
     DEF WindowNext, SimulatorNext

\* Everything proved of the simulator holds in the window; in particular no
\* sequence of buttons and timers breaks the promise of ErrorEpisodes.
THEOREM WindowImplementsEpisodes == WindowSafetySpec => ImplementsEpisodes
<1>1. WindowInit => SimulatorInit
  BY DEF WindowInit
<1>2. WindowSafetySpec => SimulatorSpec
  BY <1>1, WindowStepSimulator, PTL DEF WindowSafetySpec, SimulatorSpec
<1> QED
  BY <1>2, SimulatorImplementsEpisodes


----------------------------------------------------------------------------
(* The session bookkeeping, whatever becomes of the statements.             *)

Databases == [conn : {"open", "aborted", "closed"}, rows : Seq(Session)]
Coroutines == {"boot_notification", "authorize", "send_charging_started",
               "stop_transaction", "status_notification"}

\* The fields of the window that WindowInv says nothing about.
FieldsTyped ==
  /\ payment_timer \in 0..PaymentDelay
  /\ selected_vehicle_id \in Vehicles \cup {NoVehicle}
  /\ charge_point \in BOOLEAN
  /\ created \in Seq(Coroutines)
RowsTyped ==
  /\ db \in Databases
  /\ Len(db.rows) <= MaxSessions
  /\ session_id \in 0..Len(db.rows)

\* Whether a statement succeeds, fails or loses the connection, the rows are
\* the ones before it or the ones it makes, and the latter if it succeeds.
LEMMA QueryOutcome ==
  ASSUME NEW d \in Databases, NEW rows \in Seq(Session), NEW r \in ExecuteQuery(d, rows)
  PROVE  /\ r.db \in Databases /\ r.db.rows \in {d.rows, rows}
         /\ r.done \in BOOLEAN /\ r.raised \in BOOLEAN
         /\ r.done => r.db.rows = rows
         /\ DbFailures = {} /\ d.conn = "open" =>
              r.done /\ ~ r.raised /\ r.db.conn = "open"
<1>1. \/ /\ d.conn = "open"
         /\ r = [db |-> [d EXCEPT !.rows = rows], done |-> TRUE, raised |-> FALSE]
      \/ /\ d.conn = "aborted" \/ "error" \in DbFailures
         /\ r = [db |-> [d EXCEPT !.conn = "open"], done |-> FALSE, raised |-> FALSE]
      \/ /\ d.conn = "closed" \/ "lost" \in DbFailures
         /\ \E q \in {d.rows, rows} :
              r = [db |-> [conn |-> "closed", rows |-> q], done |-> FALSE, raised |-> TRUE]
  BY DEF ExecuteQuery, When, MayFail
<1>2. /\ [d EXCEPT !.rows = rows] \in Databases /\ [d EXCEPT !.conn = "open"] \in Databases
      /\ [d EXCEPT !.rows = rows].rows = rows /\ [d EXCEPT !.rows = rows].conn = d.conn
      /\ [d EXCEPT !.conn = "open"].rows = d.rows
  BY DEF Databases
<1>3. \A q \in {d.rows, rows} : [conn |-> "closed", rows |-> q] \in Databases
  BY DEF Databases
<1>4. CASE d.conn = "open" /\ r = [db |-> [d EXCEPT !.rows = rows], done |-> TRUE, raised |-> FALSE]
  BY <1>2, <1>4
<1>5. CASE /\ d.conn = "aborted" \/ "error" \in DbFailures
           /\ r = [db |-> [d EXCEPT !.conn = "open"], done |-> FALSE, raised |-> FALSE]
  BY <1>2, <1>5
<1>6. ASSUME d.conn = "closed" \/ "lost" \in DbFailures,
             NEW q \in {d.rows, rows},
             r = [db |-> [conn |-> "closed", rows |-> q], done |-> FALSE, raised |-> TRUE]
      PROVE  /\ r.db \in Databases /\ r.db.rows \in {d.rows, rows}
             /\ r.done = FALSE /\ r.raised = TRUE
             /\ ~ (DbFailures = {} /\ d.conn = "open")
  BY <1>3, <1>6
<1> QED
  BY <1>1, <1>4, <1>5, <1>6

\* Marking the session's row changes no other row and adds none.
LEMMA MarkedRows ==
  ASSUME NEW rows \in Seq(Session), NEW n \in 1..Len(rows),
         NEW s \in {"pending", "started", "completed"}, NEW p \in BOOLEAN
  PROVE  /\ [rows EXCEPT ![n].status = s] \in Seq(Session)
         /\ Len([rows EXCEPT ![n].status = s]) = Len(rows)
         /\ [rows EXCEPT ![n].status = s, ![n].paid = p] \in Seq(Session)
         /\ Len([rows EXCEPT ![n].status = s, ![n].paid = p]) = Len(rows)
<1>1. rows[n] \in Session
  OBVIOUS
<1>2. /\ [rows[n] EXCEPT !.status = s] \in Session
      /\ [rows[n] EXCEPT !.status = s, !.paid = p] \in Session
  BY <1>1 DEF Session
<1>3. ASSUME NEW row \in Session
      PROVE  [rows EXCEPT ![n] = row] \in Seq(Session) /\ Len([rows EXCEPT ![n] = row]) = Len(rows)
  BY <1>3
<1>4. /\ [rows EXCEPT ![n].status = s] = [rows EXCEPT ![n] = [rows[n] EXCEPT !.status = s]]
      /\ [rows EXCEPT ![n].status = s, ![n].paid = p]
           = [rows EXCEPT ![n] = [rows[n] EXCEPT !.status = s, !.paid = p]]
  BY <1>1 DEF Session
<1> QED
  BY <1>2, <1>3, <1>4, SMTT(60)


\* A statement that neither adds nor removes a row, and what it does to the
\* connection of a database that works.
Keeps(d, e) ==
  /\ e \in Databases
  /\ Len(e.rows) = Len(d.rows)
  /\ DbFailures = {} /\ d.conn = "open" => e.conn = "open"

LEMMA MarkStartedKeeps ==
  ASSUME NEW d \in Databases, session_id \in 0..Len(d.rows), NEW e \in MarkStarted(d)
  PROVE  Keeps(d, e)
<1>1. CASE session_id = 0
  BY <1>1 DEF MarkStarted, Keeps
<1>2. CASE session_id # 0
  <2>1. PICK r \in ExecuteQuery(d, [d.rows EXCEPT ![session_id].status = "started"]) : e = r.db
    BY <1>2 DEF MarkStarted
  <2>2. d.rows \in Seq(Session) /\ session_id \in 1..Len(d.rows)
    BY <1>2 DEF Databases
  <2>3. /\ [d.rows EXCEPT ![session_id].status = "started"] \in Seq(Session)
        /\ Len([d.rows EXCEPT ![session_id].status = "started"]) = Len(d.rows)
    BY <2>2, MarkedRows
  <2> HIDE DEF Session
  <2> QED
    BY <2>1, <2>3, QueryOutcome, SMTT(60) DEF Keeps
<1> QED
  BY <1>1, <1>2

\* A SELECT changes no row; on a database that works it finds one.
LEMMA SelectOutcome ==
  ASSUME NEW d \in Databases, NEW s \in RawSelect(d)
  PROVE  /\ s.db \in Databases /\ s.db.rows = d.rows
         /\ DbFailures = {} /\ d.conn = "open" => s.found /\ s.db.conn = "open"
<1>1. \/ s = [db |-> d, found |-> TRUE]
      \/ /\ d.conn # "open" \/ DbFailures # {}
         /\ \/ s = [db |-> [d EXCEPT !.conn = "aborted"], found |-> FALSE]
            \/ s = [db |-> [d EXCEPT !.conn = "closed"], found |-> FALSE]
  BY DEF RawSelect, When, MayFail
<1>2. \A c \in {"aborted", "closed"} :
        [d EXCEPT !.conn = c] \in Databases /\ [d EXCEPT !.conn = c].rows = d.rows
  BY DEF Databases
<1>3. CASE s = [db |-> d, found |-> TRUE]
  BY <1>3
<1>4. ASSUME NEW c \in {"aborted", "closed"}, s = [db |-> [d EXCEPT !.conn = c], found |-> FALSE]
      PROVE  s.db \in Databases /\ s.db.rows = d.rows
  BY <1>2, <1>4
<1> QED
  BY <1>1, <1>3, <1>4

\* mark_session_completed keeps the rows as well, and assigns "delivered"
\* whenever there is a session and the SELECT finds it.
LEMMA MarkCompletedKeeps ==
  ASSUME NEW d \in Databases, session_id \in 0..Len(d.rows), NEW r \in MarkCompleted(d)
  PROVE  /\ Keeps(d, r.db)
         /\ DbFailures = {} /\ d.conn = "open" /\ session_id # 0 => r.delivered = TRUE
<1>1. CASE session_id = 0
  BY <1>1 DEF MarkCompleted, Keeps
<1>2. CASE session_id # 0
  <2>1. PICK s \in RawSelect(d) :
          r \in IF ~ s.found THEN {[db |-> s.db, delivered |-> delivered]}
               ELSE { [db |-> q.db, delivered |-> TRUE] :
                        q \in ExecuteQuery(s.db,
                                [s.db.rows EXCEPT ![session_id].status = "completed",
                                                  ![session_id].paid = TRUE]) }
    BY <1>2, Zenon DEF MarkCompleted
  <2>2. /\ s.db \in Databases /\ s.db.rows = d.rows
        /\ DbFailures = {} /\ d.conn = "open" => s.found /\ s.db.conn = "open"
    BY <2>1, SelectOutcome
  <2>3. CASE ~ s.found
    BY <2>1, <2>2, <2>3 DEF Keeps
  <2>4. CASE s.found
    <3> DEFINE rows == [s.db.rows EXCEPT ![session_id].status = "completed",
                                         ![session_id].paid = TRUE]
    <3>1. PICK q \in ExecuteQuery(s.db, rows) : r = [db |-> q.db, delivered |-> TRUE]
      BY <2>1, <2>4, Zenon
    <3>2. /\ s.db.rows \in Seq(Session) /\ s.db.rows = d.rows
          /\ session_id \in 1..Len(s.db.rows)
      BY <1>2, <2>2 DEF Databases
    <3>3. rows \in Seq(Session) /\ Len(rows) = Len(d.rows)
      <4> HIDE DEF Session
      <4>1. ASSUME NEW old \in Seq(Session), NEW n \in 1..Len(old)
            PROVE  /\ [old EXCEPT ![n].status = "completed", ![n].paid = TRUE] \in Seq(Session)
                   /\ Len([old EXCEPT ![n].status = "completed", ![n].paid = TRUE]) = Len(old)
        BY MarkedRows
      <4> QED
        BY <3>2, <4>1
    <3> HIDE DEF rows
    <3>4. /\ q.db \in Databases /\ q.db.rows \in {s.db.rows, rows}
          /\ DbFailures = {} /\ s.db.conn = "open" => q.db.conn = "open"
      BY <2>2, <3>1, <3>3, QueryOutcome
    <3> QED
      BY <2>2, <3>1, <3>3, <3>4 DEF Keeps
  <2> QED
    BY <2>3, <2>4
<1> QED
  BY <1>1, <1>2

Typed == FieldsTyped /\ RowsTyped

\* Every slot gives the loop at most one coroutine.
LEMMA CreatesTyped ==
  ASSUME NEW k \in Coroutines, NEW b, Creates(k, b)
  PROVE  created' \in Seq(Coroutines)
BY DEF Creates

\* The slots that leave the session alone.
LEMMA OtherSlots ==
  ASSUME WindowInv, Typed, WindowNext
  PROVE  \/ ConnectVehicle \/ StartCharging \/ ChargeFull
         \/ FieldsTyped' /\ UNCHANGED << running, session_id, db >>
<1>0. << >> \in Seq(Coroutines)
  OBVIOUS
<1>1. CASE SetupChargePoint
  BY <1>0, <1>1 DEF Typed, FieldsTyped, SetupChargePoint
<1>2. ASSUME NEW v \in Vehicles, OnVehicleChanged(v)
      PROVE  FieldsTyped' /\ UNCHANGED << running, session_id, db >>
  BY <1>0, <1>2 DEF Typed, FieldsTyped, OnVehicleChanged
<1>3. ASSUME NEW e \in {"start_cert_check", "disconnect"}, PlainButton(e)
      PROVE  FieldsTyped' /\ UNCHANGED << running, session_id, db >>
  BY <1>0, <1>3 DEF Typed, FieldsTyped, PlainButton
<1>4. CASE AuthOk
  <2>1. created' \in Seq(Coroutines)
    BY <1>4, CreatesTyped DEF AuthOk, Coroutines
  <2> QED
    BY <1>4, <2>1 DEF Typed, FieldsTyped, AuthOk
<1>5. CASE StartPayment
  BY <1>0, <1>5, WindowAssumption DEF Typed, FieldsTyped, StartPayment
<1>6. CASE CompletePaymentProcess
  BY <1>0, <1>6, WindowAssumption DEF Typed, FieldsTyped, CompletePaymentProcess
<1>60. CASE PaymentWait
  BY <1>0, <1>60, WindowAssumption DEF Typed, FieldsTyped, PaymentWait
<1>7. CASE ChargeTick
  BY <1>0, <1>7 DEF Typed, FieldsTyped, ChargeTick
<1>8. ASSUME NEW m \in Messages, AddSelectedError(m)
      PROVE  FieldsTyped' /\ UNCHANGED << running, session_id, db >>
  <2>1. created' \in Seq(Coroutines)
    BY <1>8, CreatesTyped DEF AddSelectedError, Coroutines
  <2> QED
    BY <1>8, <2>1 DEF Typed, FieldsTyped, AddSelectedError
<1>9. CASE ResolveErrorButton
  BY <1>0, <1>9 DEF Typed, FieldsTyped, ResolveErrorButton
<1> QED
  BY <1>1, <1>2, <1>3, <1>4, <1>5, <1>6, <1>60, <1>7, <1>8, <1>9 DEF WindowNext

\* What an open button does: either no vehicle was ever loaded, and no
\* statement is executed, or one INSERT is.
LEMMA ConnectVehicleKeeps ==
  ASSUME Typed, ConnectVehicle
  PROVE  /\ FieldsTyped'
         /\ RowsTyped'
         /\ selected_vehicle_id' = selected_vehicle_id
         /\ DbFailures = {} /\ db.conn = "open" /\ selected_vehicle_id # NoVehicle
              /\ session_id = Len(db.rows)  =>
            /\ running' = TRUE /\ db'.conn = "open"
            /\ session_id' = Len(db'.rows) /\ session_id' # 0
<1>1. FieldsTyped' /\ selected_vehicle_id' = selected_vehicle_id
  <2>1. created' \in Seq(Coroutines)
    BY CreatesTyped DEF ConnectVehicle, OpenSession, Coroutines
  <2> QED
    BY <2>1 DEF Typed, FieldsTyped, ConnectVehicle, OpenSession
<1>2. CASE selected_vehicle_id = NoVehicle
  BY <1>1, <1>2 DEF Typed, RowsTyped, ConnectVehicle, OpenSession
<1>3. CASE selected_vehicle_id # NoVehicle
  <2> DEFINE row == [vehicle |-> selected_vehicle_id, status |-> "pending", paid |-> FALSE]
             rows == Append(db.rows, row)
  <2>1. /\ Len(db.rows) < MaxSessions
        /\ \E r \in ExecuteQuery(db, rows) :
             /\ db' = r.db
             /\ session_id' = [done \in BOOLEAN |-> IF done THEN Len(db.rows) + 1
                                                   ELSE session_id][r.done]
             /\ running' = ~ r.raised
    BY <1>3, Zenon DEF ConnectVehicle, OpenSession
  <2>2. PICK r \in ExecuteQuery(db, rows) :
          /\ db' = r.db
          /\ session_id' = [done \in BOOLEAN |-> IF done THEN Len(db.rows) + 1
                                                ELSE session_id][r.done]
          /\ running' = ~ r.raised
    BY <2>1
  <2>3. /\ row \in Session
        /\ db \in Databases /\ db.rows \in Seq(Session) /\ Len(db.rows) \in Nat
    BY <1>3 DEF Typed, FieldsTyped, RowsTyped, Databases, Session
  <2> HIDE DEF row, Session
  <2>4. rows \in Seq(Session) /\ Len(rows) = Len(db.rows) + 1
    BY <2>3
  <2> HIDE DEF rows
  <2>5. /\ r.db \in Databases /\ r.db.rows \in {db.rows, rows}
        /\ r.done \in BOOLEAN
        /\ r.done => r.db.rows = rows
        /\ DbFailures = {} /\ db.conn = "open" => r.done /\ ~ r.raised /\ r.db.conn = "open"
    BY <2>2, <2>3, <2>4, QueryOutcome
  <2>6. session_id' = IF r.done THEN Len(db.rows) + 1 ELSE session_id
    BY <2>2, <2>5
  <2>7. db' \in Databases /\ Len(db'.rows) \in {Len(db.rows), Len(db.rows) + 1}
        /\ (r.done => Len(db'.rows) = Len(db.rows) + 1)
    BY <2>2, <2>4, <2>5
  <2>8. RowsTyped'
    BY <2>1, <2>3, <2>6, <2>7, WindowAssumption DEF Typed, RowsTyped
  <2> QED
    BY <1>1, <2>2, <2>3, <2>5, <2>6, <2>7, <2>8
<1> QED
  BY <1>2, <1>3

LEMMA StartChargingKeeps ==
  ASSUME Typed, StartCharging
  PROVE  FieldsTyped' /\ Keeps(db, db') /\ UNCHANGED << running, session_id, selected_vehicle_id >>
<1>1. FieldsTyped' /\ UNCHANGED << running, session_id, selected_vehicle_id >>
  BY DEF Typed, FieldsTyped, StartCharging, Coroutines
<1>2. PICK d \in MarkStarted(db) : db' \in MarkStarted(d)
  BY DEF StartCharging
<1>3. db \in Databases /\ session_id \in 0..Len(db.rows)
  BY DEF Typed, RowsTyped
<1>4. Keeps(db, d)
  BY <1>2, <1>3, MarkStartedKeeps
<1>5. Keeps(d, db')
  <2>1. d \in Databases /\ session_id \in 0..Len(d.rows)
    BY <1>3, <1>4 DEF Keeps
  <2> QED
    BY <1>2, <2>1, MarkStartedKeeps
<1> QED
  BY <1>1, <1>4, <1>5 DEF Keeps

LEMMA ChargeFullKeeps ==
  ASSUME Typed, ChargeFull
  PROVE  /\ FieldsTyped' /\ Keeps(db, db') /\ UNCHANGED << session_id, selected_vehicle_id >>
         /\ DbFailures = {} /\ db.conn = "open" /\ session_id # 0 => running' = TRUE
<1>1. UNCHANGED << payment_timer, selected_vehicle_id, session_id, charge_point >>
  BY DEF ChargeFull, CompleteCharge
<1>2. PICK r \in MarkCompleted(db) :
        /\ db' = r.db /\ running' = r.delivered
        /\ created' = << >> \/ Creates("stop_transaction", TRUE)
  BY DEF ChargeFull, CompleteCharge
<1>3. /\ Keeps(db, r.db)
      /\ DbFailures = {} /\ db.conn = "open" /\ session_id # 0 => r.delivered = TRUE
  BY <1>2, MarkCompletedKeeps DEF Typed, RowsTyped
<1>4. created' \in Seq(Coroutines)
  <2>1. Creates("stop_transaction", TRUE) => created' \in Seq(Coroutines)
    <3>1. "stop_transaction" \in Coroutines
      BY DEF Coroutines
    <3> QED
      BY <3>1, CreatesTyped
  <2>2. << >> \in Seq(Coroutines)
    OBVIOUS
  <2> QED
    BY <1>2, <2>1, <2>2
<1> QED
  BY <1>1, <1>2, <1>3, <1>4 DEF Typed, FieldsTyped

LEMMA TypedInit == WindowInit => Typed
<1> SUFFICES ASSUME WindowInit PROVE Typed
  OBVIOUS
<1>1. /\ \E c \in {"open", "closed"} : db = [conn |-> c, rows |-> << >>]
      /\ session_id = 0 /\ created = << >> /\ payment_timer = 0 /\ charge_point = FALSE
      /\ selected_vehicle_id \in Vehicles \cup {NoVehicle}
  BY DEF WindowInit
<1>2. db \in Databases /\ Len(db.rows) = 0
  BY <1>1 DEF Databases
<1>3. << >> \in Seq(Coroutines)
  OBVIOUS
<1>4. FieldsTyped
  <2>1. payment_timer \in 0..PaymentDelay
    BY <1>1, WindowAssumption
  <2> QED
    BY <1>1, <1>3, <2>1 DEF FieldsTyped
<1>5. RowsTyped
  BY <1>1, <1>2, WindowAssumption DEF RowsTyped
<1> QED
  BY <1>4, <1>5 DEF Typed

LEMMA TypedNext == WindowInv /\ Typed /\ [WindowNext]_vars => Typed'
<1> SUFFICES ASSUME WindowInv, Typed, [WindowNext]_vars PROVE Typed'
  OBVIOUS
<1>1. ASSUME Keeps(db, db'), session_id' = session_id
      PROVE  RowsTyped'
  BY <1>1 DEF Keeps, Typed, RowsTyped
<1>2. CASE ConnectVehicle
  BY <1>2, ConnectVehicleKeeps DEF Typed
<1>3. CASE StartCharging
  BY <1>1, <1>3, StartChargingKeeps DEF Typed
<1>4. CASE ChargeFull
  BY <1>1, <1>4, ChargeFullKeeps DEF Typed
<1>5. CASE FieldsTyped' /\ UNCHANGED << running, session_id, db >>
  BY <1>5 DEF Typed, RowsTyped
<1>6. CASE UNCHANGED vars
  BY <1>6 DEF vars, windowVars, Typed, RowsTyped, FieldsTyped
<1> QED
  BY <1>2, <1>3, <1>4, <1>5, <1>6, OtherSlots

\* Type correctness of the window: whatever the database does, every field
\* keeps a value of its kind and session_id names a row of the table.
THEOREM WindowTypeCorrect == WindowSafetySpec => []WindowTypeOK
<1>1. WindowInit => Typed
  BY TypedInit
<1>2. WindowInv /\ Typed => WindowTypeOK
  BY DEF WindowInv, SimulatorInv, Typed, FieldsTyped, RowsTyped, WindowTypeOK, Databases, Coroutines
<1> QED
  BY <1>1, <1>2, WindowInvariant, TypedNext, PTL DEF WindowSafetySpec

----------------------------------------------------------------------------
(* Which statement completes a session.                                     *)

\* No row but those of S becomes completed between d and e.
CompletesOnly(S, d, e) ==
  \A i \in DOMAIN d.rows \cap DOMAIN e.rows :
    d.rows[i].status # "completed" /\ e.rows[i].status = "completed" => i \in S

LEMMA StartCompletesNone ==
  ASSUME NEW d \in Databases, session_id \in 0..Len(d.rows), NEW e \in MarkStarted(d)
  PROVE  CompletesOnly({}, d, e)
<1>1. CASE session_id = 0
  BY <1>1 DEF MarkStarted, CompletesOnly
<1>2. CASE session_id # 0
  <2> DEFINE rows == [d.rows EXCEPT ![session_id].status = "started"]
  <2>1. PICK r \in ExecuteQuery(d, rows) : e = r.db
    BY <1>2 DEF MarkStarted
  <2>2. d.rows \in Seq(Session) /\ session_id \in 1..Len(d.rows)
    BY <1>2 DEF Databases
  <2>3. rows \in Seq(Session)
    <3> HIDE DEF Session
    <3> QED
      BY <2>2, MarkedRows
  <2>4. \A i \in DOMAIN d.rows :
          rows[i].status = "completed" => d.rows[i].status = "completed"
    BY <2>2 DEF Session
  <2> HIDE DEF rows
  <2>5. e.rows \in {d.rows, rows}
    BY <2>1, <2>3, QueryOutcome
  <2> QED
    BY <2>4, <2>5 DEF CompletesOnly
<1> QED
  BY <1>1, <1>2

LEMMA CompleteCompletesSession ==
  ASSUME NEW d \in Databases, session_id \in 0..Len(d.rows), NEW r \in MarkCompleted(d)
  PROVE  CompletesOnly({session_id}, d, r.db)
<1>1. CASE session_id = 0
  BY <1>1 DEF MarkCompleted, CompletesOnly
<1>2. CASE session_id # 0
  <2>1. PICK s \in RawSelect(d) :
          r \in IF ~ s.found THEN {[db |-> s.db, delivered |-> delivered]}
               ELSE { [db |-> q.db, delivered |-> TRUE] :
                        q \in ExecuteQuery(s.db,
                                [s.db.rows EXCEPT ![session_id].status = "completed",
                                                  ![session_id].paid = TRUE]) }
    BY <1>2, Zenon DEF MarkCompleted
  <2>2. s.db \in Databases /\ s.db.rows = d.rows
    BY <2>1, SelectOutcome
  <2>3. CASE ~ s.found
    BY <2>1, <2>2, <2>3 DEF CompletesOnly
  <2>4. CASE s.found
    <3> DEFINE rows == [s.db.rows EXCEPT ![session_id].status = "completed",
                                         ![session_id].paid = TRUE]
    <3>1. PICK q \in ExecuteQuery(s.db, rows) : r = [db |-> q.db, delivered |-> TRUE]
      BY <2>1, <2>4, Zenon
    <3>2. rows \in Seq(Session)
      <4> HIDE DEF Session
      <4>1. ASSUME NEW old \in Seq(Session), NEW n \in 1..Len(old)
            PROVE  [old EXCEPT ![n].status = "completed", ![n].paid = TRUE] \in Seq(Session)
        BY MarkedRows
      <4>2. s.db.rows \in Seq(Session) /\ session_id \in 1..Len(s.db.rows)
        BY <1>2, <2>2 DEF Databases
      <4> QED
        BY <4>1, <4>2
    <3>3. \A i \in DOMAIN d.rows : i # session_id => rows[i] = d.rows[i]
      BY <2>2 DEF Databases
    <3> HIDE DEF rows
    <3>4. q.db.rows \in {s.db.rows, rows}
      BY <2>2, <3>1, <3>2, QueryOutcome
    <3> QED
      BY <2>2, <3>1, <3>3, <3>4 DEF CompletesOnly
  <2> QED
    BY <2>3, <2>4
<1> QED
  BY <1>1, <1>2

LEMMA ConnectCompletesNone ==
  ASSUME Typed, ConnectVehicle
  PROVE  CompletesOnly({}, db, db')
<1>1. CASE selected_vehicle_id = NoVehicle
  BY <1>1 DEF ConnectVehicle, OpenSession, CompletesOnly
<1>2. CASE selected_vehicle_id # NoVehicle
  <2> DEFINE row == [vehicle |-> selected_vehicle_id, status |-> "pending", paid |-> FALSE]
             rows == Append(db.rows, row)
  <2>1. PICK r \in ExecuteQuery(db, rows) : db' = r.db
    BY <1>2, Zenon DEF ConnectVehicle, OpenSession
  <2>2. row \in Session /\ db \in Databases /\ db.rows \in Seq(Session)
    BY <1>2 DEF Typed, FieldsTyped, RowsTyped, Databases, Session
  <2> HIDE DEF row, Session
  <2>3. rows \in Seq(Session) /\ \A i \in DOMAIN db.rows : rows[i] = db.rows[i]
    BY <2>2
  <2> HIDE DEF rows
  <2>4. db'.rows \in {db.rows, rows}
    BY <2>1, <2>2, <2>3, QueryOutcome
  <2> QED
    BY <2>3, <2>4 DEF CompletesOnly
<1> QED
  BY <1>1, <1>2

FullChargeStep ==
  \A i \in DOMAIN db.rows \cap DOMAIN db'.rows :
    db.rows[i].status # "completed" /\ db'.rows[i].status = "completed" =>
      current_state = "SarjEdiliyor" /\ charge_level = FullLevel /\ i = session_id

LEMMA FullChargeCompletes ==
  WindowInv /\ Typed /\ [WindowNext]_vars => [FullChargeStep]_vars
<1> SUFFICES ASSUME WindowInv, Typed, [WindowNext]_vars PROVE FullChargeStep
  OBVIOUS
<1>0. db \in Databases /\ session_id \in 0..Len(db.rows)
  BY DEF Typed, RowsTyped
<1>1. CASE ConnectVehicle
  BY <1>1, ConnectCompletesNone DEF CompletesOnly, FullChargeStep
<1>2. CASE StartCharging
  <2>1. PICK d \in MarkStarted(db) : db' \in MarkStarted(d)
    BY <1>2 DEF StartCharging
  <2>2. Keeps(db, d) /\ CompletesOnly({}, db, d)
    BY <1>0, <2>1, MarkStartedKeeps, StartCompletesNone
  <2>3. d \in Databases /\ session_id \in 0..Len(d.rows) /\ DOMAIN d.rows = DOMAIN db.rows
    BY <1>0, <2>2 DEF Keeps, Databases
  <2>4. CompletesOnly({}, d, db')
    BY <2>1, <2>3, StartCompletesNone
  <2> QED
    BY <2>2, <2>3, <2>4 DEF CompletesOnly, FullChargeStep
<1>3. CASE ChargeFull
  <2>1. current_state = "SarjEdiliyor" /\ charge_level >= FullLevel
    BY <1>3 DEF ChargeFull, CompleteCharge, WindowInv, ChargeTimerFollowsState
  <2>2. charge_level = FullLevel
    BY <2>1, WindowAssumption DEF WindowInv
  <2>3. PICK r \in MarkCompleted(db) : db' = r.db
    BY <1>3 DEF ChargeFull, CompleteCharge
  <2> QED
    BY <1>0, <2>1, <2>2, <2>3, CompleteCompletesSession DEF CompletesOnly, FullChargeStep
<1>4. CASE UNCHANGED db
  BY <1>4 DEF FullChargeStep
<1> QED
  BY <1>1, <1>2, <1>3, <1>4, OtherSlots DEF vars, windowVars

\* A session becomes completed only by a charge that has run to full while the
\* machine is charging, and only the session of that charge, whatever the
\* database does.
THEOREM CompletedOnlyByFullCharge == WindowSafetySpec => CompletedByFullCharge
<1>1. WindowSafetySpec => [][FullChargeStep]_vars
  BY TypedInit, TypedNext, WindowInvariant, FullChargeCompletes, PTL DEF WindowSafetySpec
<1> QED
  BY <1>1 DEF FullChargeStep, CompletedByFullCharge

----------------------------------------------------------------------------
(* With a database that works: no slot aborts the program.                  *)

\* Where the process stands, an error pending or not.
Place == IF current_state = "Error" THEN previous_state_before_error ELSE current_state

\* Once past the initial state there is a session to mark completed, so that
\* the full charge finds "delivered" assigned.
WorksInv ==
  /\ running
  /\ session_id = Len(db.rows)
  /\ db.conn = "open"
  /\ selected_vehicle_id # NoVehicle
  /\ Place # InitialState => session_id # 0

\* Only connect_vehicle leads out of the initial state.
LEMMA EventPlace ==
  ASSUME WindowInv, NEW e \in Events, TriggerEvent(e), e # "connect_vehicle",
         Place = InitialState
  PROVE  Place' = InitialState
<1>1. /\ UNCHANGED << stack, previous_state_before_error >>
      /\ current_state' = "Error" <=> current_state = "Error"
  BY EventStep
<1>2. CASE current_state = "Error"
  BY <1>1, <1>2 DEF Place
<1>3. CASE current_state # "Error"
  <2>1. FsmTrigger(e)
    BY <1>3 DEF TriggerEvent, WindowInv, SimulatorInv, PendingErrorHalts
  <2>2. \/ UNCHANGED << current_state, last_valid_state >>
        \/ \E i \in DOMAIN Transitions :
             /\ Takes(i, current_state, e)
             /\ current_state' = Transitions[i].destination
    BY <2>1, FsmTriggerEvent DEF WindowInv, SimulatorInv, SimulatorTypeOK
  <2>3. current_state = InitialState
    BY <1>3 DEF Place
  <2>4. ASSUME NEW i \in DOMAIN Transitions, Takes(i, current_state, e),
               current_state' = Transitions[i].destination
        PROVE  current_state' = InitialState
    <3>1. Transitions[i].source = InitialState /\ Transitions[i].trigger = e
      BY <2>3, <2>4 DEF Takes
    <3>2. e \notin {"connect_vehicle", "error_occurred"}
      BY TableAssumption
    <3> QED
      BY <2>4, <3>1, <3>2, StartArcsAssumption
  <2>5. current_state' = InitialState
    BY <2>2, <2>3, <2>4
  <2> QED
    BY <1>1, <1>3, <2>5 DEF Place
<1> QED
  BY <1>2, <1>3

\* Errors and their resolution move the process nowhere.
LEMMA ErrorPlace ==
  ASSUME WindowInv, (\E m \in Messages : AddSelectedError(m)) \/ ResolveErrorButton
  PROVE  Place' = Place
<1>1. ASSUME NEW m \in Messages, AddSelectedError(m)
      PROVE  Place' = Place
  <2>1. SimulateError(m)
    BY <1>1 DEF AddSelectedError
  <2>2. /\ current_state' = "Error"
        /\ previous_state_before_error' =
             IF current_state # "Error" THEN current_state ELSE previous_state_before_error
    BY <2>1, FsmTriggerError DEF SimulateError, WindowInv, SimulatorInv, SimulatorTypeOK
  <2> QED
    BY <2>2 DEF Place
<1>2. CASE ResolveErrorButton
  <2>1. ResolveError
    BY <1>2 DEF ResolveErrorButton
  <2>2. CASE current_state # "Error"
    BY <2>1, <2>2 DEF Place, ResolveError
  <2>3. CASE current_state = "Error"
    <3>1. previous_state_before_error \in States \ {"Error"}
      BY <2>3 DEF WindowInv, SimulatorInv, EpisodeMemory
    <3>2. \/ UNCHANGED << current_state, previous_state_before_error >>
          \/ current_state' = previous_state_before_error
      BY <2>1 DEF ResolveError
    <3> QED
      BY <2>3, <3>1, <3>2 DEF Place
  <2> QED
    BY <2>2, <2>3
<1> QED
  BY <1>1, <1>2

\* The slots other than connect_vehicle leave the process where it starts.
LEMMA SlotPlace ==
  ASSUME WindowInv, WindowNext, ~ ConnectVehicle, Place = InitialState
  PROVE  Place' = InitialState
<1> USE DEF Trigger
<1>0. {"connect_vehicle", "start_cert_check", "auth_ok", "start_charging", "start_payment",
       "payment_complete", "charging_complete", "disconnect"} \subseteq Events
  BY WindowAssumption
<1>1. \/ UNCHANGED simulatorVars
      \/ \E e \in Events : e # "connect_vehicle" /\ TriggerEvent(e)
      \/ \E m \in Messages : AddSelectedError(m)
      \/ ResolveErrorButton
  <2>1. SetupChargePoint => UNCHANGED simulatorVars
    BY DEF SetupChargePoint
  <2>2. \A v \in Vehicles : OnVehicleChanged(v) => UNCHANGED simulatorVars
    BY DEF OnVehicleChanged
  <2>3. \A e \in {"start_cert_check", "disconnect"} : PlainButton(e) => TriggerEvent(e)
    BY DEF PlainButton
  <2>4. AuthOk => TriggerEvent("auth_ok")
    BY DEF AuthOk
  <2>5. StartCharging => TriggerEvent("start_charging")
    BY DEF StartCharging
  <2>6. StartPayment => TriggerEvent("start_payment")
    BY DEF StartPayment
  <2>7. CompletePaymentProcess => TriggerEvent("payment_complete")
    BY DEF CompletePaymentProcess
  <2>8. (ChargeTick \/ PaymentWait) => UNCHANGED simulatorVars
    BY DEF ChargeTick, PaymentWait
  <2>9. ChargeFull => TriggerEvent("charging_complete")
    BY DEF ChargeFull, CompleteCharge
  <2> QED
    BY <1>0, <2>1, <2>2, <2>3, <2>4, <2>5, <2>6, <2>7, <2>8, <2>9 DEF WindowNext
<1>2. UNCHANGED simulatorVars => Place' = Place
  BY DEF simulatorVars, Place
<1> QED
  BY <1>1, <1>2, EventPlace, ErrorPlace

\* A vehicle once selected is only ever exchanged for another.
LEMMA VehicleStays ==
  ASSUME WindowNext, selected_vehicle_id # NoVehicle
  PROVE  selected_vehicle_id' # NoVehicle
<1>1. ASSUME NEW v \in Vehicles, OnVehicleChanged(v)
      PROVE  selected_vehicle_id' # NoVehicle
  BY <1>1, WindowAssumption DEF OnVehicleChanged
<1>2. SetupChargePoint => selected_vehicle_id' = selected_vehicle_id
  BY DEF SetupChargePoint
<1>3. ConnectVehicle => selected_vehicle_id' = selected_vehicle_id
  BY DEF ConnectVehicle, OpenSession
<1>4. /\ \A e : PlainButton(e) => selected_vehicle_id' = selected_vehicle_id
      /\ AuthOk => selected_vehicle_id' = selected_vehicle_id
      /\ StartCharging => selected_vehicle_id' = selected_vehicle_id
  BY DEF PlainButton, AuthOk, StartCharging
<1>5. /\ StartPayment => selected_vehicle_id' = selected_vehicle_id
      /\ CompletePaymentProcess => selected_vehicle_id' = selected_vehicle_id
  BY DEF StartPayment, CompletePaymentProcess
<1>6. /\ ChargeTick \/ PaymentWait => selected_vehicle_id' = selected_vehicle_id
      /\ ChargeFull => selected_vehicle_id' = selected_vehicle_id
  BY DEF ChargeTick, PaymentWait, ChargeFull, CompleteCharge
<1>7. /\ \A m : AddSelectedError(m) => selected_vehicle_id' = selected_vehicle_id
      /\ ResolveErrorButton => selected_vehicle_id' = selected_vehicle_id
  BY DEF AddSelectedError, ResolveErrorButton
<1> QED
  BY <1>1, <1>2, <1>3, <1>4, <1>5, <1>6, <1>7 DEF WindowNext

LEMMA WorksInit ==
  ASSUME DbFailures = {}
  PROVE  WindowInit => WorksInv
<1> SUFFICES ASSUME WindowInit PROVE WorksInv
  OBVIOUS
<1>1. /\ db = [conn |-> "open", rows |-> << >>] /\ selected_vehicle_id \in Vehicles
      /\ running = TRUE /\ session_id = 0 /\ current_state = InitialState
  BY DEF WindowInit, SimulatorInit
<1>2. Place = InitialState /\ selected_vehicle_id # NoVehicle
  BY <1>1, TableAssumption, WindowAssumption DEF Place
<1> QED
  BY <1>1, <1>2 DEF WorksInv

LEMMA WorksNext ==
  ASSUME DbFailures = {}
  PROVE  WindowInv /\ Typed /\ WorksInv /\ [WindowNext]_vars => WorksInv'
<1> SUFFICES ASSUME WindowInv, Typed, WorksInv, [WindowNext]_vars
             PROVE  WorksInv'
  OBVIOUS
<1>1. CASE ConnectVehicle
  BY <1>1, ConnectVehicleKeeps DEF WorksInv
<1>2. CASE UNCHANGED vars
  BY <1>2 DEF vars, windowVars, simulatorVars, WorksInv, Place
<1>3. CASE WindowNext /\ ~ ConnectVehicle
  <2>1. Place = InitialState => Place' = InitialState
    BY <1>3, SlotPlace
  <2>2. session_id' = session_id /\ Len(db'.rows) = Len(db.rows) /\ db'.conn = "open"
    BY <1>3, OtherSlots, StartChargingKeeps, ChargeFullKeeps DEF WorksInv, Keeps
  <2>3. selected_vehicle_id' # NoVehicle
    BY <1>3, VehicleStays DEF WorksInv
  <2>4. running'
    <3>1. CASE ChargeFull
      <4>1. current_state = "SarjEdiliyor"
        BY <3>1 DEF ChargeFull, CompleteCharge, WindowInv, ChargeTimerFollowsState
      <4>2. Place # InitialState
        BY <4>1, WindowAssumption, ChargingArcsAssumption DEF Place
      <4> QED
        BY <3>1, <4>2, ChargeFullKeeps DEF WorksInv
    <3> QED
      BY <1>3, <3>1, OtherSlots, StartChargingKeeps DEF WorksInv
  <2> QED
    BY <2>1, <2>2, <2>3, <2>4 DEF WorksInv
<1> QED
  BY <1>1, <1>2, <1>3

LEMMA WorksInvariant ==
  ASSUME DbFailures = {}
  PROVE  WindowSafetySpec => []WorksInv
BY WorksInit, WorksNext, TypedInit, TypedNext, WindowInvariant, PTL DEF WindowSafetySpec

\* With a database that works and a vehicle loaded, no sequence of buttons,
\* timers and errors aborts the program.
THEOREM WindowNeverAborts ==
  ASSUME DbFailures = {}
  PROVE  WindowSafetySpec => []NeverAborts
<1>1. WorksInv => NeverAborts
  BY DEF WorksInv, NeverAborts
<1> QED
  BY <1>1, WorksInvariant, PTL

\* With such a database the session worked on is always the newest one, and
\* exists whenever the process has left its initial state.
THEOREM SessionAlwaysNewest ==
  ASSUME DbFailures = {}
  PROVE  WindowSafetySpec => []SessionIsNewest
<1>1. WorksInv => SessionIsNewest
  BY DEF WorksInv, SessionIsNewest, Place
<1> QED
  BY <1>1, WorksInvariant, PTL

============================================================================
