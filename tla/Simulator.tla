----------------------------- MODULE Simulator -----------------------------
(* Client/simulation/simulator.py: the charging process as a table-driven   *)
(* state machine (fsm/state_machine.py) under a stack of simulated errors   *)
(* (pda/pda_stack.py).  An error moves the machine to "Error"; when the     *)
(* last error is resolved the simulator puts it back by hand, past the      *)
(* transition table, in the state it had remembered.                        *)
(*                                                                          *)
(* One action per public operation of Simulator, each the whole Python      *)
(* method: they run on the GUI thread, one after the other.                 *)
EXTENDS Naturals, Sequences, SequencesExt

CONSTANTS
  States,        \* names of the machine's states, "Error" among them
  InitialState,  \* the first state of the file (fsm/loader.py)
  Transitions,   \* sequence of [source, trigger, destination], in file order
  Events,        \* events callers pass to trigger_event
  Messages,      \* error messages
  NoState,       \* Python's None, for a state that is not set
  MaxErrors      \* bound on the depth of the error stack

TransitionRecord == [source : States, trigger : Events \cup {"error_occurred"},
                     destination : States]

\* Transition i is the one trigger(e) takes in state s: the first in file
\* order whose source and trigger match.
Takes(i, s, e) ==
  LET Matches(j) == Transitions[j].source = s /\ Transitions[j].trigger = e
  IN  /\ i \in DOMAIN Transitions
      /\ Matches(i)
      /\ \A j \in 1..(i-1) : ~ Matches(j)

\* What the loader guarantees (names resolve, or add_transition raises), and
\* what the file must say: error_occurred leads from every other state to
\* "Error", nothing else does, and callers do not raise it themselves.
ASSUME TableAssumption ==
  /\ "Error" \in States
  /\ InitialState \in States \ {"Error"}
  /\ NoState \notin States
  /\ Transitions \in Seq(TransitionRecord)
  /\ "error_occurred" \notin Events

ASSUME ErrorArcsAssumption ==
  /\ \A s \in States \ {"Error"} : \E i \in DOMAIN Transitions :
        Takes(i, s, "error_occurred")
  /\ \A i \in DOMAIN Transitions :
        Transitions[i].destination = "Error" <=> Transitions[i].trigger = "error_occurred"

ASSUME BoundAssumption == MaxErrors \in Nat

----------------------------------------------------------------------------
VARIABLES
  current_state,                \* StateMachine.current_state
  last_valid_state,             \* StateMachine.last_valid_state
  stack,                        \* PDA.stack, last error last
  previous_state_before_error   \* Simulator.previous_state_before_error

simulatorVars ==
  << current_state, last_valid_state, stack, previous_state_before_error >>

SimulatorInit ==
  /\ current_state = InitialState
  /\ last_valid_state = NoState
  /\ stack = << >>
  /\ previous_state_before_error = NoState

\* StateMachine.trigger: error_occurred is swallowed in "Error"; an event
\* with no transition is reported and otherwise ignored.
FsmTrigger(e) ==
  IF \E i \in DOMAIN Transitions :
       Takes(i, current_state, e) /\ ~ (current_state = "Error" /\ e = "error_occurred")
  THEN \E i \in DOMAIN Transitions :
         /\ Takes(i, current_state, e)
         /\ last_valid_state' = current_state
         /\ current_state' = Transitions[i].destination
  ELSE UNCHANGED << current_state, last_valid_state >>

\* Mutant: trigger_event without the refusal.
TriggerEventUnguarded(e) ==
  /\ FsmTrigger(e)
  /\ UNCHANGED << stack, previous_state_before_error >>

\* Simulator.trigger_event: refused while any error is pending.
TriggerEvent(e) ==
  /\ IF stack = << >> THEN FsmTrigger(e)
                      ELSE UNCHANGED << current_state, last_valid_state >>
  /\ UNCHANGED << stack, previous_state_before_error >>

\* Simulator.simulate_error: only the first error of an episode records the
\* state it interrupts.
SimulateError(m) ==
  /\ Len(stack) < MaxErrors
  /\ previous_state_before_error' =
       IF current_state # "Error" THEN current_state ELSE previous_state_before_error
  /\ stack' = Append(stack, m)
  /\ FsmTrigger("error_occurred")

\* Mutant: every resolution forgets the interrupted state, the last one or not.
ResolveErrorForgets ==
  LET remaining == IF stack = << >> THEN << >> ELSE Front(stack)
      returns   == /\ remaining = << >>
                   /\ current_state = "Error"
                   /\ previous_state_before_error # NoState
  IN  /\ stack' = remaining
      /\ current_state' = IF returns THEN previous_state_before_error ELSE current_state
      /\ previous_state_before_error' = NoState
      /\ UNCHANGED last_valid_state

\* Mutant: returns after any resolution, with errors still on the stack.
ResolveErrorEarly ==
  LET returns == current_state = "Error" /\ previous_state_before_error # NoState
  IN  /\ stack' = IF stack = << >> THEN << >> ELSE Front(stack)
      /\ current_state' = IF returns THEN previous_state_before_error ELSE current_state
      /\ previous_state_before_error' =
           IF returns THEN NoState ELSE previous_state_before_error
      /\ UNCHANGED last_valid_state

\* Simulator.resolve_error: pops the last error (popping an empty stack does
\* nothing); once none is left, returns to the remembered state directly,
\* which leaves last_valid_state as it was.
ResolveError ==
  LET remaining == IF stack = << >> THEN << >> ELSE Front(stack)
      returns   == /\ remaining = << >>
                   /\ current_state = "Error"
                   /\ previous_state_before_error # NoState
  IN  /\ stack' = remaining
      /\ current_state' = IF returns THEN previous_state_before_error ELSE current_state
      /\ previous_state_before_error' =
           IF returns THEN NoState ELSE previous_state_before_error
      /\ UNCHANGED last_valid_state

\* Simulator.reset_errors: clears the stack and leaves the machine in
\* "Error"; only resolve_error or the event reset_error leads out.
ResetErrors ==
  /\ stack' = << >>
  /\ UNCHANGED << current_state, last_valid_state, previous_state_before_error >>

SimulatorNext ==
  \/ \E e \in Events : TriggerEvent(e)
  \/ \E m \in Messages : SimulateError(m)
  \/ ResolveError
  \/ ResetErrors

SimulatorSpec == SimulatorInit /\ [][SimulatorNext]_simulatorVars

----------------------------------------------------------------------------
(* Properties                                                               *)

\* Every field holds a value of the kind the Python code stores in it.
SimulatorTypeOK ==
  /\ current_state \in States
  /\ last_valid_state \in States \cup {NoState}
  /\ stack \in Seq(Messages)
  /\ Len(stack) <= MaxErrors
  /\ previous_state_before_error \in (States \ {"Error"}) \cup {NoState}

\* While an error is pending the machine is in "Error": no interleaving of
\* events, errors and resolutions lets the process advance with an error on
\* the stack.
PendingErrorHalts == stack # << >> => current_state = "Error"

\* Throughout an episode of errors, however they nest, the simulator's and the
\* machine's own memory of the interrupted state agree, so that resolve_error
\* can always leave "Error" (last_valid_state "keeps the state before the
\* error", state_machine.py:27).
EpisodeMemory ==
  current_state = "Error" =>
    /\ previous_state_before_error \in States \ {"Error"}
    /\ previous_state_before_error = last_valid_state

\* "Error" is left only with every error resolved, and only for the state that
\* the first error interrupted or along a transition of the table.
ReturnsToInterrupted ==
  [][ current_state = "Error" /\ current_state' # "Error" =>
        /\ stack' = << >>
        /\ \/ current_state' = last_valid_state
           \/ \E i \in DOMAIN Transitions :
                /\ Transitions[i].source = "Error"
                /\ Transitions[i].destination = current_state' ]_simulatorVars

\* The simulator implements the errors-suspend-but-never-move contract of
\* ErrorEpisodes: the place of the process is the current state, or the
\* remembered one while the machine is in "Error".
Episodes == INSTANCE ErrorEpisodes WITH
  Places       <- States \ {"Error"},
  InitialPlace <- InitialState,
  Moves        <- { << Transitions[i].source, Transitions[i].destination >> :
                      i \in DOMAIN Transitions },
  Restarts     <- { Transitions[i].destination :
                      i \in { j \in DOMAIN Transitions :
                                Transitions[j].source = "Error" } },
  Messages     <- Messages,
  place        <- IF current_state = "Error" THEN previous_state_before_error
                                             ELSE current_state,
  errors       <- stack,
  halted       <- current_state = "Error"

\* Refinement: every behaviour of the simulator is one of ErrorEpisodes.
ImplementsEpisodes == Episodes!Spec

============================================================================
