--------------------------- MODULE ErrorEpisodes ---------------------------
(* What the error simulator promises, without its bookkeeping: a process    *)
(* that has one place, which errors suspend but never move.                 *)
EXTENDS Sequences, SequencesExt

CONSTANTS
  Places,        \* the states of the process; being suspended is not one
  InitialPlace,
  Moves,         \* set of <<from, to>>: steps of the process that runs
  Restarts,      \* places an abandoned episode may restart the process in
  Messages       \* error messages

VARIABLES
  place,    \* where the process is, also while it is suspended
  errors,   \* pending errors, last one last
  halted    \* whether the process is suspended

vars == << place, errors, halted >>

Init ==
  /\ place = InitialPlace
  /\ errors = << >>
  /\ halted = FALSE

\* The process takes a step; only when it is not suspended.
Advance ==
  /\ ~ halted
  /\ << place, place' >> \in Moves
  /\ UNCHANGED << errors, halted >>

\* An error is added; the first one suspends the process.
Raise(m) ==
  /\ errors' = Append(errors, m)
  /\ halted' = TRUE
  /\ UNCHANGED place

\* The last error goes away; the process resumes where it was after the last.
Resolve ==
  /\ halted
  /\ errors' = IF errors = << >> THEN << >> ELSE Front(errors)
  /\ halted' = (errors' # << >>)
  /\ UNCHANGED place

\* All errors are dropped; the process stays suspended.
Forget ==
  /\ errors' = << >>
  /\ UNCHANGED << place, halted >>

\* A suspended process without pending errors is restarted elsewhere.
Abandon ==
  /\ halted
  /\ errors = << >>
  /\ place' \in Restarts
  /\ halted' = FALSE
  /\ UNCHANGED errors

Next ==
  \/ Advance
  \/ \E m \in Messages : Raise(m)
  \/ Resolve
  \/ Forget
  \/ Abandon

Spec == Init /\ [][Next]_vars

============================================================================
