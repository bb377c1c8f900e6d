SPECIFICATION SimulatorSpec
CONSTANTS
  States       <- XmlStates
  InitialState <- XmlInitial
  Transitions  <- XmlTransitions
  Events       <- MCEvents
  Messages     <- XmlMessages
  NoState      =  "None"
  MaxErrors    =  3
INVARIANTS
  PendingErrorHalts
  EpisodeMemory
PROPERTIES
  ImplementsEpisodes
