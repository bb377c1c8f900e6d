SPECIFICATION Spec
CONSTANTS
  Departures <- MCDepartures
  Profiles <- MCAllProfiles
  AcLimits <- MCAcLimits
  Shipped <- MCShipped
INVARIANT AcceptedProfileAdheres
