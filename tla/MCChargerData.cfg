SPECIFICATION Spec
CONSTANTS
  Departures <- MCDepartures
  Profiles <- MCProfiles
  AcLimits <- MCAcLimits
  Shipped <- MCShipped
INVARIANTS
  NothingStaleIsUsed
  OfferFitsRequest
  OwnProfileAccepted
  FirstSlotsWatched
  TargetsWithinLimits
  DischargeLimitsThere
PROPERTY LimitsLostOnce
