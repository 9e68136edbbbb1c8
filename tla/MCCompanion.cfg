SPECIFICATION CompanionSpec
CONSTANTS
  Known <- MCKnown
  Kind <- MCKind
  Expiry = 2
  Relations <- MCRelations
  Threshold = 70
  Inputs <- MCInputs
  Screens <- MCScreens
  Sightings <- MCSightings
  MaxHistory = 3
  MaxTime = 3
  Delays = {0, 2}
CHECK_DEADLOCK FALSE
INVARIANT ReferencesGrounded
PROPERTY SeenAgainToReturn
