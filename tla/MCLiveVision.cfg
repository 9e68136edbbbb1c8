SPECIFICATION Spec
CONSTANTS
  Desktops <- MCDesktops
  GameProfile <- MCGameProfile
  Layouts <- MCLayouts
  Pictures <- MCPictures
  Length <- MCLength
  Within <- MCWithin
  Readings <- MCReadings
  Candidates <- MCCandidates
  Facts <- MCFacts
  Sights <- MCSights
  Truths <- MCTruths
  Cooldown = 2
  UnknownLimit = 2
  CliTimeout = 1
  MinSamples = 10
  MaxClock = 4
  MaxFrames = 3
  MaxAnswers = 3
  MaxSamples = 20
INVARIANTS
  ShownIsTheGame
  ConfirmedByTwoMoments
  ReadyIsEarned
CHECK_DEADLOCK FALSE
