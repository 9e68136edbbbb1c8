SPECIFICATION Spec
CONSTANTS
  Base <- MCBase
  Store <- MCStore
  Worlds <- MCWorlds
  Frames <- MCFrames
  Agents <- MCAgents
  GateInputs <- MCGateInputs
  Elapsed = {0, 70}
  OcrConfidence = 40
  NamesInOrder <- MCNames
  Theme <- MCTheme
INVARIANTS
  RouteFollowsTheMap
  DoneOnlyIfSeen
  NothingRunsYet
