SPECIFICATION Spec
CONSTANTS
  MaxQueue = 3
  MaxImages = 2
  SaveEnabled = FALSE
  WindowReal = FALSE
  Mapped = FALSE
  MaxFiles = 8
  MaxOthers = 1
INVARIANT
  ScreenshotsBounded
