\* A queue that a single tick can fill, and room for two files: every tick has
\* something to delete, and any publication may be the refused one.
SPECIFICATION Spec
CONSTANTS
  MaxQueue = 3
  MaxImages = 2
  SaveEnabled = TRUE
  WindowReal = TRUE
  Mapped = TRUE
  MaxFiles = 8
  MaxOthers = 1
INVARIANTS
  ProvidersUp
  InPipelineOrder
  ImageForOcr
  
PROPERTY
  KeepsSampling
