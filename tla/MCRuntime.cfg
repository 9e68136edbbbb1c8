\* The life cycle with a small queue: a start or a stop reports twice, so the
\* queue fills within one call, and what was reported earlier may still wait.
SPECIFICATION Spec
CONSTANTS
  MaxQueue = 3
  MaxAttach = 2
INVARIANTS
  TypeOK
  OnlyConfirmedRuns
  ConsoleConverges
  HandlersIdempotent
PROPERTIES
  ImplementsLifecycle
  WindowLossPauses
