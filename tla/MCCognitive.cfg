SPECIFICATION Spec
CONSTANTS
  Action = {"TALK", "COLLECT"}
  Target = {npc, map}
  Allowed = {"TALK"}
  TTL = 1
  MaxTime = 2
  MaxRequests = 2
  MaxDone = 1
INVARIANTS
  ExecutedWithPermission
  VerdictFits
  CompletedAsConfirmed
PROPERTIES
  DecidedOnce
