SPECIFICATION Spec
CONSTANTS
  Action = {"TALK", "CLICK"}
  Target = {"npc"}
  Allowed = {"TALK"}
  Physical = {"CLICK"}
  MaxSteps = 2
  Milestones <- MCMilestones
  Asked <- MCAsked
  Experiences <- MCExperiences
  Stored <- MCStored
  Worlds = {50, 101}
  MaxFailures = 2
  MaxStore = 2
CHECK_DEADLOCK FALSE
INVARIANTS
  RunAgreesWithRecords
  PrerequisitesKept
  FailuresWarned
  AdviceAccepted
