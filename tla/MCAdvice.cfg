CONSTANTS
  ItemNames = {"sap"}
  Keywords = {"ore"}
  Dangerous = {"swamp"}
  LastSnapshots = 2
  Limit = 4
  Observations <- MCObservations
  Npcs = {"Helena"}
  Monsters = {"slime"}
  Goals <- MCGoals
  Preventions <- MCPreventions
  Qualities <- MCQualities
  Actions = {"correct", "reject"}
  Experiences <- MCExperiences
  Failures <- MCFailures
  Looks = 3
  Answers = 2
SPECIFICATION AdviceSpec
INVARIANTS AdviceConsistent MemoryOfNow
CHECK_DEADLOCK FALSE
