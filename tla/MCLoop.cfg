\* Two goals of which one has a quest, and a third: a new goal may push the
\* other aside. A round publishes eight events at least; the room ends anywhere.
SPECIFICATION Spec
CONSTANTS
  Goal = {1, 2, 3}
  QuestGoal = {1, 2}
  RetryMax = 1
  MaxRoom = 10
  MaxSteps = 1
INVARIANTS
  Settled
  ReturnedIsCoherent
  ChangesAnnounced
PROPERTIES
  GoalLifeCycle
  CallReturns
