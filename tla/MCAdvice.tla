--------------------------------- MODULE MCAdvice ---------------------------------
(* A village, a dangerous swamp and a screen that shows no place; two goals.  *)
EXTENDS Advice

Seen(map, entities, mentioned, confidence) ==
  [map |-> map, entities |-> entities, mentioned |-> mentioned, observed |-> 2, confidence |-> confidence]

MCObservations ==
  {Seen("village", {"Helena"}, {"sap"}, 90), Seen("swamp", {"Helena", "slime"}, {}, 80),
   Seen(NoPlace, {"slime"}, {}, 40)}
MCGoals == {"quest", NoGoal}
MCPreventions == {NoPrevention, Prevention({"task-3"}, {"retry seldom helps"}, <<"rest", "ask">>)}
MCQualities == {8000}
MCExperiences ==
  {[id |-> 1, goal |-> "quest", path |-> {"task-1", "task-3"}, success |-> TRUE, confidence |-> 90],
   [id |-> 2, goal |-> "quest", path |-> {"village"}, success |-> FALSE, confidence |-> 50]}
MCFailures ==
  {[id |-> 1, type |-> "EXECUTION_FAILED", cause |-> "TALK", tasks |-> {"task-3"}, confidence |-> 70]}
=============================================================================
