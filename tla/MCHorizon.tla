-------------------------------- MODULE MCHorizon --------------------------------
(* Three goals: one of two milestones, one with an empty milestone between   *)
(* two others, one of a single task; records that differ in every component  *)
(* of the score; an experience that reorders and one that also removes; and a *)
(* pattern known beforehand that thinks well of its tasks.                    *)
EXTENDS LongHorizon

Stage(n, tasks) == [order |-> n, tasks |-> tasks]

MCMilestones ==
  [a |-> <<Stage(0, <<"a1">>), Stage(1, <<"a2", "a3">>)>>,
   b |-> <<Stage(0, <<"b1">>), Stage(1, <<>>), Stage(2, <<"b2">>)>>,
   c |-> <<Stage(0, <<"c1">>)>>]

Depends == {"a", "b", "c", NoDependency}

MCAsked ==
  {<<ScheduleRecord("a", 90, 30, 40, 80, d[1], 12), ScheduleRecord("b", i, 70, 70, 60, d[2], e),
     ScheduleRecord("c", 40, 50, j, 50, d[3], NoDeadline)>> :
     d \in [1..3 -> Depends], i \in {10, 70}, j \in {0, 100}, e \in {-1, 24}}
  \cup {<<RecordOf("b", 8), RecordOf("c", 5)>>, <<RecordOf("c", 5)>>}

Experience(id, path, failed) ==
  [id |-> id, type |-> "QUEST", path |-> path, failed |-> failed,
   pattern |-> path, success |-> failed = <<>>]

MCExperiences ==
  {Experience("x1", <<"a3", "a2", "a1">>, <<>>),
   Experience("x2", <<"a3", "b2">>, <<"a2", "b1">>)}

Known == [failure |-> "WORLD_MISMATCH", tasks |-> {"a1", "b2"}, success |-> 90, confidence |-> 70]

MCStored == {<<Known>>}
=============================================================================
