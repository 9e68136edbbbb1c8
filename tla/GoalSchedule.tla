------------------------------ MODULE GoalSchedule ------------------------------
(***************************************************************************)
(* goal_scheduler/: the order in which several goals are to be taken up,   *)
(* the conflicts among them, and the validator of such an order.  Shares   *)
(* are in hundredths, deadlines in hours from now.                         *)
(***************************************************************************)
EXTENDS Integers, Sequences, SequencesExt

NoDeadline == 1000   \* hours; farther away than any deadline
NoDependency == "none"

\* GoalScheduleRecord, as far as the schedule depends on it.
ScheduleRecord(goal, importance, urgency, cost, confidence, dependency, deadline) ==
  [goal |-> goal, importance |-> importance, urgency |-> urgency, cost |-> cost,
   confidence |-> confidence, dependency |-> dependency, deadline |-> deadline]

\* A goal given without a record.
RecordOf(goal, priority) == ScheduleRecord(goal, priority, 50, 30, 60, NoDependency, NoDeadline)

Larger(a, b) == IF a >= b THEN a ELSE b

\* _urgency: a deadline within a day makes urgent, one that is over most of all.
Urgency(r) ==
  CASE r.deadline = NoDeadline -> r.urgency
    [] r.deadline <= 0 -> 100
    [] r.deadline > 0 /\ r.deadline # NoDeadline ->
         Larger(r.urgency, Larger(0, 100 - (100 * r.deadline) \div 24))

\* PriorityScore = 0.35*Importance + 0.25*Urgency + 0.2*Success + 0.2*Efficiency
Priority(r) == 35 * r.importance + 25 * Urgency(r) + 20 * r.confidence + 20 * (100 - r.cost)

-----------------------------------------------------------------------------
\* GoalConflictResolver: pairs of records, by kind.
Goals(records) == {r.goal : r \in ToSet(records)}

RecordFor(records, goal) == CHOOSE r \in ToSet(records) : r.goal = goal

Distance(a, b) == IF a >= b THEN a - b ELSE b - a

Conflicts(records) ==
  LET pairs == {<<records[i], records[j]>> : i \in DOMAIN records, j \in DOMAIN records}
      later == {<<records[p[1]], records[p[2]]>> : p \in
                  {q \in (DOMAIN records) \X (DOMAIN records) : q[1] < q[2]}}
      Kind(k, l, r) ==
        CASE k = "RESOURCE" -> <<l, r>> \in later /\ l.cost + r.cost > 100
          [] k = "DEPENDENCY" ->
               /\ <<l, r>> \in pairs /\ r.dependency = l.goal
               /\ NoDeadline \notin {l.deadline, r.deadline} /\ l.deadline > r.deadline
          [] k = "DEADLINE" ->
               /\ <<l, r>> \in later /\ NoDeadline \notin {l.deadline, r.deadline}
               /\ Distance(l.deadline, r.deadline) < 24 /\ l.deadline < 48 /\ r.deadline < 48
  IN  {c \in {"RESOURCE", "DEPENDENCY", "DEADLINE"} \X Goals(records) \X Goals(records) :
         Kind(c[1], RecordFor(records, c[2]), RecordFor(records, c[3]))}

\* sorted(..., reverse=True): stable, by falling score.
Falling(records) ==
  LET rank(i) == Cardinality({j \in DOMAIN records :
                   \/ Priority(records[j]) > Priority(records[i])
                   \/ Priority(records[j]) = Priority(records[i]) /\ j < i})
  IN  [n \in DOMAIN records |-> records[CHOOSE i \in DOMAIN records : rank(i) = n - 1]]

\* _order: before a goal its own dependency is placed, if it waits still, but
\* not what that depends on.  (A slip: the dependency after the goal.)
PlaceLate(records, order, r) ==
  LET with == IF Contains(order, r.goal) THEN order ELSE Append(order, r.goal)
  IN  IF r.dependency \in Goals(records) /\ ~Contains(with, r.dependency)
      THEN Append(with, r.dependency) ELSE with

Place(records, order, r) ==
  LET with == IF r.dependency \in Goals(records) /\ ~Contains(order, r.dependency)
              THEN Append(order, r.dependency) ELSE order
  IN  IF Contains(with, r.goal) THEN with ELSE Append(with, r.goal)

Order(records) ==
  LET placed[n \in 0..Len(records)] ==
        IF n = 0 THEN <<>> ELSE Place(records, placed[n - 1], Falling(records)[n])
  IN  placed[Len(records)]

\* GoalSchedulingValidator.
Position(order, goal) == CHOOSE i \in DOMAIN order : order[i] = goal

ScheduleIssues(schedule, records) ==
  {issue \in {"empty", "repeated", "incomplete", "selected", "dependency"} :
     CASE issue = "empty" -> schedule.order = <<>>
       [] issue = "repeated" -> Cardinality(ToSet(schedule.order)) # Len(schedule.order)
       [] issue = "incomplete" -> ToSet(schedule.order) # Goals(records)
       [] issue = "selected" ->
            schedule.selected # NoDependency /\ schedule.selected \notin ToSet(schedule.order)
       [] issue = "dependency" ->
            \E r \in ToSet(records) :
              /\ {r.dependency, r.goal} \subseteq ToSet(schedule.order) \cap Goals(records)
              /\ Position(schedule.order, r.dependency) > Position(schedule.order, r.goal)}

\* schedule(): everything after the first goal is deferred.
Schedule(records) ==
  LET order == Order(records)
  IN  [order |-> order, selected |-> IF order = <<>> THEN NoDependency ELSE Head(order),
       deferred |-> IF Len(order) > 1 THEN Tail(order) ELSE <<>>,
       conflicts |-> Conflicts(records)]

(* Dependencies one level deep: what a goal depends on depends on nothing. *)
OneLevel(records) ==
  \A r, s \in ToSet(records) : r.dependency = s.goal => s.dependency \notin Goals(records)
=============================================================================
