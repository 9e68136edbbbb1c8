------------------------------ MODULE TaskProgress ------------------------------
(***************************************************************************)
(* task_planning/ with goal_memory/ and planning_optimizer/: a goal taken  *)
(* apart into a graph of tasks, the progress through such a graph, what    *)
(* the validator says of it, and the graphs and orders that experience     *)
(* recommends.  Scores are in hundredths.                                  *)
(***************************************************************************)
EXTENDS Integers, Sequences, SequencesExt

None == "none"                 \* the empty string of the code
MilestonePassed == "milestone" \* a prerequisite "milestone:...", always met

\* TaskNode, as far as anything depends on it.
Node(task, milestone, needs) == [task |-> task, milestone |-> milestone, needs |-> needs]

Ids(graph) == [i \in DOMAIN graph |-> graph[i].task]

\* TaskDecomposer: the tasks of a milestone one after the other, the first of
\* them after the last of the milestone before.
Decompose(goal) ==
  LET Needs(m, i) ==
        CASE i > 1 -> goal[m].tasks[i - 1]
          [] i = 1 /\ m = 1 -> None
          [] i = 1 /\ m > 1 -> IF goal[m - 1].tasks = <<>> THEN MilestonePassed
                               ELSE Last(goal[m - 1].tasks)
  IN  FlattenSeq([m \in DOMAIN goal |->
        [i \in DOMAIN goal[m].tasks |-> Node(goal[m].tasks[i], m, Needs(m, i))]])

-----------------------------------------------------------------------------
\* TaskExecutionStateManager.  (A slip: only the first task that is not yet
\* completed is looked at.)
PrerequisiteOk(progress, node) ==
  node.needs \in {None, MilestonePassed} \cup ToSet(progress.completed)

InOrderOnly(graph, progress) ==
  LET open == SelectSeq(graph, LAMBDA n : n.task \notin ToSet(progress.completed))
  IN  IF open # <<>> /\ open[1].task \notin ToSet(progress.failed)
         /\ PrerequisiteOk(progress, open[1])
      THEN open[1].task ELSE None

CurrentTask(graph, progress) ==
  LET open == {i \in DOMAIN graph :
                 /\ graph[i].task \notin ToSet(progress.completed) \cup ToSet(progress.failed)
                 /\ PrerequisiteOk(progress, graph[i])}
  IN  IF open = {} THEN None ELSE graph[Min(open)].task

\* next_action of a new manager is the first task, whatever its prerequisite.
NewProgress(graph) ==
  [completed |-> <<>>, pending |-> Ids(graph), failed |-> <<>>, retries |-> 0,
   next |-> IF graph = <<>> THEN None ELSE graph[1].task]

AddOnce(list, task) == IF Contains(list, task) THEN list ELSE Append(list, task)

MarkCompleted(graph, progress, task) ==
  LET p == [progress EXCEPT !.pending = RemoveFirst(@, task),
                            !.failed = RemoveFirst(@, task),
                            !.completed = AddOnce(@, task)]
  IN  [p EXCEPT !.next = CurrentTask(graph, p)]

MarkFailed(graph, progress, task) ==
  LET p == [progress EXCEPT !.pending = RemoveFirst(@, task),
                            !.failed = AddOnce(@, task),
                            !.retries = @ + 1]
  IN  [p EXCEPT !.next = CurrentTask(graph, p)]

-----------------------------------------------------------------------------
\* LongHorizonValidator.  The search with three colours finds a cycle exactly
\* when there are tasks each of which is a prerequisite of another of them.
Before(graph) == {<<n.needs, n.task>> : n \in ToSet(graph)} \cap (ToSet(Ids(graph)) \X ToSet(Ids(graph)))

HasCycle(graph) ==
  \E S \in (SUBSET ToSet(Ids(graph))) \ {{}} : \A t \in S : \E u \in S : <<u, t>> \in Before(graph)

GraphIssues(orders, graph) ==
  {issue \in {"order", "empty", "cycle"} :
     CASE issue = "order" -> \E i, j \in DOMAIN orders : i < j /\ orders[i] > orders[j]
       [] issue = "empty" -> graph = <<>>
       [] issue = "cycle" -> HasCycle(graph)}

StateIssues(graph, progress) ==
  {issue \in {"prerequisite", "incomplete"} :
     CASE issue = "prerequisite" ->
            \E n \in ToSet(graph) : n.task \in ToSet(progress.pending) /\ n.needs \in ToSet(progress.pending)
       [] issue = "incomplete" ->
            ToSet(progress.completed) \cup ToSet(progress.pending) \cup ToSet(progress.failed)
              # ToSet(Ids(graph))}

-----------------------------------------------------------------------------
\* GoalExperienceRecord and the store: the first record of an id stays.
AddExperience(store, x) ==
  IF \E y \in ToSet(store) : y.id = x.id THEN store ELSE Append(store, x)

Share(part, whole) == IF whole = {} THEN 0 ELSE (100 * Cardinality(part \cap whole)) \div Cardinality(whole)

\* GoalMatcher: type, likeness of the description, titles, tasks.
MatchScore(x, type, alike, titles, graph) ==
  (IF type = x.type THEN 30 ELSE 0) + (25 * alike) \div 100
  + (25 * Share(ToSet(x.path), titles)) \div 100
  + (20 * Share(ToSet(x.pattern), ToSet(Ids(graph)))) \div 100

\* sort(): the positions in S by their keys, of equal keys the first one first.
Sorted(S, key) ==
  LET Precedes(i, j) == key[i] < key[j] \/ (key[i] = key[j] /\ i < j)
  IN  [n \in 1..Cardinality(S) |->
         CHOOSE i \in S : Cardinality({j \in S : Precedes(j, i)}) = n - 1]

\* retrieve(): by falling score, cut off at the limit.
Retrieve(store, score, limit) ==
  LET first == Sorted(DOMAIN store, [i \in DOMAIN store |-> 100 - score[i]])
  IN  [n \in 1..Min({Len(store), limit}) |-> store[first[n]]]

\* The tasks that are not removed in the order of a path, those it does not
\* name at the end.
PathOrder(graph, removed, path) ==
  LET place(task) == {i \in DOMAIN path : path[i] = task}
      key  == [i \in DOMAIN graph |-> IF place(graph[i].task) = {} THEN Cardinality(ToSet(path)) + 1
                                      ELSE Max(place(graph[i].task))]
      kept == {i \in DOMAIN graph : graph[i].task \notin removed}
  IN  [n \in 1..Cardinality(kept) |-> graph[Sorted(kept, key)[n]]]

\* goal_memory's PlanningOptimizer: a graph without the points that failed.
OptimizedGraph(graph, x) == PathOrder(graph, ToSet(x.failed), x.path)

\* TaskGraphAnalyzer.
MaxTasks == 8
Analysis(orders, graph) ==
  LET ids   == Ids(graph)
      whole == ids # <<>> /\ "cycle" \notin GraphIssues(orders, graph)
  IN  [complete  |-> whole,
       redundant |-> SubSeq(ids, MaxTasks + 1, Len(ids)),
       risky     |-> ToSet(ids),
       failure   |-> (IF ids = <<>> THEN 20 ELSE 50) + (IF whole THEN 0 ELSE 20)]

\* AdaptivePlannerOptimizer: an order, and what it leaves out.
Reference(orders, graph, x) ==
  LET extra == ToSet(Analysis(orders, graph).redundant)
  IN  [order    |-> Ids(PathOrder(graph, extra \cup ToSet(x.failed), x.path)),
       removed  |-> extra \cup (ToSet(x.failed) \cap (ToSet(Ids(graph)) \ extra)),
       recovery |-> Analysis(orders, graph).risky]

\* PlanningScorer, in hundredths.
PlanningScore(orders, graph, x) ==
  LET a     == Analysis(orders, graph)
      alike == Share(ToSet(x.pattern), ToSet(Ids(graph)))
  IN  (30 * (IF a.complete THEN 100 ELSE 40) + 25 * alike + 25 * (100 - a.failure)
       + 20 * (IF x.success THEN 100 ELSE 40)) \div 100

\* PlanningOptimizationValidator.
ReferenceIssues(ref, graph) ==
  {issue \in {"empty", "repeated", "removed", "incomplete"} :
     CASE issue = "empty" -> ref.order = <<>>
       [] issue = "repeated" -> Cardinality(ToSet(ref.order)) # Len(ref.order)
       [] issue = "removed" -> ref.removed \cap ToSet(ref.order) # {}
       [] issue = "incomplete" -> ToSet(ref.order) # ToSet(Ids(graph)) \ ref.removed}
=============================================================================
