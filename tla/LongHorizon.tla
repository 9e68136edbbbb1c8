------------------------------- MODULE LongHorizon -------------------------------
(***************************************************************************)
(* How scripts/demo_webui.py puts scheduling, task graph, experience,      *)
(* execution, reflection and failure patterns together: the goal that is   *)
(* scheduled first is taken apart, its current task is given a plan and    *)
(* executed, and what is concluded from the last record is marked in the   *)
(* progress, remembered and extracted.                                     *)
(***************************************************************************)
EXTENDS Execution, TaskProgress, GoalSchedule, FailureLearning

CONSTANTS
  Milestones,   \* the milestones of each goal, in their order
  Asked,        \* the records schedule() is called with
  Experiences,  \* records of goals pursued before
  Stored,       \* failure patterns known beforehand
  Worlds,       \* the confidence of the world state at a reflection
  MaxFailures,  \* bound: failures of a session
  MaxStore      \* bound: goal experiences stored

ASSUME HorizonConstants == MaxFailures \in Nat /\ MaxStore \in Nat

\* A task's id is not empty, and in its goal it names that task alone: plans,
\* progress, prerequisites and experience know tasks by their ids only.
TaskName == STRING \ {None, MilestonePassed}

ASSUME TasksOfGoals ==
  \A g \in DOMAIN Milestones :
    /\ Milestones[g] \in Seq([order : Int, tasks : Seq(TaskName)])
    /\ \A m, k \in DOMAIN Milestones[g] :
         \A i \in DOMAIN Milestones[g][m].tasks, j \in DOMAIN Milestones[g][k].tasks :
           Milestones[g][m].tasks[i] = Milestones[g][k].tasks[j] => m = k /\ i = j

\* Milestones are listed by their order; the validator only reports others.
ASSUME MilestonesInOrder ==
  \A g \in DOMAIN Milestones : \A m, k \in DOMAIN Milestones[g] :
    m < k => Milestones[g][m].order <= Milestones[g][k].order

\* A goal is asked for by one record; an experience has the lists of its record.
ASSUME GoalsAsked ==
  \A rs \in Asked :
    /\ rs \in Seq([goal : DOMAIN Milestones, importance : Int, urgency : Int, cost : Int,
                   confidence : Int, dependency : STRING, deadline : Int])
    /\ \A i, j \in DOMAIN rs : rs[i].goal = rs[j].goal => i = j

\* Failures carry percentages, and so do world states, when there is one.
ASSUME FailuresTyped ==
  /\ Worlds \subseteq 0..NoWorld
  /\ \A ps \in Stored :
       ps \in Seq([failure : STRING, tasks : SUBSET STRING, success : 0..100, confidence : 0..100])

ASSUME ExperiencesTyped ==
  \A x \in Experiences :
    x \in [id : STRING, type : STRING, path : Seq(STRING), failed : Seq(STRING),
          pattern : Seq(STRING), success : BOOLEAN]

VARIABLES
  asked,     \* the records being scheduled
  goal,      \* the goal the session is about
  graph,     \* its graph of tasks
  progress,  \* the state manager's state
  task,      \* the task being executed, None when there is none
  store,     \* GoalExperienceStore
  memory,    \* ReflectionMemory
  patterns,  \* failure patterns, those stored first
  recovery   \* the last recovery action

planVars == <<asked, goal, graph, store>>
learnVars == <<memory, patterns, recovery>>
vars == <<execVars, planVars, progress, task, learnVars>>

Orders(g) == [m \in DOMAIN Milestones[g] |-> Milestones[g][m].order]

\* What retrieval scores an experience by: descriptions are not alike.
Likeness(x) == MatchScore(x, "QUEST", 0, {}, graph)

Init ==
  /\ ExecInit
  /\ asked = <<>> /\ goal = None /\ graph = <<>> /\ progress = NewProgress(<<>>)
  /\ task = None /\ store = <<>> /\ memory = NoMemory
  /\ patterns \in Stored /\ recovery = "none"

-----------------------------------------------------------------------------
Learn ==
  /\ goal = None /\ asked = <<>> /\ Len(store) < MaxStore
  /\ \E x \in Experiences : store' = AddExperience(store, x)
  /\ UNCHANGED <<execVars, asked, goal, graph, progress, task, learnVars>>

ScheduleGoals ==
  /\ goal = None /\ asked = <<>>
  /\ asked' \in Asked
  /\ UNCHANGED <<execVars, goal, graph, store, progress, task, learnVars>>

\* The goal selected is taken apart and gets a manager.
TakeGoal ==
  /\ asked # <<>>
  /\ goal' = Schedule(asked).selected
  /\ graph' = Decompose(Milestones[goal'])
  /\ progress' = NewProgress(graph')
  /\ asked' = <<>>
  /\ UNCHANGED <<execVars, store, task, learnVars>>

\* The graph that the best experience recommends, with a manager of its own.
Optimize ==
  /\ goal # None /\ task = None /\ store # <<>> /\ progress = NewProgress(graph)
  /\ graph' = OptimizedGraph(graph, Retrieve(store, [i \in DOMAIN store |-> Likeness(store[i])], 1)[1])
  /\ progress' = NewProgress(graph')
  /\ UNCHANGED <<execVars, asked, goal, store, task, learnVars>>

\* A plan for the current task, or again for one whose failure asked for it.
StartTask ==
  /\ goal # None /\ task = None /\ progress.retries < MaxFailures
  /\ \/ task' = CurrentTask(graph, progress)
     \/ task' \in ToSet(progress.failed) /\ recovery = "retry"
  /\ task' # None
  /\ \E p \in Plan : BeginRun(p)
  /\ UNCHANGED <<planVars, progress, learnVars>>

RunStep ==
  /\ task # None /\ ExecStep
  /\ UNCHANGED <<planVars, progress, task, learnVars>>

\* An empty plan leaves no record to reflect on; the caller stumbles over it.
NothingToReflect ==
  /\ task # None /\ cur = Idle /\ records = <<>>
  /\ task' = None
  /\ UNCHANGED <<execVars, planVars, progress, learnVars>>

\* Reflection on the last record, and what follows from it.  Its replay may
\* fail to be written after the memory has changed: then nothing follows.
Reflect ==
  /\ task # None /\ cur = Idle /\ records # <<>>
  /\ \E world \in Worlds :
       LET last     == Last(records)
           feedback == [Agreement EXCEPT !.success = ~last.observed \/ last.result = "COMPLETED"]
           r        == Reflection(last.result, feedback, world)
       IN  /\ memory' = Remember(memory, r)
           /\ \/ /\ ~ReplanRequired(r)
                 /\ progress' = MarkCompleted(graph, progress, task)
                 /\ UNCHANGED <<patterns, recovery>>
              \/ /\ ReplanRequired(r)
                 /\ progress' = MarkFailed(graph, progress, task)
                 /\ recovery' = RecoveryAction(r.failure)
                 /\ patterns' = Append(patterns, Pattern(r, {}, task))
              \/ /\ Len(memory'.history) <= MaxFailures
                 /\ UNCHANGED <<progress, patterns, recovery>>
  /\ task' = None
  /\ UNCHANGED <<execVars, planVars>>

Next ==
  \/ Learn \/ ScheduleGoals \/ TakeGoal \/ Optimize
  \/ StartTask \/ RunStep \/ NothingToReflect \/ Reflect

Spec == Init /\ [][Next]_vars

-----------------------------------------------------------------------------
Waiting == {n \in ToSet(graph) : n.task \notin ToSet(progress.completed) \cup ToSet(progress.failed)}

(* No task is completed before what it needs, in whatever order the graph  *)
(* lists it and whatever failed and was retried; every task is accounted   *)
(* for in exactly one way, though completed and failed lists may be        *)
(* entered repeatedly; and work ends early only behind a failure or a      *)
(* prerequisite that the optimized graph no longer has (task_planning/     *)
(* state.py).                                                              *)
PrerequisitesKept ==
  /\ \A n \in ToSet(graph) : n.task \in ToSet(progress.completed) =>
       n.needs \in {None, MilestonePassed} \cup ToSet(progress.completed)
  /\ "incomplete" \notin StateIssues(graph, progress)
  /\ Len(progress.completed) + Len(progress.pending) + Len(progress.failed) = Len(graph)
  /\ Waiting # {} /\ CurrentTask(graph, progress) = None =>
       \/ progress.failed # <<>>
       \/ \E n \in Waiting : n.needs \notin {None, MilestonePassed} \cup ToSet(Ids(graph))

\* How a task failed last, and the pattern matched to that in a context that
\* names the task.
Hits(p, t) == IF p.tasks = {t} THEN 1 ELSE 0

FailedBy(t) == patterns[Max({i \in DOMAIN patterns : patterns[i].tasks = {t}})].failure

Matched(t) ==
  BestPattern(patterns, [i \in DOMAIN patterns |-> Hits(patterns[i], t)], ToSet(Ids(graph)), FailedBy(t))

\* What outweighs how a task failed last: an old pattern that spreads over tasks of
\* the graph, and one that is certain over one that is not at all.
Comparable ==
  \A p \in ToSet(patterns) :
    p.confidence < 100 /\ Cardinality(ToSet(Ids(graph)) \cap p.tasks) <= 1

(* Whatever has failed in this session is warned of from then on: the      *)
(* prevention reference gives it a recovery point or advises against it,   *)
(* even when an older pattern thought well of it; as long as patterns are  *)
(* comparable the one matched to it failed the same way, and is of more    *)
(* than low risk however it scores unless that failure was known and its   *)
(* rate of success not zero; and as many failures are remembered as        *)
(* counted (failure_intelligence/).                                        *)
FailuresWarned ==
  LET reference == Prevention(patterns, ToSet(Ids(graph)))
      Same(t) == {p \in ToSet(patterns) : p.failure = FailedBy(t)}
  IN  /\ \A t \in ToSet(progress.failed) :
           /\ t \in reference.avoid \cup reference.recovery
           /\ Comparable => patterns[Matched(t)].failure = FailedBy(t)
           /\ Comparable /\ (\A p \in Same(t) : p.success = 0) =>
                RiskLevel(0, patterns[Matched(t)].success) # "LOW"
      /\ progress.retries <= memory.retries

(* A schedule covers its goals once each, and unless a goal depends on one *)
(* that depends on another, its own validator accepts it; and the order    *)
(* that experience recommends for a graph is accepted by its validator     *)
(* unless nothing of the graph is left, with a score that its model allows *)
(* (between tasks: neither graph nor experiences change during one).       *)
AdviceAccepted ==
  /\ asked # <<>> =>
       /\ ScheduleIssues(Schedule(asked), asked) \subseteq {"dependency"}
       /\ OneLevel(asked) => ScheduleIssues(Schedule(asked), asked) = {}
  /\ goal # None /\ task = None =>
       /\ GraphIssues(Orders(goal), graph) \subseteq {"empty"}
       /\ \A x \in ToSet(store) :
            /\ ReferenceIssues(Reference(Orders(goal), graph, x), graph) \subseteq {"empty"}
            /\ PlanningScore(Orders(goal), graph, x) \in 0..100
=============================================================================
