----------------------------- MODULE FailureLearning -----------------------------
(***************************************************************************)
(* reflection/, failure_intelligence/ and task_planning/recovery.py: what  *)
(* is concluded from an execution, remembered of it, and held against the  *)
(* tasks still to come.  Confidences and probabilities are in hundredths.  *)
(***************************************************************************)
EXTENDS Integers, Sequences, SequencesExt

MinConfidence == 60
NoWorld == 101        \* no world state was given
Success == "none"     \* no failure type

Result == {"COMPLETED", "FAILED", "BLOCKED", "RUNNING"}

\* Feedback of the observation after an execution.  None counts as Agreement.
Feedbacks == [success : BOOLEAN, saw : {"expected", "WORLD_MISMATCH", "KNOWLEDGE_ERROR"}]
Agreement == [success |-> TRUE, saw |-> "expected"]

\* ReflectionEngine._confidence
ReflectConfidence(result, feedback, world) ==
  CASE world # NoWorld -> world
    [] world = NoWorld /\ result = "COMPLETED" -> IF feedback.success THEN 100 ELSE 40
    [] world = NoWorld /\ result # "COMPLETED" -> 0

\* _analyze: a failed execution outweighs what was seen, what was seen the
\* confidence, and the confidence a failed observation.
FailureOf(result, feedback, world) ==
  IF result \in {"FAILED", "BLOCKED"} THEN "EXECUTION_FAILED"
  ELSE IF feedback.saw # "expected" THEN feedback.saw
  ELSE IF ReflectConfidence(result, feedback, world) < MinConfidence THEN "LOW_CONFIDENCE"
  ELSE IF feedback.success THEN Success ELSE "OBSERVATION_FAILED"

Reflection(result, feedback, world) ==
  [failure |-> FailureOf(result, feedback, world),
   confidence |-> ReflectConfidence(result, feedback, world)]

\* ReflectionMemory.record
NoMemory == [history |-> <<>>, retries |-> 0, confidence |-> 0, last |-> "nothing"]

Remember(memory, r) ==
  [history |-> IF r.failure = Success THEN memory.history ELSE Append(memory.history, r.failure),
   retries |-> IF r.failure = Success THEN memory.retries ELSE memory.retries + 1,
   confidence |-> r.confidence, last |-> r.failure]

\* ReflectionTrigger
ReplanRequired(r) == r.failure # Success

\* RecoveryPlanner of task_planning
RecoveryAction(failure) ==
  CASE failure \in {"EXECUTION_FAILED", Success} -> "retry"
    [] failure \in {"WORLD_MISMATCH", "OBSERVATION_FAILED"} -> "re-observation"
    [] failure = "KNOWLEDGE_ERROR" -> "knowledge_refresh"
    [] failure = "LOW_CONFIDENCE" -> "human_confirmation"

-----------------------------------------------------------------------------
\* FailureExtractor: the failed steps of the execution trace, or failing that
\* the current task of the planning trace.  Steps are not tasks of the graph.
Affected(steps, current) == IF steps # {} THEN steps ELSE {current} \ {"none"}

Pattern(r, steps, current) ==
  [failure |-> r.failure, tasks |-> Affected(steps, current), success |-> 0,
   confidence |-> r.confidence]

\* FailurePatternMatcher: context, tasks, type, confidence.  (hits of 3 facts.)
PatternScore(p, hits, tasks, failure) ==
  10 * hits
  + (IF tasks = {} THEN 0 ELSE (30 * Cardinality(tasks \cap p.tasks)) \div Cardinality(tasks))
  + (IF failure = p.failure THEN 20 ELSE 0)
  + (20 * p.confidence) \div 100

BestPattern(patterns, hits, tasks, failure) ==
  CHOOSE i \in DOMAIN patterns :
    \A j \in DOMAIN patterns :
      LET a == PatternScore(patterns[i], hits[i], tasks, failure)
          b == PatternScore(patterns[j], hits[j], tasks, failure)
      IN  a > b \/ (a = b /\ i <= j)

\* FailureAnalyzer._risk, of a match and a rate of success.
RiskLevel(score, success) ==
  LET combined == 60 * score + 40 * (100 - success)
  IN  CASE combined >= 6000 -> "HIGH"
        [] combined >= 3000 /\ combined < 6000 -> "MEDIUM"
        [] combined < 3000 -> "LOW"

\* FailurePredictor.predict: the worst pattern of a task counts; a rate of zero
\* is taken for an unknown one.  (A slip: the first pattern counts.)
Base(p) == IF p.success = 0 THEN 50 ELSE 100 - p.success

Naming(patterns, task) == {i \in DOMAIN patterns : task \in patterns[i].tasks}

FirstProbability(patterns, task) ==
  LET of == Naming(patterns, task)
  IN  IF of = {} THEN 10 ELSE Base(patterns[Min(of)])

Probability(patterns, task) ==
  LET of == Naming(patterns, task)
  IN  IF of = {} THEN 10 ELSE Max({0} \cup {Base(patterns[i]) : i \in of})

\* build_prevention_reference
Prevention(patterns, tasks) ==
  [avoid |-> {t \in tasks : Probability(patterns, t) >= 60},
   recovery |-> {t \in tasks : Probability(patterns, t) \in 30..59}]
=============================================================================
