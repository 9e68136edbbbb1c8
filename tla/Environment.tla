------------------------------- MODULE Environment -------------------------------
(***************************************************************************)
(* environment/, world_model/, environment_reasoning/ and                  *)
(* environment_planning/: what is around, what of it has changed, what     *)
(* that offers and risks, and what it means for a goal.  Confidences are   *)
(* in hundredths; names are compared and never read.                       *)
(***************************************************************************)
EXTENDS Integers, Sequences, FiniteSets, SequencesExt

CONSTANTS
  ItemNames,   \* names of the items the knowledge provider has
  Keywords,    \* _RESOURCE_KEYWORDS
  Dangerous    \* _HIGH_RISK_LOCATIONS

NoPlace == "nowhere"
Lowest(values) == CHOOSE x \in values : \A y \in values : x <= y

\* EnvironmentState.  The conditions are the counts, the confidence, and a
\* conflict, which no observation but whoever makes a state may note.
EnvironmentState(location, entities, resources, observed, conflict, confidence) ==
  [location |-> location, entities |-> entities, resources |-> resources,
   conditions |-> <<observed, Cardinality(entities), conflict>>,
   conflict |-> conflict, confidence |-> confidence]

\* EnvironmentCollector.collect: resources are what the texts name of the items
\* known and of the keywords.
Collect(o) ==
  EnvironmentState(o.map, o.entities, o.mentioned \cap (ItemNames \cup Keywords),
                   o.observed, FALSE, o.confidence)

\* EnvironmentValidator.validate
EnvironmentVerdict(s) ==
  IF s.conflict \/ (s.location = NoPlace /\ s.entities = {}) THEN "BLOCKED"
  ELSE IF s.confidence < 50 /\ s.entities # {} THEN "WARNING"
  ELSE "VALID"

\* EnvironmentSnapshotManager: what a snapshot says has changed.
SnapshotChanges(before, after) ==
  {c \in {"location", "appeared", "disappeared", "confidence"} :
     \/ c = "location" /\ before.location # after.location
     \/ c = "appeared" /\ after.entities \ before.entities # {}
     \/ c = "disappeared" /\ before.entities \ after.entities # {}
     \/ c = "confidence" /\ before.confidence # after.confidence}

-----------------------------------------------------------------------------
\* EnvironmentTransitionDetector.detect: every change, and the weightiest of them.
Transition(before, after) ==
  [from |-> before, to |-> after,
   type |-> CASE before.location # after.location -> "location"
              [] before.location = after.location /\ before.entities # after.entities -> "entity"
              [] before.location = after.location /\ before.entities = after.entities
                   /\ before.resources # after.resources -> "resource"
              [] before.location = after.location /\ before.entities = after.entities
                   /\ before.resources = after.resources
                   /\ before.conditions # after.conditions -> "condition"
              [] OTHER -> "none",
   confidence |-> Lowest({before.confidence, after.confidence})]

\* EnvironmentEventDetector.detect
Event(type, about) == [type |-> type, about |-> about]

Events(t) ==
  {Event("ENTITY_APPEARED", x) : x \in t.to.entities \ t.from.entities}
  \cup {Event("ENTITY_DISAPPEARED", x) : x \in t.from.entities \ t.to.entities}
  \cup (IF t.from.location # t.to.location THEN {Event("LOCATION_CHANGED", t.to.location)} ELSE {})
  \cup (IF t.from.resources # t.to.resources THEN {Event("RESOURCE_CHANGED", "")} ELSE {})
  \cup (IF t.from.conditions # t.to.conditions THEN {Event("CONDITION_CHANGED", "")} ELSE {})

\* WorldStatePredictor.predict: who went to and fro is expected to go on so.
PredictLocation(places) ==
  LET n == Len(places)
  IN  IF places = <<>> THEN NoPlace
      ELSE IF n >= 3 /\ places[n] = places[n - 2] /\ places[n - 1] # places[n] THEN places[n - 1]
      ELSE places[n]

Predict(history) ==
  LET places == SelectSeq([i \in DOMAIN history |-> history[i].location], LAMBDA p : p # NoPlace)
      sum == FoldFunction(LAMBDA x, y : x.confidence + y, 0, history)
  IN  [location |-> PredictLocation(places),
       entities |-> UNION {history[i].entities : i \in DOMAIN history},
       confidence |-> IF history = <<>> THEN 0 ELSE Lowest({sum \div Len(history), 90})]

-----------------------------------------------------------------------------
\* EnvironmentReasoner.interpret: events add a little to the confidence.
SemanticConfidence(s, events) ==
  Lowest({100, s.confidence + Lowest({10, 2 * Cardinality(events)})})

\* _is_new_location
NewLocation(s, history) ==
  /\ history # <<>> /\ s.location # NoPlace
  /\ s.location \notin {history[i].location : i \in 1..(Len(history) - 1)}

\* EnvironmentOpportunityDetector.detect; of the entities matched by knowledge.
Opportunities(s, history, npcs, monsters) ==
  {[type |-> t, confidence |-> s.confidence] :
     t \in {u \in {"NPC_INTERACTION", "RESOURCE_AVAILABLE", "TASK_PROGRESS", "SAFE_AREA", "NEW_DISCOVERY"} :
              \/ u = "NPC_INTERACTION" /\ npcs # {}
              \/ u = "RESOURCE_AVAILABLE" /\ s.resources # {}
              \/ u = "TASK_PROGRESS" /\ s.entities # {} /\ s.confidence >= 70
              \/ u = "SAFE_AREA" /\ monsters = {} /\ s.confidence >= 70
              \/ u = "NEW_DISCOVERY" /\ NewLocation(s, history)}}

\* EnvironmentRiskAnalyzer.analyze
Risk(s) ==
  IF s.confidence < 50 \/ s.location \in Dangerous THEN "HIGH"
  ELSE IF s.conflict \/ s.confidence < 70 THEN "MEDIUM"
  ELSE "LOW"

\* EnvironmentReasoningValidator.validate: no safety and no progress at high risk.
ReasoningIssues(opportunities, risk) ==
  {o.type : o \in {x \in opportunities : risk = "HIGH" /\ x.type \in {"SAFE_AREA", "TASK_PROGRESS"}}}

-----------------------------------------------------------------------------
NoGoal == "no goal"

\* EnvironmentGoalAdapter: how much each opportunity favours a goal.
SuggestedPriority ==
  [NPC_INTERACTION |-> 85, RESOURCE_AVAILABLE |-> 80, TASK_PROGRESS |-> 75, SAFE_AREA |-> 70,
   NEW_DISCOVERY |-> 65]

Adjustments(opportunities) ==
  {[type |-> o.type, priority |-> SuggestedPriority[o.type], confidence |-> o.confidence] :
     o \in opportunities}

\* EnvironmentRiskAdapter
Constraint(risk) ==
  CASE risk = "HIGH" -> "blocked" [] risk = "MEDIUM" -> "warning" [] OTHER -> "normal"

\* EnvironmentAwarePlanner._confidence
PlanningConfidence(opportunities, risk) ==
  LET base == IF opportunities = {} THEN 50 ELSE Lowest({o.confidence : o \in opportunities})
  IN  CASE risk = "HIGH" -> base \div 2 [] risk = "MEDIUM" -> (base * 8) \div 10 [] OTHER -> base

\* EnvironmentAwarePlanner.build_reference: a goal is recommended or blocked; of
\* no goal there is nothing to block.
EnvironmentReference(opportunities, risk, goal) ==
  LET goals == {goal} \ {NoGoal}
      blocked == Constraint(risk) = "blocked"
  IN  [recommended |-> IF blocked THEN {} ELSE goals,
       blocked |-> IF blocked THEN goals ELSE {},
       adjustments |-> Adjustments(opportunities),
       notes |-> IF Constraint(risk) = "normal" THEN {} ELSE {Constraint(risk)},
       confidence |-> PlanningConfidence(opportunities, risk)]

\* EnvironmentPlanningValidator.validate
PlanningIssues(reference, risk) ==
  (IF reference.recommended = {} /\ reference.blocked = {} /\ reference.adjustments = {}
   THEN {"empty"} ELSE {})
  \cup (IF risk = "HIGH" /\ reference.recommended # {} THEN {"recommended at high risk"} ELSE {})
  \cup (IF risk = "HIGH" /\ reference.blocked = {} THEN {"nothing blocked"} ELSE {})
=============================================================================
