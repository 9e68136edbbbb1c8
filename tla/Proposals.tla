-------------------------------- MODULE Proposals --------------------------------
(***************************************************************************)
(* reflex/, behavior/, action_proposal/ and safety_gate/: how the player   *)
(* fares, what a goal asks to be done and in which order, the actions      *)
(* proposed for that, and whether an action may be taken.  Nothing is      *)
(* executed here: every record is a reference for what comes next.         *)
(***************************************************************************)
EXTENDS ScreenState

CONSTANT Theme   \* "kill", "collect" or "other" of what the name of a quest or target says

\* ReflexThresholds
Thresholds(hp, mp) == [hp |-> hp, mp |-> mp]

\* DangerEventDetector.detect: of the dead no gauge is told.
Shown(gauge) == gauge # NoGauge
DangerEvents(limit, hp, mp, signal, effects, warnings) ==
  (IF signal \/ hp = 0 THEN {"DEATH"}
   ELSE (IF Shown(hp) /\ hp < limit.hp THEN {"HP_LOW"} ELSE {})
        \cup (IF Shown(mp) /\ mp < limit.mp THEN {"MP_LOW"} ELSE {}))
  \cup (IF effects = {} THEN {} ELSE {"STATUS_ABNORMAL"})
  \cup (IF warnings = {} THEN {} ELSE {"UI_ALERT"})

\* ReflexStateDetector._state
ReflexState(events, hp, mp) ==
  CASE "DEATH" \in events -> "DEATH"
    [] "DEATH" \notin events /\ {"HP_LOW", "MP_LOW"} \subseteq events -> "DANGER"
    [] {"DEATH", "MP_LOW"} \cap events = {} /\ "HP_LOW" \in events -> "LOW_HP"
    [] {"DEATH", "HP_LOW"} \cap events = {} /\ "MP_LOW" \in events -> "LOW_MP"
    [] OTHER -> IF "STATUS_ABNORMAL" \in events THEN "DANGER"
                ELSE IF "UI_ALERT" \in events THEN "UI_ALERT"
                ELSE IF Shown(hp) \/ Shown(mp) THEN "NORMAL" ELSE "UNKNOWN"

\* ReflexStateDetector._confidence
ReflexConfidence(hp, mp, fused, state) ==
  LET known == (IF Shown(hp) THEN 1 ELSE 0) + (IF Shown(mp) THEN 1 ELSE 0)
      base == (CASE known = 2 -> 90 [] known = 1 -> 70 [] known = 0 -> 40) - (IF fused < 5000 THEN 10 ELSE 0)
  IN  IF state = "UNKNOWN" THEN AtMost(50, base) ELSE base

\* ReflexStateDetector.detect; what the context holds of a player has no gauges.
Reflex(limit, fused, hp, mp, signal, effects, warnings) ==
  LET events == DangerEvents(limit, hp, mp, signal, effects, warnings)
      state == ReflexState(events, hp, mp)
  IN  [state |-> state, hp |-> hp, mp |-> mp, events |-> events,
       confidence |-> ReflexConfidence(hp, mp, fused, state)]

\* ReflexValidator.validate
ReflexIssues(r) ==
  (IF NoGauge \in {r.hp, r.mp} THEN {"missing hp/mp"} ELSE {})
  \cup (IF r.state = "UNKNOWN" THEN {"state unknown"} ELSE {})
  \cup (IF r.confidence < 50 THEN {"low confidence"} ELSE {})

-----------------------------------------------------------------------------
\* GoalMapper.map, of the first goal recommended if there is one.
StepTypes(goals, hint) ==
  LET Says(theme) == \E g \in goals : theme \in {Theme[g.quest], Theme[hint]}
      Of(type) == \E g \in goals : g.type = type
  IN  CASE Of("NPC_INTERACTION_REFERENCE") -> <<"NAVIGATE", "INTERACT", "VERIFY">>
        [] Of("QUEST_PROGRESS") ->
             IF Says("kill") THEN <<"NAVIGATE", "COMBAT", "VERIFY">>
             ELSE IF Says("collect") THEN <<"NAVIGATE", "COLLECT", "VERIFY">>
             ELSE <<"QUEST_ANALYSIS", "VERIFY">>
        [] Of("KNOWLEDGE_QUERY") -> <<"QUEST_ANALYSIS", "WAIT">>
        [] OTHER -> <<"QUEST_ANALYSIS">>

\* BehaviorPlanner._step_target
StepTarget(goals, hint) ==
  IF goals = {} THEN NoName ELSE IF hint # NoName THEN hint ELSE (CHOOSE g \in goals : TRUE).target

\* BehaviorSequenceBuilder.order, a stable sort.
StepRank ==
  [WAIT |-> 0, NAVIGATE |-> 1, QUEST_ANALYSIS |-> 2, INTERACT |-> 3, COMBAT |-> 3, COLLECT |-> 3, VERIFY |-> 4]
InStepOrder(steps) ==
  LET rank(i) == StepRank[steps[i].type]
      Earlier(i) == {j \in DOMAIN steps : rank(j) < rank(i) \/ (rank(j) = rank(i) /\ j < i)}
  IN  [n \in 1..Len(steps) |-> steps[CHOOSE i \in DOMAIN steps : Cardinality(Earlier(i)) = n - 1]]

BehaviorStep(type, target) == [type |-> type, target |-> target]

\* BehaviorPlanner.plan
PlanBehavior(goals, route, events, hint) ==
  LET types == StepTypes(goals, hint)
      steps == [i \in DOMAIN types |-> BehaviorStep(types[i], StepTarget(goals, hint))]
      wait == IF events = {} THEN <<>> ELSE <<BehaviorStep("WAIT", NoName)>>
  IN  [goals |-> goals, steps |-> InStepOrder(steps \o wait),
       confidence |-> 90 - (IF route.steps = <<>> THEN 10 ELSE 0) - (IF events = {} THEN 0 ELSE 10)]

\* BehaviorValidator.validate
BehaviorIssues(b) ==
  (IF b.goals = {} THEN {"missing goal reference"} ELSE {})
  \cup (IF b.steps = <<>> THEN {"empty behavior steps"} ELSE {})
  \cup (IF b.confidence < 50 THEN {"low confidence"} ELSE {})

-----------------------------------------------------------------------------
ActionProposal(id, type, target, confidence) ==
  [id |-> id, type |-> type, target |-> target, confidence |-> confidence]

\* ActionTargetResolver.resolve: one goes where the route goes to.
ActionTarget(step, route) ==
  CASE step.type = "NAVIGATE" -> IF route.target # NoName THEN route.target ELSE step.target
    [] step.type = "QUEST_ANALYSIS" -> IF step.target # NoName THEN step.target ELSE "quest_state"
    [] step.type = "VERIFY" -> IF step.target # NoName THEN step.target ELSE "quest_progress"
    [] step.type = "WAIT" -> "recovery"
    [] step.type \in {"INTERACT", "COMBAT", "COLLECT"} -> step.target

\* ActionProposalMapper.map
ActionOfStep(step) == IF step.type = "QUEST_ANALYSIS" THEN "OBSERVE" ELSE step.type
Propose(behavior, route) ==
  [i \in DOMAIN behavior.steps |->
     LET step == behavior.steps[i]
     IN  ActionProposal(i, ActionOfStep(step), ActionTarget(step, route), behavior.confidence)]

\* ActionProposalValidator.validate, validate_many
ProposalVerdict(action) == IF action.target = NoName \/ action.confidence < 50 THEN "WARNING" ELSE "VALID"
ProposalsVerdict(actions) ==
  IF actions = <<>> \/ \E i \in DOMAIN actions : ProposalVerdict(actions[i]) = "WARNING" THEN "WARNING" ELSE "VALID"

-----------------------------------------------------------------------------
\* SafetyRules.evaluate
RiskFactors(action, state) ==
  (IF Shown(state.player.hp) /\ state.player.hp < 30 /\ action.type = "COMBAT" THEN {"hp low combat risk"} ELSE {})
  \cup (IF action.target = NoName THEN {"unknown target"} ELSE {})

\* SafetyEvaluator.evaluate
GateDecision(action, state, reflex) ==
  IF reflex.state = "DEATH" THEN "BLOCKED"
  ELSE IF RiskFactors(action, state) # {} THEN "WARNING" ELSE "ALLOW"
=============================================================================
