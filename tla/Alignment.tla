-------------------------------- MODULE Alignment --------------------------------
(***************************************************************************)
(* decision_reference/ and human_alignment/: the options a decision may    *)
(* refer to, and what the user's earlier answers leave of them.  Derived   *)
(* scores are in ten-thousandths, rounded down.  The lists of options are  *)
(* sets: only texts depend on their order.                                 *)
(***************************************************************************)
EXTENDS Environment

\* FailurePreventionReference, as far as a decision reads it; recovery points in order.
Prevention(avoid, warnings, recovery) ==
  [avoid |-> avoid, warnings |-> warnings, recovery |-> recovery]
NoPrevention == Prevention({}, {}, <<>>)

\* DecisionRiskIntegrator._risk_level
RiskLevel(reference, prevention) ==
  IF reference.blocked # {} THEN "HIGH"
  ELSE IF reference.notes # {} \/ prevention.warnings # {} THEN "MEDIUM"
  ELSE "LOW"

\* DecisionRiskIntegrator.integrate
Notes(reference, prevention) ==
  [level |-> RiskLevel(reference, prevention),
   avoid |-> prevention.avoid, suggestions |-> prevention.recovery]

\* ReferenceOption: identified by a type, by a task, or by its number alone.
Option(id, action, target, confidence) ==
  [id |-> id, action |-> action, target |-> target, confidence |-> confidence]

\* _ACTION_MAP
ActionOf ==
  [NPC_INTERACTION |-> "TALK", RESOURCE_AVAILABLE |-> "COLLECT", TASK_PROGRESS |-> "OBSERVE",
   SAFE_AREA |-> "OBSERVE", NEW_DISCOVERY |-> "MOVE_HINT"]

\* (A slip: what is recommended is recommended whatever the risk.)
OptionsAnyway(reference, notes, goal) ==
  [recommended |-> {Option(<<"opt", a.type>>, ActionOf[a.type], goal, a.confidence) : a \in reference.adjustments},
   alternatives |-> {Option(<<"avoid", task>>, "QUERY_KNOWLEDGE", task, 30) : task \in notes.avoid}]

\* DecisionReferenceBuilder._options
Options(reference, notes, goal) ==
  IF notes.level = "HIGH"
  THEN [recommended |-> {},
        alternatives |-> {Option(<<"alt", i>>, "OBSERVE", notes.suggestions[i], 40) :
                            i \in DOMAIN notes.suggestions}]
  ELSE [recommended |-> {Option(<<"opt", a.type>>, ActionOf[a.type], goal, a.confidence) :
                           a \in reference.adjustments},
        alternatives |-> {Option(<<"avoid", task>>, "QUERY_KNOWLEDGE", task, 30) :
                            task \in notes.avoid}]

EnvironmentAlignment(reference) ==
  reference.confidence * (IF reference.blocked = {} THEN 100 ELSE 30)

\* _confidence
DecisionConfidence(environment, quality, level) ==
  LET base == (5 * environment + 3 * quality) \div 10 + 2000
  IN  CASE level = "HIGH" -> base \div 2 [] level = "MEDIUM" -> (base * 8) \div 10 [] OTHER -> base

\* DecisionReferenceBuilder.build
BuildDecision(reference, prevention, quality, goal) ==
  LET notes == Notes(reference, prevention)
      options == Options(reference, notes, goal)
      environment == EnvironmentAlignment(reference)
  IN  [recommended |-> options.recommended, alternatives |-> options.alternatives,
       level |-> notes.level,
       confidence |-> DecisionConfidence(environment, quality, notes.level),
       environment |-> environment, quality |-> quality]

\* DecisionScorer.score
RiskAwareness == [LOW |-> 10000, MEDIUM |-> 6000, HIGH |-> 2000]
DecisionScore(decision, success) ==
  (3 * decision.environment + 3 * decision.quality
     + 2 * RiskAwareness[decision.level] + 2 * success) \div 10

\* DecisionReferenceValidator.validate
DecisionIssues(decision, score) ==
  (IF decision.recommended \cup decision.alternatives = {} THEN {"no options"} ELSE {})
  \cup (IF score \notin 0..10000 THEN {"score"} ELSE {})
  \cup (IF decision.level = "HIGH" /\ decision.recommended # {}
        THEN {"recommended at high risk"} ELSE {})

-----------------------------------------------------------------------------
\* PreferenceMemory: every answer ever given, and nothing of the goal it was for.
Record(option, action) == [option |-> option, action |-> action]

KeptAnswers(memory) == SelectSeq(memory, LAMBDA r : r.action \in {"accept", "correct"})
Accepted(memory) == {KeptAnswers(memory)[i].option : i \in DOMAIN KeptAnswers(memory)}
Rejected(memory) ==
  {memory[i].option : i \in {j \in DOMAIN memory : memory[j].action = "reject"}}

\* approval_rate
ApprovalRate(memory) ==
  IF memory = <<>> THEN 5000 ELSE (Len(KeptAnswers(memory)) * 10000) \div Len(memory)

\* FeedbackProcessor.process
Process(memory, option, action) == Append(memory, Record(option, action))

\* HumanAlignmentAligner._apply_memory: the recommended but the rejected, and the
\* alternatives accepted, rejected since or not.
Preferred(decision, memory) ==
  {o \in decision.recommended : o.id \notin Rejected(memory)}
  \cup {o \in decision.alternatives :
          /\ o.id \in Accepted(memory)
          /\ \A r \in decision.recommended : r.id = o.id => r.id \in Rejected(memory)}

\* _preference_match
PreferenceMatch(decision, memory) ==
  LET ids == {o.id : o \in decision.recommended}
  IN  IF ids = {} THEN 5000
      ELSE (Cardinality(ids \cap Accepted(memory)) * 10000) \div Cardinality(ids)

\* _score
AlignmentScore(decision, memory) ==
  LET compatible == CASE decision.level = "LOW" -> 10000
                      [] decision.level = "MEDIUM" -> 7000
                      [] OTHER -> 3000
  IN  (4 * PreferenceMatch(decision, memory) + 3 * ApprovalRate(memory)
         + 2 * decision.confidence + compatible) \div 10

\* HumanAlignmentAligner.align
Align(decision, memory) ==
  [preferred |-> Preferred(decision, memory), rejected |-> Rejected(memory),
   score |-> AlignmentScore(decision, memory)]

\* HumanAlignmentValidator.validate: the options rejected and still preferred.
AlignmentIssues(aligned) == {o.id : o \in aligned.preferred} \cap aligned.rejected
=============================================================================
