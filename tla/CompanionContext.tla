----------------------------- MODULE CompanionContext -----------------------------
(***************************************************************************)
(* perception/, maple_context/ and perception_fusion/: what a screen says  *)
(* bound to what is known, the context the agent holds, and the two laid   *)
(* over each other.  The screen and the context are of different moments.  *)
(* Confidences are in hundredths, consistencies and fused ones in          *)
(* ten-thousandths.                                                        *)
(***************************************************************************)
EXTENDS QuestReasoning

AtLeast0(x) == IF x < 0 THEN 0 ELSE x
AtMost(bound, x) == IF x > bound THEN bound ELSE x
MeanOfSeq(s) == IF s = <<>> THEN 0 ELSE FoldLeft(LAMBDA a, x : a + x, 0, s) \div Len(s)

\* MockVisionProvider.capture: the place is one of the elements detected too.
Capture(place, entities, ui, confidence) ==
  [place |-> place, detected |-> entities \cup ({place} \ {NoName}), ui |-> ui, confidence |-> confidence]

\* ObservationAnalyzer.analyze
PerceivedType == [npc |-> "NPC", monster |-> "MONSTER", item |-> "ITEM", map |-> "MAP_LABEL"]

Classify(base, name) ==
  LET known == Named(base, name)
  IN  IF \E e \in known : e.type \in DOMAIN PerceivedType
      THEN PerceivedType[(CHOOSE e \in known : TRUE).type] ELSE "UNKNOWN"

\* MaplePerceptionBinder._related_knowledge: quests of the place and of the persons
\* seen; a place of no known name is one more entity nobody knows.
Bind(base, o) ==
  LET entities == {n \in o.detected : Classify(base, n) # "MAP_LABEL"}
      place == IF o.place # NoName THEN o.place ELSE
               LET labels == o.detected \ entities IN IF labels = {} THEN NoName ELSE CHOOSE n \in labels : TRUE
      npcs == NamesOf(base, entities, "npc")
      maps == IF place # NoName /\ Named(base, place) # {} THEN {place} ELSE {}
      anchors == npcs \cup maps \cup {e.name : e \in UNION {Named(base, m) : m \in maps}}
      related == [npcs |-> npcs, monsters |-> NamesOf(base, entities, "monster"),
                  items |-> NamesOf(base, entities, "item"), maps |-> maps,
                  quests |-> {q.name : q \in RelatedQuests(base, anchors)}]
  IN  [entities |-> entities, map |-> place, ui |-> o.ui, related |-> related,
       confidence |-> IF \A k \in DOMAIN related : related[k] = {} THEN o.confidence
                      ELSE AtMost(100, o.confidence + 5)]

\* PerceptionValidator.validate
PerceptionVerdict(o, bound) ==
  IF o.confidence < 50 \/ \A k \in DOMAIN bound.related : bound.related[k] = {} THEN "WARNING" ELSE "VALID"

-----------------------------------------------------------------------------
\* MaplePlayerContext: of a player nothing but the place is known.
PlayerContext(state) == [location |-> state.location, confidence |-> state.confidence]

\* MapleWorldContextBuilder
WorldContext(state, prediction, events, risk) ==
  [location |-> state.location, entities |-> state.entities, events |-> events, risk |-> risk,
   confidence |-> (state.confidence + prediction.confidence) \div 2]

\* MapleGoalContextBuilder
GoalContext(goal, scheduled, decision) ==
  [goal |-> goal,
   confidence |-> MeanOfSeq((IF goal = NoName THEN <<>> ELSE <<80>>)
                            \o (IF scheduled THEN <<80>> ELSE <<>>) \o <<decision.confidence>>)]

\* MapleCognitiveContextBuilder
CognitiveContext(decision, alignment, memory, semantic) ==
  [decision |-> decision, confidence |-> MeanOfSeq(<<decision.confidence, alignment, memory, semantic>>)]

\* MapleContextBuilder._confidence: what has none does not count.
ContextConfidence(player, world, goal, cognitive) ==
  MeanOfSeq(SelectSeq(<<player.confidence, world.confidence, goal.confidence, cognitive.confidence>>,
                      LAMBDA c : c > 0))

\* MapleContextBuilder.build
BuildContext(state, prediction, risk, goal, mind) ==
  LET player == PlayerContext(state)
      world == WorldContext(state, prediction, {}, risk)
      aims == GoalContext(goal, goal # NoName, mind.decision)
      thoughts == CognitiveContext(mind.decision, mind.alignment, mind.memory, mind.semantic)
  IN  [location |-> world.location, entities |-> world.entities, goal |-> goal,
       confidence |-> ContextConfidence(player, world, aims, thoughts)]

\* MapleContextValidator.validate
ContextVerdict(context) == IF context.goal = NoName THEN "WARNING" ELSE "VALID"

-----------------------------------------------------------------------------
\* ConflictDetector.detect
KnownOf(knowledge) == knowledge.npcs \cup knowledge.monsters \cup knowledge.items

Conflicting(seen, knowledge, plan) ==
  (IF knowledge.confidence = 0 /\ KnownOf(knowledge) \cup knowledge.maps \cup knowledge.quests = {}
   THEN {<<"knowledge missing", NoName>>} ELSE {})
  \cup (IF seen.map # NoName /\ knowledge.maps # {} /\ seen.map \notin knowledge.maps
        THEN {<<"unknown map", seen.map>>} ELSE {})
  \cup {<<"entity mismatch", n>> : n \in {x \in seen.entities : KnownOf(knowledge) # {} /\ x \notin KnownOf(knowledge)}}
  \cup {<<"quest mismatch", p.quest>> : p \in {x \in plan.progress : x.state \in {"BLOCKED", "UNKNOWN"}}}

\* ConsistencyScorer._vision_knowledge, _location_consistency, _quest_consistency
VisionKnowledge(seen, knowledge) ==
  LET checked == {<<"map", seen.map>> : m \in {seen.map} \ {NoName}} \cup {<<"entity", n>> : n \in seen.entities}
      right == {c \in checked : \/ c[1] = "map" /\ c[2] \in knowledge.maps
                                \/ c[1] = "entity" /\ c[2] \in KnownOf(knowledge)}
  IN  IF checked = {} THEN 50 ELSE (100 * Cardinality(right)) \div Cardinality(checked)

LocationConsistency(seen, context) ==
  IF NoName \in {seen.map, context.location} THEN 50 ELSE IF seen.map = context.location THEN 100 ELSE 0

QuestConsistency(plan) ==
  IF plan.progress = {} THEN 0
  ELSE AtLeast0(plan.confidence - IF \E p \in plan.progress : p.state \in {"BLOCKED", "UNKNOWN"} THEN 20 ELSE 0)

\* _memory_consistency
MemoryConsistency(mind) ==
  MeanOfSeq(<<mind.memory, AtMost(100, mind.memory + 10), mind.semantic, mind.alignment>>)

\* ConsistencyScorer.score
Consistency(seen, knowledge, context, plan, mind) ==
  35 * VisionKnowledge(seen, knowledge) + 30 * LocationConsistency(seen, context)
  + 20 * QuestConsistency(plan) + 15 * MemoryConsistency(mind)

\* PerceptionFusionEngine._missing_signals, of a pipeline that has run.
MissingSignals(plan) == IF plan.quests = {} THEN {"quest reasoning"} ELSE {}

\* PerceptionFusionEngine.fuse; the focus is the first goal recommended, one of them.
Fuse(seen, knowledge, context, plan, mind) ==
  LET consistency == Consistency(seen, knowledge, context, plan, mind)
      memory == IF mind.memory > mind.semantic THEN mind.memory ELSE mind.semantic
  IN  [consistency |-> consistency, conflicts |-> Conflicting(seen, knowledge, plan),
       missing |-> MissingSignals(plan), focus |-> plan.recommended,
       fused |-> 30 * seen.confidence + 20 * knowledge.confidence + (20 * consistency) \div 100
                 + 20 * plan.confidence + 10 * memory]

\* PerceptionFusionValidator.validate
FusionVerdict(fusion) ==
  IF fusion.conflicts = {} /\ fusion.missing = {} /\ fusion.fused >= 5000 THEN "VALID" ELSE "WARNING"
=============================================================================
