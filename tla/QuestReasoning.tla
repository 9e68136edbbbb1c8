------------------------------ MODULE QuestReasoning ------------------------------
(***************************************************************************)
(* maple_knowledge/ and quest_reasoning/: what the resolution graph tells  *)
(* of the place one is in, in which state that puts the quests around, and *)
(* which goals follow.  Lists of names are sets, for they are sorted or    *)
(* only tested; confidences are in hundredths.                             *)
(***************************************************************************)
EXTENDS Knowledge

NoName == ""

\* The type an entity of that name has for a lookup, and its name there.
Named(base, name) == IF FindByName(base.entities, name) = <<>> THEN {} ELSE {Head(FindByName(base.entities, name))}
NamesOf(base, names, type) ==
  {e.name : e \in {x \in UNION {Named(base, n) : n \in names} : x.type = type}}

\* MapleKnowledgeValidator.validate_entity, of what is described; validate_relation
EntityVerdict(e) == IF e.confidence < 50 THEN "WARNING" ELSE "VALID"
RelationBroken(base, r) == Lookup(base.entities, r.from) = {} \/ Lookup(base.entities, r.to) = {}

\* The verdict of a whole base.
KnowledgeVerdict(base) ==
  CASE \E r \in base.relations : RelationBroken(base, r) -> "BLOCKED"
    [] ~(\E r \in base.relations : RelationBroken(base, r))
         /\ \E e \in ToSet(base.entities) : EntityVerdict(e) = "WARNING" -> "WARNING"
    [] OTHER -> "VALID"

\* _related_items: what the monsters around have a relation to.
RelatedItems(base, monsters) ==
  {hit[2].name : hit \in {h \in UNION {Related(base, e.id) : e \in {x \in ToSet(base.entities) : x.name \in monsters}} :
                            h[2].type = "item"}}

\* MapleKnowledgeRetriever._confidence
RetrievedConfidence(place, npcs, monsters, quests) ==
  LET values == {<<"map", e.confidence>> : e \in place}
                \cup (IF npcs = {} THEN {} ELSE {<<"npcs", 90>>})
                \cup (IF monsters = {} THEN {} ELSE {<<"monsters", 90>>})
                \cup (IF quests = {} THEN {} ELSE {<<"quests", 85>>})
  IN  IF values = {} THEN 0
      ELSE MapThenSumSet(LAMBDA v : v[2], values) \div Cardinality(values)

\* MapleKnowledgeRetriever.retrieve: what of any type has the name of the place is
\* taken for its map.
KnowledgeReference(maps, npcs, monsters, items, quests, confidence) ==
  [maps |-> maps, npcs |-> npcs, monsters |-> monsters, items |-> items, quests |-> quests,
   confidence |-> confidence]

Retrieve(base, location, visible) ==
  LET place == IF location = NoName THEN {} ELSE Named(base, location)
      maps == {e.name : e \in place}
      npcs == NamesOf(base, visible, "npc")
      monsters == NamesOf(base, visible, "monster")
      quests == {q.name : q \in RelatedQuests(base, npcs \cup maps)}
  IN  KnowledgeReference(maps, npcs, monsters, RelatedItems(base, monsters), quests,
                         RetrievedConfidence(place, npcs, monsters, quests))

-----------------------------------------------------------------------------
\* QuestStateAnalyzer._quest_reference: by name, so of whatever is first so named.
QuestReference(base, name) ==
  {[id |-> e.id, name |-> e.name, confidence |-> e.confidence,
    requirements |-> {h[2].name : h \in {x \in Related(base, e.id) : x[1].type = "REQUIRES"}},
    related |-> {h[2].name : h \in Related(base, e.id)}] : e \in Named(base, name)}

\* _requirement_satisfied: seen under its name, or under another that leads to it.
Satisfied(base, requirement, visible) ==
  \/ requirement \in visible
  \/ Named(base, requirement) # {} /\ \E n \in visible : Named(base, n) = Named(base, requirement)

\* _quest_location: of the maps it is in, the first related.
QuestLocation(base, id) ==
  LET maps == {h[2].name : h \in {x \in Related(base, id) : x[1].type = "LOCATED_IN" /\ x[2].type = "map"}}
  IN  IF maps = {} THEN NoName ELSE CHOOSE m \in maps : TRUE

\* _visible_names, _current_map: of the screen first, of the context else.
VisibleNames(seen, context) ==
  (seen.entities \cup {seen.map} \cup {context.location} \cup context.entities) \ {NoName}
CurrentMap(seen, context) == IF seen.map # NoName THEN seen.map ELSE context.location

\* QuestStateAnalyzer._progress, its ladder: what the interface shows is taken for
\* every quest around; then the place, and only then what is required.
QuestState(ui, location, current, satisfied, pending) ==
  CASE ui = "quest_completed" -> "COMPLETED"
    [] ui = "quest_in_progress" -> "IN_PROGRESS"
    [] ui = "quest_accepted" -> "ACCEPTED"
    [] OTHER -> IF NoName \notin {location, current} /\ location # current THEN "BLOCKED"
                ELSE IF pending # {} THEN "REQUIREMENT_PENDING"
                ELSE IF satisfied # {} \/ ui = "quest_available" THEN "AVAILABLE" ELSE "UNKNOWN"

\* _progress_confidence
ProgressConfidence(state, satisfied, ui) ==
  60 + (IF satisfied # {} THEN 20 ELSE 0) + (IF ui # NoName THEN 10 ELSE 0)
     - (IF state \in {"BLOCKED", "UNKNOWN"} THEN 10 ELSE 0)

Progress(base, quest, seen, context) ==
  LET visible == VisibleNames(seen, context)
      satisfied == {r \in quest.requirements : Satisfied(base, r, visible)}
      pending == quest.requirements \ satisfied
      state == QuestState(seen.ui, QuestLocation(base, quest.id), CurrentMap(seen, context), satisfied, pending)
  IN  [quest |-> quest.name, state |-> state, completed |-> satisfied, pending |-> pending,
       confidence |-> ProgressConfidence(state, satisfied, seen.ui)]

\* QuestStateAnalyzer.analyze
Analyze(base, names, seen, context) ==
  {Progress(base, q, seen, context) : q \in UNION {QuestReference(base, n) : n \in names}}

\* GoalReasoner.reason: of a quest completed there is no goal.
GoalType ==
  [AVAILABLE |-> "NPC_INTERACTION_REFERENCE", ACCEPTED |-> "QUEST_PROGRESS",
   IN_PROGRESS |-> "QUEST_PROGRESS", REQUIREMENT_PENDING |-> "QUEST_PROGRESS",
   BLOCKED |-> "EXPLORATION_REFERENCE", UNKNOWN |-> "KNOWLEDGE_QUERY"]

\* With whom, of an AVAILABLE quest: what is satisfied, or the quest itself.
GoalOf(p) ==
  [type |-> GoalType[p.state], quest |-> p.quest, confidence |-> p.confidence,
   target |-> IF p.state = "AVAILABLE" /\ p.completed # {} THEN CHOOSE r \in p.completed : TRUE ELSE p.quest]
Recommended(progress) == {GoalOf(p) : p \in {x \in progress : x.state \notin {"COMPLETED", "BLOCKED"}}}
BlockedGoals(progress) == {GoalOf(p) : p \in {x \in progress : x.state = "BLOCKED"}}

\* GoalDependencyBuilder.build and _append_npc_location
Dependency(goal, on, type) == [goal |-> goal, on |-> on, type |-> type]
NpcLocations(base, npc) ==
  UNION {{Dependency(<<"npc", npc>>, h[2].name, "LOCATION") :
            h \in {x \in Related(base, e.id) : x[1].type = "LOCATED_IN"}} : e \in Named(base, npc)}

Dependencies(base, progress) ==
  LET Of(p) == {h \in UNION {Related(base, e.id) : e \in Named(base, p.quest)} :
                  h[1].type \in {"REQUIRES", "LOCATED_IN"}}
  IN  UNION {{Dependency(<<"quest", p.quest>>, h[2].name, h[2].type) : h \in Of(p)}
             \cup UNION {NpcLocations(base, h[2].name) : h \in {x \in Of(p) : x[2].type = "npc"}} : p \in progress}

\* QuestPlanner.plan
MeanOf(goals) ==
  IF goals = {} THEN 0 ELSE MapThenSumSet(LAMBDA g : g.confidence, goals) \div Cardinality(goals)

PlanQuests(base, knowledge, seen, context) ==
  LET progress == Analyze(base, knowledge.quests, seen, context)
  IN  [quests |-> knowledge.quests, progress |-> progress,
       recommended |-> Recommended(progress), blocked |-> BlockedGoals(progress),
       dependencies |-> Dependencies(base, progress),
       confidence |-> MeanOf(Recommended(progress) \cup BlockedGoals(progress))]

\* QuestReasoningValidator.validate
QuestIssues(base, plan) ==
  (IF \E p \in plan.progress : p.state = "UNKNOWN" THEN {"state unknown"} ELSE {})
  \cup (IF plan.quests = {} THEN {"no active quests"} ELSE {})
  \cup (IF \E n \in plan.quests : \E q \in QuestReference(base, n) : q.requirements = {} THEN {"no requirements"} ELSE {})
  \cup (IF plan.recommended \cup plan.blocked = {} THEN {"no goal"} ELSE {})
=============================================================================
