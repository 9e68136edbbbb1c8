------------------------------- MODULE MemoryGraph -------------------------------
(***************************************************************************)
(* memory_graph/ and memory_association/: experiences, failures, places,   *)
(* decisions and preferences as nodes of one graph; what of it is          *)
(* retrieved for a moment, and how the nodes bear on each other.  A        *)
(* context is the set of its <<key, value>> pairs and a content the names  *)
(* in it.  Confidences and importances are in hundredths, scores in        *)
(* ten-thousandths.                                                        *)
(***************************************************************************)
EXTENDS Alignment

CONSTANTS
  LastSnapshots,   \* history.snapshots[-5:]
  Limit            \* retrieve(limit=5)

\* MemoryNode; `names` is what its content and its context name.
MemoryNode(id, type, context, names, confidence, importance) ==
  [id |-> id, type |-> type, context |-> context, names |-> names,
   confidence |-> confidence, importance |-> importance]

\* MemoryConsolidator._experience_node
ExperienceNode(e) ==
  MemoryNode(<<"exp", e.id>>, "EXPERIENCE", {<<"goal", e.goal>>, <<"success", e.success>>},
             {e.goal} \cup e.path, e.confidence, IF e.success THEN 70 ELSE 80)

\* _failure_node
FailureNode(f) ==
  MemoryNode(<<"fail", f.id>>, "FAILURE", {<<"type", f.type>>, <<"tasks", f.tasks>>},
             {f.type, f.cause} \cup f.tasks, f.confidence, 90)

\* (A slip: the first snapshots of the history instead of the last.)
FirstWorldNodes(history) ==
  [i \in 1..Lowest({LastSnapshots, Len(history)}) |->
     MemoryNode(<<"world", i>>, "WORLD", {<<"location", history[i].location>>, <<"history", "h">>},
                {history[i].location} \cup history[i].entities, history[i].confidence, 50)]

\* _world_nodes: the last snapshots, numbered from the oldest of them.
WorldNodes(history) ==
  LET skipped == Len(history) - Lowest({LastSnapshots, Len(history)})
      Of(i) == history[skipped + i]
  IN  [i \in 1..(Len(history) - skipped) |->
         MemoryNode(<<"world", i>>, "WORLD", {<<"location", Of(i).location>>, <<"history", "h">>},
                    {Of(i).location} \cup Of(i).entities, Of(i).confidence, 50)]

\* _decision_nodes: what is recommended, not the alternatives.
DecisionNodes(decision) ==
  {MemoryNode(<<"dec", o.id>>, "DECISION", {<<"action", o.action>>, <<"recommendation", TRUE>>},
              {o.action, o.target}, o.confidence, 60) : o \in decision.recommended}

\* _preference_nodes: one for each answer, rejections too.
PreferenceNodes(memory) ==
  [i \in DOMAIN memory |->
     MemoryNode(<<"pref", i>>, "PREFERENCE", {<<"option", memory[i].option>>, <<"action", memory[i].action>>},
                {memory[i].action}, 90, 80)]

\* MemoryConsolidator.consolidate
Consolidate(experiences, failures, history, decision, memory) ==
  {ExperienceNode(e) : e \in experiences} \cup {FailureNode(f) : f \in failures}
  \cup {WorldNodes(history)[i] : i \in DOMAIN WorldNodes(history)}
  \cup DecisionNodes(decision)
  \cup {PreferenceNodes(memory)[i] : i \in DOMAIN memory}

\* MemoryRelationBuilder.auto_link, to whatever shares a pair of its context.
SameContext(left, right) == left.context \cap right.context # {}
AutoLink(nodes) ==
  {<<p[1].id, p[2].id>> : p \in {q \in nodes \X nodes : q[1].id # q[2].id /\ SameContext(q[1], q[2])}}

\* MemoryIndex.add_many: what has an identifier that is there stays as it is.
AddMany(index, nodes) == index \cup {n \in nodes : n.id \notin {m.id : m \in index}}

\* MemoryIndex.related: relations to what is not in the index are skipped.
RelatedNodes(index, links, id) == {n \in index : <<id, n.id>> \in links}

\* MemoryGraphValidator.validate_node, then the demo's verdict of all of them.
NodeVerdict(node, links) ==
  IF node.context = {} \/ \A l \in links : l[1] # node.id THEN "WARNING" ELSE "VALID"
GraphVerdict(nodes, links) ==
  IF \A n \in nodes : NodeVerdict(n, links) = "VALID" THEN "VALID" ELSE "WARNING"

-----------------------------------------------------------------------------
\* MemoryRetriever._query_context; of the options' actions the first, which is any.
QueryContext(goal, location, action) ==
  {p \in {<<"goal", goal>>, <<"location", location>>, <<"action", action>>} :
     p[2] \notin {NoGoal, NoPlace, ""}}

\* _context_similarity
Similarity(context, query) ==
  IF query = {} THEN 0 ELSE (Cardinality(context \cap query) * 100) \div Cardinality(query)

\* _recency: nothing is left of it after 72 hours.  What is asked of is consolidated
\* on the spot.
Recency(hours) == IF hours >= 72 THEN 0 ELSE 100 - (hours * 100) \div 72
Age == 0

\* MemoryRetriever._score
Relevance(node, query) ==
  30 * Similarity(node.context, query) + 25 * node.importance + 25 * node.confidence
  + 20 * Recency(Age)

\* MemoryRetriever.retrieve, the sort and the cut: of equals, any.
Relevant(index, query) ==
  LET score == [n \in index |-> Relevance(n, query)]
      entering == {n \in index : Cardinality({m \in index : score[m] > score[n]}) < Limit}
      certain == {n \in entering : Cardinality({m \in index : score[m] >= score[n]}) <= Limit}
      room == Lowest({Limit, Cardinality(index)}) - Cardinality(certain)
  IN  {certain \cup some : some \in kSubset(room, entering \ certain)}

\* RelevantMemoryReference
MemoryReference(relevant, query) ==
  [relevant |-> relevant,
   experiences |-> {n \in relevant : n.type = "EXPERIENCE"},
   failures |-> {n \in relevant : n.type = "FAILURE"},
   places |-> {n \in relevant : n.type = "WORLD"},
   preferences |-> {n \in relevant : n.type = "PREFERENCE"},
   confidence |-> IF relevant = {} THEN 0
                  ELSE MapThenSumSet(LAMBDA n : Relevance(n, query), relevant)
                         \div Cardinality(relevant)]

-----------------------------------------------------------------------------
\* SemanticRelationBuilder.build
SemanticRelation(type, source, target, confidence) ==
  [type |-> type, source |-> source.id, target |-> target.id, confidence |-> confidence]

\* SemanticAssociationEngine._same_goal: a failure has no goal in its context.
SameGoal(left, right) == \E p \in left.context \cap right.context : p[1] = "goal" /\ p[2] # NoGoal

\* _shared_task
SharedTask(failure, experience) ==
  \E p \in failure.context : p[1] = "tasks" /\ p[2] \cap experience.names # {}

\* _action_match: an answer's action is never an option's, so by the option.
ActionMatch(decision, preference) ==
  \/ \E p \in decision.context \cap preference.context : p[1] = "action"
  \/ \E p \in preference.context : p[1] = "option" /\ decision.id = <<"dec", p[2]>>

\* _action_in_failure
ActionInFailure(decision, failure) ==
  \E p \in decision.context : p[1] = "action" /\ p[2] \in failure.names

\* _location_match: anywhere in the content or in the context.
LocationMatch(world, node) ==
  \E p \in world.context : p[1] = "location" /\ p[2] # NoPlace /\ p[2] \in node.names

\* SemanticAssociationEngine.associate; of two experiences, from the one or the other.
Associate(nodes) ==
  LET Of(t) == {n \in nodes : n.type = t}
      Pairs(t, u) == Of(t) \X Of(u)
      Rel(t, c, ps) == {SemanticRelation(t, p[1], p[2], c) : p \in ps}
      experiences == {p \in Pairs("EXPERIENCE", "EXPERIENCE") : p[1].id[2] < p[2].id[2]}
      others == Of("WORLD") \X (nodes \ Of("WORLD"))
  IN  Rel("GOAL_SIMILARITY", 80, {p \in experiences : SameGoal(p[1], p[2])})
      \cup Rel("FAILURE_PATTERN", 85,
               {p \in Pairs("FAILURE", "EXPERIENCE") : SharedTask(p[1], p[2])})
      \cup Rel("SUCCESS_PATTERN", 75,
               {p \in Pairs("EXPERIENCE", "FAILURE") :
                  <<"success", TRUE>> \in p[1].context /\ SameGoal(p[1], p[2])})
      \cup Rel("PREFERENCE_ALIGNMENT", 90,
               {p \in Pairs("DECISION", "PREFERENCE") : ActionMatch(p[1], p[2])})
      \cup Rel("DECISION_IMPROVEMENT", 70,
               {p \in Pairs("DECISION", "FAILURE") : ActionInFailure(p[1], p[2])})
      \cup Rel("WORLD_CONTEXT", 80, {p \in others : LocationMatch(p[1], p[2])})

\* AssociationReasoner.summarize
MeanConfidence(relations) ==
  IF relations = {} THEN 0
  ELSE MapThenSumSet(LAMBDA r : r.confidence, relations) \div Cardinality(relations)
Summarize(relations) ==
  [strong |-> Cardinality({r \in relations : r.confidence >= 70}),
   risks |-> {r \in relations : r.type = "FAILURE_PATTERN"},
   successes |-> {r \in relations : r.type = "SUCCESS_PATTERN"},
   preferences |-> {r \in relations : r.type = "PREFERENCE_ALIGNMENT"},
   improvements |-> {r \in relations : r.type = "DECISION_IMPROVEMENT"},
   confidence |-> MeanConfidence(relations)]

\* AssociationReasoner.build_reference
SemanticReference(relations) ==
  LET Targets(types) == {r.target : r \in {x \in relations : x.type \in types}}
  IN  [experiences |-> Targets({"GOAL_SIMILARITY", "SUCCESS_PATTERN", "FAILURE_PATTERN"}),
       failures |-> {r.source : r \in {x \in relations : x.type = "FAILURE_PATTERN"}},
       hints |-> Targets({"DECISION_IMPROVEMENT"}),
       preferences |-> Targets({"PREFERENCE_ALIGNMENT"}),
       places |-> Targets({"WORLD_CONTEXT"}),
       confidence |-> MeanConfidence(relations)]

\* SemanticAssociationValidator.validate_relation, validate_reference
RelationVerdict(r) == IF r.confidence < 40 THEN "WARNING" ELSE "VALID"
SemanticVerdict(reference) ==
  IF reference.experiences \cup reference.failures \cup reference.hints
     \cup reference.preferences \cup reference.places = {}
  THEN "BLOCKED" ELSE "VALID"
=============================================================================
