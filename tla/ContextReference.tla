----------------------------- MODULE ContextReference -----------------------------
(***************************************************************************)
(* context_reasoning/ and planning_reference/: what the entities that are  *)
(* visible mean together according to the relationship graph, and what of  *)
(* it is worth telling.  Nothing here proposes an action.                  *)
(***************************************************************************)
EXTENDS TemporalState

CONSTANTS
  Relations,  \* the relations of the relationship graph
  Threshold   \* relation_confidence_threshold

ASSUME ContextConstants ==
  /\ Threshold \in 0..100
  /\ IsFiniteSet(Relations) /\ \A r \in Relations : r.confidence \in Int

Of(refs, life) == {r \in refs : r.life = life}
Typed(refs, type) == {r \in refs : r.type = type}

Believed == {r \in Relations : r.confidence >= Threshold}
Between(relations, type, from, to) == {r \in relations : r.type = type /\ r.from \in from /\ r.to \in to}
IdsOf(refs) == {r.id : r \in refs}

MinOf(values) == CHOOSE x \in values : \A y \in values : x <= y

\* ContextEntityReference, of the state and of the graph.
FromState(r, historical) ==
  [id |-> r.id, type |-> r.type, life |-> r.life, confidence |-> r.confidence,
   historical |-> historical]

NodeConfidence(type, id) == {0} \cup {e.confidence : e \in Find(Known, type, id)}

FromGraph(type, id) ==
  [id |-> id, type |-> type, life |-> "UNKNOWN",
   confidence |-> Max(NodeConfidence(type, id)), historical |-> FALSE]

\* What the reasoner adds to any context: the lost as history, the unknown as such.
Retained(state) ==
  {FromState(r, TRUE) : r \in Of(state.refs, "LOST")}
  \cup {[id |-> "", type |-> u.type, life |-> "UNKNOWN", confidence |-> u.confidence,
          historical |-> FALSE] : u \in state.unknowns}

Uncertainties(state) ==
  (IF Relations = Believed THEN {} ELSE {"relation below threshold"})
  \cup (IF Of(state.refs, "LOST") = {} THEN {} ELSE {"lost"})
  \cup (IF Of(state.refs, "EXPIRED") = {} THEN {} ELSE {"expired"})
  \cup (IF state.unknown = 0 THEN {} ELSE {"unknown"})
  \cup (IF state.conflicts = {} THEN {} ELSE {"conflict"})

\* _quest_candidate: a visible map contains a visible person who gives a quest.
QuestCandidate(active) ==
  LET maps == Typed(active, "map")
      npcs == Typed(active, "npc")
      contains == Between(Believed, "CONTAINS", IdsOf(maps), IdsOf(npcs))
      gives == {r \in Believed : r.type = "GIVES" /\ r.from \in {c.to : c \in contains}}
  IN  IF gives = {} THEN {}
      ELSE {[type |-> "QUEST_RELATED",
             relations |-> contains \cup gives,
             entities |-> {FromState(r, FALSE) : r \in maps \cup npcs}
                          \cup {FromGraph("quest", r.to) : r \in gives},
             values |-> {r.confidence : r \in contains \cup gives \cup maps \cup npcs}
                        \cup {Max(NodeConfidence("quest", r.to)) : r \in gives}]}

\* _item_quest_candidate: a visible quest requires a visible item.
ItemQuestCandidate(active) ==
  LET quests == Typed(active, "quest")
      items  == Typed(active, "item") \cup Typed(active, "equipment")
      requires == Between(Believed, "REQUIRES", IdsOf(quests), IdsOf(Typed(active, "item")))
  IN  IF requires = {} THEN {}
      ELSE {[type |-> "ITEM_QUEST",
             relations |-> requires,
             entities |-> {FromState(r, FALSE) : r \in quests \cup items},
             values |-> {r.confidence : r \in requires \cup quests \cup items}]}

\* _fallback_candidate: the visible entities for what they are.
Fallback(state, active) ==
  LET types == {r.type : r \in active}
  IN  [type |-> CASE active = {} -> "UNKNOWN_CONTEXT"
                  [] "map" \in types -> "LOCATION"
                  [] "map" \notin types /\ "npc" \in types -> "NPC_RELATED"
                  [] types \cap {"map", "npc"} = {} /\ types \cap {"item", "equipment"} # {} -> "ITEM_RELATED"
                  [] OTHER -> "EXPLORATION",
       relations |-> {},
       entities |-> {FromState(r, FALSE) : r \in active},
       values |-> {state.confidence} \cup {r.confidence : r \in active}]

\* ContextReasoner.reason: an item of a quest before a quest of a place.  (A
\* slip: what was lost from sight still counts as there.)
ReasonOn(state, active) ==
  LET chosen == IF ItemQuestCandidate(active) # {} THEN ItemQuestCandidate(active)
                ELSE IF QuestCandidate(active) # {} THEN QuestCandidate(active)
                ELSE {Fallback(state, active)}
      found  == CHOOSE c \in chosen : TRUE
  IN  [type |-> found.type, relations |-> found.relations,
       entities |-> found.entities \cup Retained(state),
       confidence |-> MinOf({state.confidence} \cup found.values),
       uncertain |-> Uncertainties(state)]

ReasonWithLost(state) == ReasonOn(state, Of(state.refs, "VISIBLE") \cup Of(state.refs, "LOST"))

Reason(state) == ReasonOn(state, Of(state.refs, "VISIBLE"))

-----------------------------------------------------------------------------
\* _make_reference: worth no more than the weakest thing it rests on.
MakeReference(state, context, type, entities, relations, about) ==
  [type |-> type, about |-> about, entities |-> entities, relations |-> relations,
   confidence |-> MinOf({state.confidence, context.confidence}
                        \cup {e.confidence : e \in entities} \cup {r.confidence : r \in relations}),
   uncertain |-> context.uncertain]

\* _missing_requirements: for each visible quest, each item it requires that is
\* not visibly owned.  Not seen is not the same as not there.
MissingRequirements(state, context) ==
  LET quests == {r \in Of(state.refs, "VISIBLE") : r.kind = "quest"}
      owned  == {r.id : r \in {x \in Of(state.refs, "VISIBLE") : x.kind = "inventory"}}
      unmet  == {p \in quests \X Relations :
                   p[2].type = "REQUIRES" /\ p[2].from = p[1].id /\ p[2].to \notin owned}
  IN  {MakeReference(state, context, "MISSING_REQUIREMENT",
         {e \in context.entities : e.id = p[1].id}
           \cup (IF Find(Known, "item", p[2].to) = {} THEN {} ELSE {FromGraph("item", p[2].to)}),
         {p[2]}, {p[2].to}) : p \in unmet}

\* PlanningReferenceEngine.generate: one kind of reference at a time, a conflict
\* before everything else.
Generate(state, context) ==
  LET active  == Of(state.refs, "VISIBLE")
      present == {e \in context.entities : ~e.historical}
      visible == {e \in present : e.life = "VISIBLE"}
      missing == MissingRequirements(state, context)
      Make(type, entities, relations) ==
        {MakeReference(state, context, type, entities, relations, IdsOf(state.location))}
      Gap == Make("INFORMATION_GAP", {}, {})
  IN  IF state.conflicts # {} THEN Make("CONFLICT_NOTICE", context.entities, context.relations)
      ELSE IF active = {} THEN Gap
      ELSE IF missing # {} THEN missing
      ELSE IF context.type \in {"QUEST_RELATED", "ITEM_QUEST"}
           THEN Make("QUEST_CONTEXT", context.entities, context.relations)
      ELSE IF context.type = "LOCATION"
           THEN Make("KNOWN_LOCATION", present, context.relations)
      ELSE IF visible # {} THEN Make("RELATED_ENTITY", visible, context.relations)
      ELSE Gap
=============================================================================
