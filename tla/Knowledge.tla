-------------------------------- MODULE Knowledge --------------------------------
(***************************************************************************)
(* What is known of the game, twice: the resolution graph that observed    *)
(* names are looked up in (maple_knowledge/), and the relationship graph   *)
(* that context is reasoned from (knowledge_graph/), with the contract     *)
(* that both are about the same entities (companion_runtime/).             *)
(* Identifiers, names and aliases are of one kind, as lookups treat them.  *)
(* Confidences are in hundredths.                                          *)
(***************************************************************************)
EXTENDS Integers, Sequences, FiniteSets, SequencesExt

EntityType == {"map", "npc", "monster", "item", "equipment", "quest", "lore"}

Entity(id, type, name, aliases, confidence, version) ==
  [id |-> id, type |-> type, name |-> name, aliases |-> aliases,
   confidence |-> confidence, version |-> version]

Relation(type, from, to, confidence) ==
  [type |-> type, from |-> from, to |-> to, confidence |-> confidence]

-----------------------------------------------------------------------------
\* MapleKnowledgeBase: of two entities with an identifier the first is kept, and
\* a second that differs is noted.
EmptyBase == [entities |-> <<>>, relations |-> {}, conflicts |-> {}]

AddEntity(base, e) ==
  IF e.id \in {x.id : x \in ToSet(base.entities)}
  THEN [base EXCEPT !.conflicts = IF e \in ToSet(base.entities) THEN @ ELSE @ \cup {e.id}]
  ELSE [base EXCEPT !.entities = Append(@, e)]

AddRelation(base, r) == [base EXCEPT !.relations = @ \cup {r}]

\* KnowledgeImporter notes every repetition, equal or not.
Imported(items) ==
  LET Take(got, e) ==
        IF e.id \in {x.id : x \in ToSet(got.entities)}
        THEN [got EXCEPT !.conflicts = @ \cup {e.id}]
        ELSE [got EXCEPT !.entities = Append(@, e)]
  IN  FoldLeft(Take, EmptyBase, items)

Lookup(entities, id) == {e \in ToSet(entities) : e.id = id}

\* find_by_name: the first entity of that name or alias.
FindByName(entities, name) ==
  SelectSeq(entities, LAMBDA e : name = e.name \/ name \in e.aliases)

\* find_related of the resolution graph: what is missing is passed over.
Related(base, id) ==
  {hit \in base.relations \X ToSet(base.entities) : hit[1].from = id /\ hit[1].to = hit[2].id}

\* _related_quests: quests with a relation to one of the anchors.
RelatedQuests(base, anchors) ==
  {q \in ToSet(base.entities) :
     q.type = "quest" /\ \E hit \in Related(base, q.id) : hit[2].name \in anchors}

-----------------------------------------------------------------------------
\* EvidenceResolver.  (A slip: the first of several equally good ones is taken.)
MatchScore(e, value) ==
  CASE value \in {e.id, e.name} -> 100
    [] value \notin {e.id, e.name} /\ value \in e.aliases -> 95
    [] OTHER -> 0

Candidates(entities, value) == {e \in ToSet(entities) : MatchScore(e, value) > 0}

Best(entities, value) ==
  {e \in Candidates(entities, value) :
     \A x \in Candidates(entities, value) : MatchScore(e, value) >= MatchScore(x, value)}

Unresolved == [resolved |-> FALSE, conflict |-> FALSE, id |-> "", type |-> "", confidence |-> 0]

Selected(e, evidence) ==
  [resolved |-> TRUE, conflict |-> FALSE, id |-> e.id, type |-> e.type,
   confidence |-> (evidence.confidence * MatchScore(e, evidence.value)) \div 100]

FirstBest(entities, evidence) ==
  LET best == Best(entities, evidence.value)
  IN  IF best = {} THEN Unresolved ELSE Selected(CHOOSE e \in best : TRUE, evidence)

Resolve(entities, evidence) ==
  LET best == Best(entities, evidence.value)
  IN  CASE best = {} -> Unresolved
        [] Cardinality(best) > 1 -> [Unresolved EXCEPT !.conflict = TRUE]
        [] Cardinality(best) = 1 -> Selected(CHOOSE e \in best : TRUE, evidence)

-----------------------------------------------------------------------------
\* KnowledgeGraph: one table per type under identifier, name and aliases alike;
\* what is entered later hides what is under that key already.
Keys(e) == {e.id, e.name} \cup e.aliases

Find(nodes, type, key) ==
  LET of == {i \in DOMAIN nodes : nodes[i].type = type /\ key \in Keys(nodes[i])}
  IN  {nodes[i] : i \in {j \in of : \A k \in of : k <= j}}

\* Its nodes: those that some key still leads to.
Nodes(nodes, type) == UNION {Find(nodes, type, key) : key \in UNION {Keys(e) : e \in ToSet(nodes)}}

\* relation_references_for: both directions, where the other end is known.
Neighbours(nodes, relations, id) ==
  {e \in ToSet(nodes) : \E r \in relations : {r.from, r.to} = {id, e.id}}

\* _legacy_graph_from_modern copies the nodes and puts the type before the ends
\* of a relation, which in a packet made canonical have it already.
Prefixed(id) == <<"type", id>>

Mirror(nodes, relations) ==
  LET base == FoldLeft(AddEntity, EmptyBase, nodes)
  IN  [base EXCEPT !.relations = {[r EXCEPT !.from = Prefixed(@), !.to = Prefixed(@)] : r \in relations}]

\* audit_graph_contract: the types both sides are compared on.
Audited == {"map", "npc", "quest", "item"}

ContractIssues(left, right, bound) ==
  LET l == {e \in ToSet(left) : e.type \in Audited}
      r == UNION {Nodes(right, type) : type \in Audited}
      both == {p \in l \X r : p[1].id = p[2].id}
      Missing(a, b) == {e.id : e \in a} \ {e.id : e \in b}
  IN  (IF Missing(l, r) # {} THEN {"missing relationship"} ELSE {})
      \cup (IF Missing(r, l) # {} THEN {"missing resolution"} ELSE {})
      \cup (IF \E p \in both : p[1].aliases # p[2].aliases THEN {"alias"} ELSE {})
      \cup (IF \E p \in both : p[1].version # p[2].version THEN {"version"} ELSE {})
      \cup (IF bound THEN {} ELSE {"unbound"})
=============================================================================
