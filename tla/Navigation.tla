-------------------------------- MODULE Navigation --------------------------------
(***************************************************************************)
(* world_knowledge/, spatial_world/ and navigation/: which maps there are  *)
(* and how they connect, what is where in the one we are in, and the way   *)
(* to a target.  Maps are named; a connection names its ends, and nothing  *)
(* ties those names to how the maps call themselves.  Confidences are in   *)
(* hundredths.                                                             *)
(***************************************************************************)
EXTENDS Integers, Sequences, FiniteSets, SequencesExt

CONSTANT NamesInOrder   \* every name of a map, as sorted() puts them

NoMap == ""

\* MapNodeReference, MapConnectionReference
MapNode(name, aliases, npcs, quests, confidence) ==
  [name |-> name, aliases |-> aliases, npcs |-> npcs, quests |-> quests, confidence |-> confidence]
MapConnection(source, target, type) == [source |-> source, target |-> target, type |-> type]

\* find_map: the first node of that name or alias.
FindMap(nodes, name) ==
  LET of == SelectSeq(nodes, LAMBDA n : name = n.name \/ name \in n.aliases)
  IN  IF name = NoMap \/ of = <<>> THEN {} ELSE {Head(of)}

\* MapRelationBuilder.build: an end is needed; a type unknown is a portal.
ConnectionTypes == {"PORTAL", "WALKABLE", "TELEPORT", "QUEST_UNLOCK"}
BuildConnections(raw) ==
  {MapConnection(c.source, c.target, IF c.type \in ConnectionTypes THEN c.type ELSE "PORTAL") :
     c \in {x \in raw : NoMap \notin {x.source, x.target}}}

\* WorldKnowledgeImporter.import_data: ends that are an alias of a map are kept as such.
ImportWorld(nodes, raw) ==
  [nodes |-> nodes,
   connections |-> {c \in BuildConnections(raw) :
                      FindMap(nodes, c.source) # {} /\ FindMap(nodes, c.target) # {}}]

\* MapGraph.find_reachable_maps: both ways, by the very name.
Reachable(world, map) ==
  {c.target : c \in {x \in world.connections : x.source = map}}
  \cup {c.source : c \in {x \in world.connections : x.target = map /\ x.source # map}}

\* WorldKnowledgeResolver.resolve
WorldReference(world, map, confidence, knowledge) ==
  LET here == FindMap(world.nodes, map)
      npcs == UNION {n.npcs : n \in here}
      quests == UNION {n.quests : n \in here}
  IN  [map |-> map, known |-> {n.name : n \in ToSet(world.nodes)},
       reachable |-> IF map = NoMap THEN {} ELSE Reachable(world, map),
       connections |-> world.connections,
       npcs |-> IF npcs = {} THEN knowledge.npcs ELSE npcs,
       quests |-> IF quests = {} THEN knowledge.quests ELSE quests,
       confidence |-> IF here = {} THEN confidence ELSE (CHOOSE n \in here : TRUE).confidence]

\* WorldKnowledgeValidator.validate
WorldIssues(world) ==
  (IF world.known = {} THEN {"BLOCKED"} ELSE {})
  \cup (IF world.map = NoMap \/ world.map \notin world.known THEN {"map"} ELSE {})
  \cup (IF world.reachable = {} THEN {"no reachable maps"} ELSE {})
  \cup (IF world.npcs = {} THEN {"no related npc"} ELSE {})
  \cup (IF world.confidence < 50 THEN {"low confidence"} ELSE {})

-----------------------------------------------------------------------------
\* SpatialMapReference: a map of which it is known what is where.
SpatialMap(name, portals, npcs, zones, confidence) ==
  [name |-> name, portals |-> portals, npcs |-> npcs, zones |-> zones, confidence |-> confidence]

\* SpatialMapStore.find_map, by the name alone.
FindSpatial(store, map) == {s \in store : map # NoMap /\ s.name = map}

\* SpatialWorldBuilder.resolve
SpatialReference(store, world) ==
  LET here == FindSpatial(store, world.map)
  IN  [map |-> world.map, portals |-> UNION {s.portals : s \in here},
       npcs |-> UNION {s.npcs : s \in here}, zones |-> UNION {s.zones : s \in here},
       confidence |-> IF here = {} THEN world.confidence ELSE (CHOOSE s \in here : TRUE).confidence]

\* SpatialWorldValidator.validate
SpatialIssues(spatial) ==
  (IF spatial.map = NoMap THEN {"map"} ELSE {})
  \cup (IF spatial.portals \cup spatial.npcs \cup spatial.zones = {} THEN {"no spatial data"} ELSE {})
  \cup (IF spatial.confidence < 50 THEN {"low confidence"} ELSE {})

-----------------------------------------------------------------------------
\* RouteGraph.add_edge, build_from_connections: an edge goes both ways.
EdgesOf(connections) == {{c.source, c.target} : c \in connections}

NextTo(edges, node) == {n \in UNION edges : {node, n} \in edges}
Position(name) == CHOOSE i \in DOMAIN NamesInOrder : NamesInOrder[i] = name

\* sorted(): a name has before it as many as precede it.
InOrder(names) ==
  LET Before(name) == {n \in names : Position(n) < Position(name)}
  IN  [i \in 1..Cardinality(names) |-> CHOOSE name \in names : Cardinality(Before(name)) = i - 1]

\* RouteGraph.find_path, one node off the queue: its neighbours not visited are put
\* on it with the path to them, in order; the first path to the target ends it.
Expand(edges, target, search) ==
  LET path == Head(search.queue)
      new == InOrder(NextTo(edges, Last(path)) \ search.visited)
      reached == [i \in DOMAIN new |-> Append(path, new[i])]
  IN  IF target \in ToSet(new)
      THEN [search EXCEPT !.found = Append(path, target)]
      ELSE [search EXCEPT !.queue = Tail(@) \o reached, !.visited = @ \cup ToSet(new)]

\* Every node is put on the queue once at most.
FindPath(edges, start, target) ==
  LET Advance(search) ==
        IF search.queue = <<>> \/ search.found # <<>> THEN search ELSE Expand(edges, target, search)
      search[n \in 0..Len(NamesInOrder)] ==
        IF n = 0 THEN [queue |-> <<<<start>>>>, visited |-> {start}, found |-> <<>>]
        ELSE Advance(search[n - 1])
  IN  IF start = target THEN <<start>>
      ELSE IF {start, target} \subseteq UNION edges THEN search[Len(NamesInOrder)].found ELSE <<>>

\* TargetResolver.resolve: who is around, then what is around, then the maps.
TargetKind(target, spatial, world) ==
  CASE target \in spatial.npcs -> "NPC"
    [] target \notin spatial.npcs /\ target \in spatial.zones -> "QUEST_TARGET"
    [] target \notin spatial.npcs \cup spatial.zones /\ target \in world.known -> "MAP"
    [] OTHER -> "UNKNOWN"

RouteStep(type, from, to) == [type |-> type, from |-> from, to |-> to]

\* NavigationPlanner.plan, the graph it goes by: the last that had connections.
\* (A slip: it is built once.)
GraphKept(edges, kind, world) == IF edges = {} THEN EdgesOf(world.connections) ELSE edges

GraphFor(edges, kind, world) ==
  IF kind = "MAP" /\ world.connections # {} THEN EdgesOf(world.connections) ELSE edges

\* NavigationPlanner.plan, the steps
RouteOf(edges, map, target, kind) ==
  LET path == FindPath(edges, map, target)
  IN  CASE kind = "NPC" -> <<RouteStep("LOCAL_MOVE", map, target)>>
        [] kind = "QUEST_TARGET" -> <<RouteStep("QUEST_TARGET", map, target)>>
        [] kind = "MAP" /\ Len(path) = 1 -> <<RouteStep("LOCAL_MOVE", map, target)>>
        [] kind = "MAP" /\ Len(path) # 1 ->
             [i \in 1..(IF path = <<>> THEN 0 ELSE Len(path) - 1) |-> RouteStep("PORTAL", path[i], path[i + 1])]
        [] kind = "UNKNOWN" -> <<>>

\* NavigationReference; a step costs one (CostCalculator).
PlanRoute(edges, map, target, spatial, world) ==
  LET kind == TargetKind(target, spatial, world)
      steps == RouteOf(GraphFor(edges, kind, world), map, target, kind)
  IN  [start |-> map, target |-> target, kind |-> kind, steps |-> steps, cost |-> Len(steps),
       confidence |-> CASE kind \in {"NPC", "QUEST_TARGET"} -> 90
                        [] kind = "MAP" /\ steps # <<>> -> 85
                        [] OTHER -> 30]

\* NavigationValidator.validate
NavigationVerdict(route) ==
  IF NoMap \in {route.start, route.target} THEN "BLOCKED"
  ELSE IF route.steps = <<>> \/ route.confidence < 50 THEN "WARNING" ELSE "VALID"
=============================================================================
