------------------------------- MODULE MCActionChain -------------------------------
(* Three maps in two worlds, one of which has a way the other lacks; a person  *)
(* and a quest she gives, a quest to hunt a monster, and screens before and    *)
(* after either; contracts that hold but for one thing each.                   *)
EXTENDS ActionChain

MCNames == <<"Ellinia", "Henesys", "Perion">>

MCBase ==
  [entities |->
     <<Entity("m1", "map", "Henesys", {}, 95, "v1"), Entity("m2", "map", "Perion", {}, 90, "v1"),
       Entity("n1", "npc", "Maya", {}, 90, "v1"), Entity("b1", "monster", "Slime", {}, 90, "v1"),
       Entity("q1", "quest", "Errand", {}, 85, "v1"), Entity("q2", "quest", "Hunt", {}, 85, "v1")>>,
   relations |->
     {Relation("LOCATED_IN", "q1", "m1", 90), Relation("REQUIRES", "q1", "n1", 90),
      Relation("LOCATED_IN", "q2", "m1", 90), Relation("REQUIRES", "q2", "m2", 90)},
   conflicts |-> {}]

MCStore == {Nav!SpatialMap("Henesys", {"gate"}, {"Maya"}, {"Slime"}, 90)}

Node(name, npcs) == Nav!MapNode(name, {}, npcs, {}, 90)
Way(a, b) == Nav!MapConnection(a, b, "PORTAL")
MCNodes == <<Node("Henesys", {"Maya"}), Node("Ellinia", {}), Node("Perion", {})>>
MCWorlds ==
  {Nav!ImportWorld(MCNodes, {Way("Henesys", "Ellinia"), Way("Ellinia", "Perion")}),
   Nav!ImportWorld(MCNodes, {Way("Perion", "Henesys")})}

MCFrames ==
  {Frame("Henesys", {"Maya"}, {"Slime"}, {}, {}, 80, 60, {}, 90),
   Frame("Henesys", {"Maya"}, {}, {}, {}, 20, 60, {"Errand"}, 90),
   Frame("Perion", {}, {}, {}, {"quest_accepted"}, 1, NoGauge, {}, 90),
   Frame("Henesys", {}, {"Slime"}, {}, {"quest_accepted"}, 80, 60, {"Hunt"}, 15),
   Frame(NoName, {}, {}, {}, {}, 0, 0, {}, 60)}

Mind(confidence) ==
  [decision |-> [confidence |-> confidence], alignment |-> 80, memory |-> 70, semantic |-> 60]
Agent(location, entities) ==
  [state |-> [location |-> location, entities |-> entities, confidence |-> 80],
   prediction |-> [confidence |-> 60], risk |-> "LOW", goal |-> "goal", mind |-> Mind(80)]
MCAgents == {Agent("Henesys", {"Maya"}), Agent("Perion", {})}

MCTheme == [n \in {NoName, "Errand", "Hunt", "Maya", "Slime"} |->
              CASE n = "Hunt" -> "kill" [] n = "Errand" -> "collect" [] OTHER -> "other"]

Enabled(required) == Policy("CONTROLLED_TEST", TRUE, required, {}, {}, Anything)
Grant(scope, maxActions) == PermissionPolicy(scope, {}, {}, "window", "session", maxActions)
Switch(state) == [type |-> "SESSION", state |-> state]
Token(approved) == [approved |-> approved, stale |-> FALSE]
Spent(elapsed) == Budget(0, 19, 299, 2, 4, elapsed)

Holds ==
  GateInput(Enabled(Mandatory), Token(TRUE), Grant(Anything, 2), Binding("window", "PASSED"),
            Session("CONTROLLED_TEST", "CONTROLLED_TEST", "window", 1), "APPROVED", {Switch("ARMED")}, Spent(29), "CONTROLLED_TEST")
MCGateInputs ==
  {Holds, [Holds EXCEPT !.policy = ControlledTestPolicy({})],
   [Holds EXCEPT !.policy = DefaultPolicy, !.session = Session("MOCK_ONLY", Anything, "window", 1)],
   [Holds EXCEPT !.policy = Enabled(Mandatory \ {"outcome"})], [Holds EXCEPT !.grant = Grant("NAVIGATE", 1)],
   [Holds EXCEPT !.switches = {Switch("ACTIVE")}], [Holds EXCEPT !.budget = Spent(60)]}
=============================================================================
