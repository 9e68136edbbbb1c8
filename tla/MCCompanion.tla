------------------------------- MODULE MCCompanion -------------------------------
(* The sanitized graph of the companion benchmark, cut to two maps, two       *)
(* persons, a quest and an item, with an alias two persons share.             *)
EXTENDS CompanionRuntime

MCKnown ==
  <<Entity("m1", "map", "Henesys", {}, 95, "v1"), Entity("m2", "map", "Perion", {}, 90, "v1"),
    Entity("n1", "npc", "Instructor", {"Maya"}, 90, "v1"), Entity("n2", "npc", "Guide", {"Maya"}, 88, "v1"),
    Entity("q1", "quest", "Quest", {}, 85, "v1"), Entity("i1", "item", "Item", {}, 85, "v1")>>

MCKind ==
  [map |-> "location", map_label |-> "location", quest |-> "quest", item |-> "inventory",
   npc |-> "nearby", entity |-> "nearby", ui_text |-> "nearby"]

MCRelations ==
  {Relation("CONTAINS", "m1", "n1", 90), Relation("CONTAINS", "m1", "n2", 60),
   Relation("GIVES", "n1", "q1", 90), Relation("REQUIRES", "q1", "i1", 90)}

MCInputs ==
  {<<Evidence("map", "Henesys", 90), Evidence("npc", "Instructor", 90)>>,
   <<Evidence("map", "Henesys", 90), Evidence("map", "Perion", 90)>>,
   <<Evidence("map", "Perion", 90), Evidence("map_label", "Henesys", 80)>>,
   <<Evidence("quest", "Quest", 85), Evidence("item", "Item", 85), Evidence("npc", "Maya", 80)>>}

Screen(map, entities, quests, hp) ==
  [map |-> map, entities |-> entities, quests |-> quests, hp |-> hp, mp |-> NoGauge, confidence |-> 70]

MCScreens ==
  {Screen(<<"Henesys">>, <<"Guide">>, <<"Quest">>, 40), Screen(<<>>, <<"Perion">>, <<>>, NoGauge)}

Candidate(type, value, confidence) == [type |-> type, value |-> value, confidence |-> confidence]

MCSightings ==
  {<<Candidate("HP", 50, 90), Candidate("MAP", "Henesys", 60), Candidate("LABEL", "Nobody", 40)>>,
   <<Candidate("HP", 150, 90), Candidate("MP", 30, 90)>>}
=============================================================================
