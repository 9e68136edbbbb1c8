-------------------------------- MODULE ScreenState --------------------------------
(***************************************************************************)
(* vision_runtime/ and the parsers of game_state/: from a screenshot and   *)
(* the text recognized on it to a state of the game.  A line of text is    *)
(* its prefix with its value; names around and quests are sets.  Gauges    *)
(* and confidences are in hundredths, and a gauge that is not shown is     *)
(* NoGauge.                                                                *)
(***************************************************************************)
EXTENDS CompanionContext

NoGauge == -1

\* VisionFrame, as MockScreenshotProvider is told to take it.
Frame(map, npcs, monsters, items, ui, hp, mp, quests, confidence) ==
  [map |-> map, npcs |-> npcs, monsters |-> monsters, items |-> items, ui |-> ui,
   hp |-> hp, mp |-> mp, quests |-> quests, confidence |-> confidence]

\* mock_ocr_text: what the screen shows, line by line.
Lines(prefix, values) == {<<prefix, v>> : v \in values}
ShownText(f) ==
  Lines("MAP", {f.map} \ {NoName}) \cup Lines("NPC", f.npcs) \cup Lines("MONSTER", f.monsters)
  \cup Lines("ITEM", f.items) \cup Lines("UI", f.ui) \cup Lines("QUEST", f.quests)
  \cup Lines("HP", {f.hp} \ {NoGauge}) \cup Lines("MP", {f.mp} \ {NoGauge})

\* MockOCRProvider.recognize, OcrResult
Recognize(text, confidence) == [lines |-> text, confidence |-> confidence]

\* VisionDetector.detect: gauges and quests are no elements.
Detect(ocr) == {l \in ocr.lines : l[1] \notin {"HP", "MP", "QUEST"}}

\* GameStateParser._ratio: a number above one is a percentage, so 1% is taken for all.
Ratio(shown) == IF shown > 1 THEN AtMost(100, shown) ELSE 100 * shown
Gauge(ocr, key) ==
  LET shown == {l[2] : l \in {x \in ocr.lines : x[1] = key}}
  IN  IF shown = {} THEN NoGauge ELSE Ratio(CHOOSE n \in shown : TRUE)

\* GameStateParser._quests
QuestsShown(ocr) == {l[2] : l \in {x \in ocr.lines : x[1] = "QUEST"}}

\* GameStateParser.parse
Parse(frame, ocr) ==
  LET elements == Detect(ocr)
      Named1(prefixes) == {l[2] : l \in {x \in elements : x[1] \in prefixes}}
      labels == Named1({"MAP"})
  IN  [map |-> IF labels = {} THEN NoName ELSE CHOOSE n \in labels : TRUE,
       entities |-> Named1({"NPC", "MONSTER", "ITEM"}), ui |-> Named1({"UI"}),
       hp |-> Gauge(ocr, "HP"), mp |-> Gauge(ocr, "MP"), quests |-> QuestsShown(ocr),
       confidence |-> AtMost(100, (frame.confidence + ocr.confidence) \div 2)]

\* VisionRuntimeValidator.validate
ScreenIssues(o) ==
  (IF o.map = NoName THEN {"missing map"} ELSE {})
  \cup (IF o.entities = {} THEN {"missing entities"} ELSE {})
  \cup (IF o.hp = NoGauge THEN {"missing hp"} ELSE {})
  \cup (IF o.mp = NoGauge THEN {"missing mp"} ELSE {})
  \cup (IF o.confidence < 50 THEN {"low confidence"} ELSE {})

-----------------------------------------------------------------------------
\* PlayerStateParser, MapStateParser, EntityStateParser: the type is the graph's,
\* whatever the text said it is.
PlayerState(o) == [hp |-> o.hp, mp |-> o.mp]
MapState(base, o) == [name |-> o.map, known |-> o.map # NoName /\ Named(base, o.map) # {}]

StateType == [npc |-> "NPC", monster |-> "MONSTER", item |-> "ITEM", map |-> "MAP"]
TypeInState(base, name) ==
  LET known == {e.type : e \in Named(base, name)} \cap DOMAIN StateType
  IN  IF known = {} THEN "UNKNOWN" ELSE StateType[CHOOSE t \in known : TRUE]
EntityStates(base, o) == [n \in o.entities |-> TypeInState(base, n)]

\* QuestStateParser.parse: available is what requires somebody around, by that name.
QuestSnapshot(base, o) ==
  LET Around(q) == \E h \in Related(base, q.id) : h[1].type = "REQUIRES" /\ h[2].name \in o.entities
  IN  [active |-> o.quests,
       available |-> {q.name : q \in {e \in ToSet(base.entities) :
                        e.type = "quest" /\ e.name \notin o.quests /\ Around(e)}}]

\* GameStateExtractor._combat_state
CombatState(o, entities) ==
  CASE "combat" \in o.ui -> "IN_COMBAT"
    [] "combat" \notin o.ui /\ \E n \in DOMAIN entities : entities[n] = "MONSTER" -> "ENCOUNTER"
    [] OTHER -> "NORMAL"

\* GameStateExtractor.extract
Extract(base, o) ==
  [player |-> PlayerState(o), map |-> MapState(base, o), entities |-> EntityStates(base, o),
   quests |-> QuestSnapshot(base, o), combat |-> CombatState(o, EntityStates(base, o)),
   confidence |-> o.confidence]

\* GameStateValidator.validate
GameStateIssues(s) ==
  (IF s.map.name = NoName THEN {"missing map"} ELSE IF ~s.map.known THEN {"unknown map"} ELSE {})
  \cup (IF DOMAIN s.entities = {} THEN {"missing entities"} ELSE {})
  \cup (IF NoGauge \in {s.player.hp, s.player.mp} THEN {"missing hp/mp"} ELSE {})
  \cup (IF s.confidence < 50 THEN {"low confidence"} ELSE {})
=============================================================================
