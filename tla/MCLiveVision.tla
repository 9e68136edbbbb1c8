------------------------------- MODULE MCLiveVision --------------------------------
(***************************************************************************)
(* A client that is in front, behind another window, minimized, gone, drawn *)
(* so that it cannot be printed, or not to be opened while a page of its    *)
(* name is; a label that is sometimes cut short.                            *)
(***************************************************************************)
EXTENDS LiveVision

Client(state, protected, covered, black) ==
  Window(Game, "maple", "Maple", protected, state, covered, black)
Page(state) == Window(Cover, "browser", "Maple", FALSE, state, FALSE, FALSE)
Guarded(state) == Window(Cover, "browser", "Maple", TRUE, state, FALSE, FALSE)

MCDesktops ==
  {1 :> Client("FOREGROUND", FALSE, FALSE, FALSE),
   1 :> Page("FOREGROUND") @@ 2 :> Client("BACKGROUND", FALSE, TRUE, FALSE),
   1 :> Page("FOREGROUND") @@ 2 :> Client("BACKGROUND", FALSE, TRUE, TRUE),
   1 :> Client("FOREGROUND", TRUE, FALSE, TRUE),
   1 :> Client("MINIMIZED", FALSE, FALSE, FALSE),
   1 :> Guarded("FOREGROUND") @@ 2 :> Client("HIDDEN", TRUE, FALSE, FALSE),
   1 :> Page("FOREGROUND")}
MCGameProfile == WithTitles(WindowProfile({"maple"}, {}), {"Maple"})

MCLayouts ==
  {VisionProfile({"map_label", "hp"}, {"mp"}, {}), VisionProfile({}, {}, {"map_label", "hp", "mp"}),
   VisionProfile({"map_label", "hp_numeric"}, {"hp", "mp_numeric"}, {})}
MCPictures == {Picture(50, 50, "a", <<80, 90>>), Picture(52, 58, "a", <<0, 10>>), Picture(50, 50, "b", <<80, 90>>)}

\* "Henesys", what is left of it when it is cut short, "Henesys Market", and a stranger.
MCLength == ("Henesys" :> 7) @@ ("Hen" :> 3) @@ ("Henesys Market" :> 14) @@ ("Ellinia" :> 7)
MCWithin == {<<"Hen", "Henesys">>, <<"Hen", "Henesys Market">>, <<"Henesys", "Henesys Market">>}
Texts(first, second) == ("henesys" :> first) @@ ("market" :> second)
MCReadings ==
  {[scores |-> Texts(80, 70), text |-> NoText, confidence |-> 0],
   [scores |-> Texts(70, 68), text |-> "Hen", confidence |-> 60],
   [scores |-> Texts(20, 10), text |-> "Henesys Market", confidence |-> 80],
   [scores |-> Texts(20, 10), text |-> "Ellinia", confidence |-> 90]}
MCCandidates == <<[id |-> "henesys", names |-> {"Henesys"}], [id |-> "market", names |-> {"Henesys Market"}]>>
MCFacts == {{"henesys"}, {"market"}}

Gauge(tries, kind, n, of) == [tries |-> tries, text |-> [kind |-> kind, n |-> n, of |-> of]]
Full == Gauge(<< <<90, 100>>, <<90, 100>>, <<9, 100>> >>, "fraction", 90, 100)
Misread == Gauge(<< <<50, 100>>, <<50, 10>> >>, "percent", 50, 0)
Missing == Gauge(<<>>, "none", 0, 0)
Gauges(h, m) == [g \in GaugeNames |-> IF g = "hp" THEN h ELSE m]
Shown(app) == FrameOf("OK", app, "imagegrab", "process")
MCSights ==
  {Sight(Shown(Game), "Henesys", 95, Gauges(Full, Full), "letter", {"menu"}),
   Sight(Shown(Game), "Henesys", 85, Gauges(Full, Misread), NoText, {"menu"}),
   Sight(Shown(Cover), "Ellinia", 95, Gauges(Missing, Missing), NoText, {}),
   Sight(Failed("CAPTURE_FAILED", "imagegrab"), NoText, 0, Gauges(Missing, Missing), NoText, {})}
Truth(of) ==
  [of |-> of, label |-> "Henesys", aliases |-> {"Hen"}, gauges |-> [g \in GaugeNames |-> 90],
   quest |-> "letter", ui |-> {"menu"}]
MCTruths == {Truth({Game, Cover, Black, Nothing}), Truth({Game}), Truth({})}
=============================================================================
