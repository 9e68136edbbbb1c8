------------------------------- MODULE ScreenCapture -------------------------------
(***************************************************************************)
(* window/discovery.py and the capture providers of real_vision/: which    *)
(* top-level window is taken for the game, and whose picture comes out of  *)
(* a look at the screen.  A desktop is a function from window handles to   *)
(* windows; a frame remembers whose content it shows, which the program    *)
(* does not know.  What Windows does (a minimized window has an empty      *)
(* client area, a region of the screen shows what covers it) is taken from *)
(* how the providers guard against it.                                     *)
(***************************************************************************)
EXTENDS Integers, FiniteSets

NoName == "no name"
NoWindow == 0
Game == "game"
Cover == "what covers it"
Nothing == "nothing"
Black == "black"

\* WindowCandidate, with what only the desktop knows: whose window it is, whether its
\* process may be opened, whether another window covers it, and whether it draws in a
\* way that cannot be printed and may come out black on the screen too.
Window(app, process, title, protected, state, covered, black) ==
  [app |-> app, process |-> process, title |-> title, protected |-> protected,
   visible |-> state # "HIDDEN", minimized |-> state = "MINIMIZED", foreground |-> state = "FOREGROUND",
   covered |-> covered, black |-> black]

\* GameWindowProfile: names of processes and titles, compared after normalisation.
WindowProfile(processes, titles) == [processes |-> processes, titles |-> titles]
WithTitles(profile, titles) == [profile EXCEPT !.titles = titles]

\* _resolve_process_name
ProcessOf(w) == IF w.protected THEN NoName ELSE w.process

\* discover_window: a title alone counts only for a window whose process is unknown.
Score(w, profile) ==
  LET process == ProcessOf(w) # NoName /\ ProcessOf(w) \in profile.processes
      title == w.title \in profile.titles
  IN  IF process /\ title THEN 300
      ELSE IF process THEN 200
      ELSE IF title /\ ProcessOf(w) = NoName THEN 100 ELSE 0
MethodOf(score) ==
  CASE score = 300 -> "process_and_title" [] score = 200 -> "process" [] score = 100 -> "title" [] OTHER -> "none"

\* WindowsWindowDiscovery.discover: EnumWindows, visible windows only.
Listed(desktop) == {h \in DOMAIN desktop : desktop[h].visible}

\* discover_window: the best score, then the lowest handle.
Discover(desktop, profile) ==
  LET ranked == {h \in Listed(desktop) : Score(desktop[h], profile) > 0}
      Ahead(h, g) == \/ Score(desktop[h], profile) > Score(desktop[g], profile)
                     \/ Score(desktop[h], profile) = Score(desktop[g], profile) /\ h <= g
  IN  IF ranked = {} THEN NoWindow ELSE CHOOSE h \in ranked : \A g \in ranked : Ahead(h, g)

\* classify_window_state and window_state_from_provider: what covers a window is not
\* among what is asked of it.
Conditions == {"FOREGROUND", "BACKGROUND_VISIBLE", "BACKGROUND_OCCLUDED", "MINIMIZED"}
Classify(foreground, minimized, visible) ==
  CASE minimized -> "MINIMIZED"
    [] ~minimized /\ foreground /\ visible -> "FOREGROUND"
    [] ~minimized /\ ~foreground /\ visible -> "BACKGROUND_VISIBLE"
    [] ~minimized /\ ~visible -> "BACKGROUND_OCCLUDED"
Measured(desktop, profile) ==
  LET h == Discover(desktop, profile)
  IN  IF h = NoWindow THEN Classify(FALSE, FALSE, FALSE)
      ELSE Classify(desktop[h].foreground, desktop[h].minimized, desktop[h].visible)

-----------------------------------------------------------------------------
(* Frames.  A failed one has confidence zero.                                *)
FrameOf(status, shows, provider, method) ==
  [good |-> status = "OK", status |-> status, shows |-> shows, provider |-> provider, method |-> method]
Failed(status, provider) == FrameOf(status, Nothing, provider, "none")
Found(desktop, profile) == MethodOf(Score(desktop[Discover(desktop, profile)], profile))

\* WindowsGraphicsCaptureProvider.capture: the window's own picture, covered or not,
\* unless no frame arrives in time or the capture breaks.
WgcFrames(desktop, profile) ==
  LET h == Discover(desktop, profile)
  IN  IF h = NoWindow THEN {Failed("WINDOW_NOT_FOUND", "wgc")}
      ELSE IF desktop[h].minimized THEN {Failed("WINDOW_INVALID", "wgc")}
      ELSE {FrameOf("OK", desktop[h].app, "wgc", Found(desktop, profile)),
            Failed("WINDOW_INVALID", "wgc"), Failed("CAPTURE_FAILED", "wgc")}

\* WindowsScreenshotProvider._resolve_rect, capture: no window or no client area.
HasRegion(desktop, profile) ==
  LET h == Discover(desktop, profile) IN h # NoWindow /\ ~desktop[h].minimized

\* _printwindow: refused when it fails or comes out black.
PrintedFrames(w, method) ==
  {Failed("UNAVAILABLE", "printwindow")}
  \cup (IF w.black THEN {} ELSE {FrameOf("OK", w.app, "printwindow", method)})

\* _imagegrab: the region of the screen, whatever is there now, black or not.
OnScreen(w) == IF w.covered THEN {Cover} ELSE {w.app} \cup (IF w.black THEN {Black} ELSE {})
GrabbedFrames(w, method) ==
  {FrameOf("OK", shown, "imagegrab", method) : shown \in OnScreen(w)} \cup {Failed("CAPTURE_FAILED", "imagegrab")}

\* _capture_region with method "auto": print the window, else grab its region.
ScreenshotFrames(desktop, profile) ==
  LET w == desktop[Discover(desktop, profile)]
      printed == PrintedFrames(w, Found(desktop, profile))
  IN  IF ~HasRegion(desktop, profile) THEN {Failed("WINDOW_NOT_FOUND", "none")}
      ELSE {f \in printed : f.good} \cup GrabbedFrames(w, Found(desktop, profile))

\* WindowsScreenshotProvider.discover_window
Binding(desktop, profile) == IF Discover(desktop, profile) = NoWindow THEN "NOT_FOUND" ELSE "BOUND"

-----------------------------------------------------------------------------
(* CaptureManager.capture, before and after the second provider is asked.    *)
Taken(frame, provider, reason, told) ==
  [frame |-> frame, provider |-> provider, reason |-> reason, told |-> told]

\* MINIMIZED: not tried.
NotSupported(told) == Taken(Failed("UNAVAILABLE", "none"), "none", "minimized-not-supported", told)

\* (A slip: a covered window is looked for on the screen after all.)
SettlesWhenGood(told, frame) == frame.good
\* What WGC brought is final when it is good, or when the screen must not be trusted.
Settles(told, frame) == frame.good \/ told = "BACKGROUND_OCCLUDED"
FromWgc(told, frame) ==
  Taken(frame, "wgc", IF frame.good THEN "wgc-ok" ELSE "occluded-wgc-failed-no-fallback", told)

\* The second provider, after a failure of WGC or for want of it.
MayBeOccluded == "wgc-unavailable-imagegrab-may-be-occluded"
FromScreen(told, wgcAvailable, frame) ==
  Taken(frame, "imagegrab",
        IF wgcAvailable THEN "wgc-failed-imagegrab-fallback"
        ELSE IF told = "BACKGROUND_OCCLUDED" THEN MayBeOccluded ELSE "wgc-unavailable-imagegrab", told)
=============================================================================
