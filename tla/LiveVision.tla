-------------------------------- MODULE LiveVision ---------------------------------
(***************************************************************************)
(* The programs that put the vision of the agent to a real client, one at  *)
(* a time: "collect" takes frames through the capture manager              *)
(* (collect_real_vision_frames.py, after probe_capture_conditions.py);     *)
(* "look" goes through frames with the change detector, reads what changed *)
(* and asks the visual model about what it cannot read (trace_event_       *)
(* driven_vision.py, vision_runtime/); "validate" takes samples, compares  *)
(* them with what a person says they show and derives the readiness that   *)
(* the safety contract asks for (validate_real_vision.py, real_vision/).   *)
(* Whatever happens on the desktop happens between two looks at it.        *)
(***************************************************************************)
EXTENDS ScreenCapture, FrameReading

CONSTANTS Desktops,    \* what a look at the desktop may find
          GameProfile, \* the WindowProfile of the client
          Layouts,     \* vision profiles
          Pictures,    \* what a collected frame may show
          Readings,    \* what text and template scores a label may give
          Candidates,  \* the maps known, in order
          Facts,       \* what the visual model may say of a frame
          Sights,      \* what a sample may show and be read as
          Truths,      \* what a person may say the samples show
          Cooldown, UnknownLimit, CliTimeout, MinSamples,
          MaxClock, MaxFrames, MaxAnswers, MaxSamples  \* bounds of the exploration

ASSUME Times == Cooldown \in Nat /\ CliTimeout \in Nat
ASSUME SightsAreFew == IsFiniteSet(Sights) /\ \A s \in Sights : s.ok \in BOOLEAN
\* A handle is a number and none is zero; the processes the profile names are the game's.
ASSUME Handles == \A d \in Desktops : DOMAIN d \subseteq Nat \ {NoWindow}
ASSUME ProcessesNamed ==
  \A d \in Desktops : \A h \in DOMAIN d : d[h].process \in GameProfile.processes => d[h].app = Game

VARIABLES program, step,
          told, wgc, taken,                    \* collect: the condition given, is there WGC, the last frame
          rois, previous, change, label, hp,   \* look: the detector, what it found, what is read
          clock, gate, files, frame, answers,  \* look: the gate, the store of frames, the answers
          ocr, samples, readiness              \* validate: the backend, how many samples of each sight, the verdict

collecting == <<told, wgc, taken>>
looking == <<rois, previous, change, label, hp>>
asking == <<clock, gate, files, frame, answers>>
validating == <<ocr, samples, readiness>>
vars == <<program, step, collecting, looking, asking, validating>>

NoFrame == 0
NotTaken == NotSupported("MINIMIZED")
NoChange == [changed |-> FALSE, score |-> 0, label |-> 0]
NotReady == [status |-> "NOT_READY", fresh |-> FALSE, of |-> {}, names |-> {}]

-----------------------------------------------------------------------------
(* collect.                                                                  *)
\* probe_capture_conditions.py measures the condition; or a person names it.
TellCondition ==
  /\ program = "collect" /\ step = "start"
  /\ told' \in Conditions \cup {Measured(d, GameProfile) : d \in Desktops}
  /\ step' = "idle"
  /\ UNCHANGED <<program, wgc, taken, looking, asking, validating>>

\* CaptureManager.capture as far as it goes without the second provider.
TryFirst ==
  /\ program = "collect" /\ step = "idle"
  /\ \/ /\ told = "MINIMIZED"
        /\ taken' = NotSupported(told) /\ UNCHANGED step
     \/ /\ told # "MINIMIZED" /\ wgc
        /\ \E d \in Desktops : \E f \in WgcFrames(d, GameProfile) :
             IF Settles(told, f) THEN taken' = FromWgc(told, f) /\ UNCHANGED step
             ELSE step' = "fallback" /\ UNCHANGED taken
     \/ /\ told # "MINIMIZED" /\ ~wgc
        /\ step' = "fallback" /\ UNCHANGED taken
  /\ UNCHANGED <<program, told, wgc, looking, asking, validating>>

\* The second provider finds the window for itself, up to five seconds later.
TrySecond ==
  /\ program = "collect" /\ step = "fallback"
  /\ \E d \in Desktops : \E f \in ScreenshotFrames(d, GameProfile) : taken' = FromScreen(told, wgc, f)
  /\ step' = "idle"
  /\ UNCHANGED <<program, told, wgc, looking, asking, validating>>

-----------------------------------------------------------------------------
(* look: frames, changes and what is read.                                   *)
\* The label is read when it changed, by the templates and else from its text.
ReadLabel(r) ==
  LET found == Discriminate(r.scores)
  IN  IF found # NoText THEN found ELSE ResolveName(r.text, r.confidence, Candidates).id

LookAt(picture) ==
  /\ program = "look" /\ step = "idle"
  /\ change' = DetectChange(previous, picture, rois)
  /\ previous' = picture
  /\ hp' = IF "COLOR_GEOMETRY" \in PlannedTasks(change', rois) THEN ReadBar(picture.bar) ELSE hp
  /\ IF "OCR" \in PlannedTasks(change', rois)
     THEN \E r \in Readings : label' = ReadLabel(r) ELSE UNCHANGED label
  /\ step' = "read"
  /\ UNCHANGED <<program, rois, collecting, asking, validating>>

\* VisualSemanticGate.evaluate
Elapsed(g, now) == Max({0, now - g.lastCall})
\* (A slip: a call at time zero is none.)
CoolingSinceTruthy(g, now) == g.lastCall > 0 /\ Elapsed(g, now) < Cooldown
Cooling(g, now) == g.lastCall # Unread /\ Elapsed(g, now) < Cooldown
Trigger(g, c, known, asked) ==
  CASE asked = "MANUAL_PROBE" \/ asked = "OCR_FAILURE" \/ asked = "STALE_EVIDENCE" -> asked
    [] asked = "NOTHING" /\ c.label >= ChangeThreshold -> "MAP_REGION_CHANGE"
    [] asked = "NOTHING" /\ c.label < ChangeThreshold /\ c.changed -> "SCENE_CHANGE"
    [] asked = "NOTHING" /\ c.label < ChangeThreshold /\ ~c.changed /\ ~known ->
         IF g.streak >= UnknownLimit THEN "PERSISTENT_UNKNOWN"
         ELSE IF g.lastCall # Unread THEN "COOLDOWN_EXPIRED" ELSE "INITIAL_UNKNOWN"
    [] OTHER -> "NO_TRIGGER"
CallAllowed(g, now, c, local, known, asked) ==
  /\ ~local
  /\ ~Cooling(g, now)
  /\ Trigger(g, c, known, asked) # "NO_TRIGGER"

\* EphemeralFrameStore: the images held, each under its token.
Put(token) == files \cup {<<"frame", token>>}
Delete(token) == files \ {<<"frame", token>>}

\* A frame is stored and the model is asked about it; or about one that was stored
\* before, when its request is sent once more.
Ask(asked, local) ==
  /\ program = "look" /\ step = "read"
  /\ CallAllowed(gate, clock, change, local, label # NoText, asked)
  /\ Len(answers) < MaxAnswers
  /\ \/ frame < MaxFrames /\ frame' = frame + 1 /\ files' = Put(frame')
     \/ frame > 0 /\ UNCHANGED <<frame, files>>
  /\ step' = "asked"
  /\ UNCHANGED <<program, clock, gate, answers, collecting, looking, validating>>

Leave(asked, local) ==
  /\ program = "look" /\ step = "read"
  /\ ~CallAllowed(gate, clock, change, local, label # NoText, asked) \/ Len(answers) = MaxAnswers
  /\ step' = "idle"
  /\ UNCHANGED <<program, collecting, looking, asking, validating>>

\* VisualSemanticResponse: only a valid one has candidates.
Response(token, status, facts, at) == [frame |-> token, status |-> status, facts |-> facts, at |-> at]
NoFacts == {}

\* antigravity_visual_bridge.py: what the model says is put under the frame asked
\* about; everything that goes wrong inside is an invalid answer.
BridgeAnswers(token) ==
  {Response(token, "VALID", f, clock) : f \in Facts}
  \cup {Response(token, "VLM_OUTPUT_INVALID", NoFacts, clock), Response(token, "UNKNOWN", NoFacts, clock)}

\* AntigravityVisualSemanticProvider.observe: no frame, no command, exit, output; what
\* is said of another frame is invalid.
Unavailable(token, at) == Response(token, "PROVIDER_UNAVAILABLE", NoFacts, at)
Observed(token) ==
  IF <<"frame", token>> \notin files THEN {Unavailable(token, clock)}
  ELSE {Unavailable(token, clock), Unavailable(token, clock + CliTimeout)}
       \cup BridgeAnswers(token)

\* record_call
Recorded(g, response) ==
  [lastCall |-> response.at, streak |-> IF response.status = "VALID" THEN 0 ELSE g.streak + 1]

\* Whatever comes of it, the frame is deleted; a command that was killed leaves the
\* schema it had written beside the frame.
Kept(response) ==
  Delete(frame) \cup (IF response.at > clock THEN {<<"schema", frame>>} ELSE {})
Answer ==
  /\ program = "look" /\ step = "asked"
  /\ \E r \in Observed(frame) :
       /\ answers' = Append(answers, r)
       /\ gate' = Recorded(gate, r)
       /\ clock' = r.at
       /\ files' = Kept(r)
  /\ step' = "idle"
  /\ UNCHANGED <<program, frame, collecting, looking, validating>>

\* Output that is no text raises past the provider: the frame goes, nothing is recorded.
AnswerGarbled ==
  /\ program = "look" /\ step = "asked" /\ <<"frame", frame>> \in files
  /\ files' = Delete(frame)
  /\ step' = "idle"
  /\ UNCHANGED <<program, clock, gate, frame, answers, collecting, looking, validating>>

PassTime(d) ==
  /\ program = "look" /\ step = "idle" /\ clock + d <= MaxClock
  /\ clock' = clock + d
  /\ UNCHANGED <<program, step, gate, files, frame, answers, collecting, looking, validating>>

\* EphemeralFrameStore.close removes its directory.
CloseStore ==
  /\ program = "look" /\ step = "idle" /\ frame > 0
  /\ files' = {} /\ step' = "closed"
  /\ UNCHANGED <<program, clock, gate, frame, answers, collecting, looking, validating>>

\* VisualSemanticAgreementGate.evaluate
ValidOnes(responses) == {i \in DOMAIN responses : responses[i].status = "VALID"}
Agreement(responses) ==
  LET valid == ValidOnes(responses)
      said == {responses[i].facts : i \in valid}
  IN  IF Cardinality(valid) < 2 THEN "INSUFFICIENT_DATA"
      ELSE IF Cardinality(said) = 1 THEN "CONSISTENT" ELSE "CONFLICT"

-----------------------------------------------------------------------------
(* validate.  Rates are in ten-thousandths, which is what they are rounded to. *)
GaugeNames == {"hp", "mp"}
Rate(part, whole) == IF whole = 0 THEN Unread ELSE (10000 * part + whole \div 2) \div whole
Mean(values) == IF values = <<>> THEN Unread ELSE FoldLeft(+, 0, values) \div Len(values)

\* A sample as it is seen: whether the capture succeeded, whose picture it is, the
\* text of the label, what the whole frame says, and how sure the reading is.
Sight(f, label_text, confidence, gauges, quest, ui) ==
  [ok |-> f.good, shows |-> f.shows, label |-> label_text, confidence |-> confidence,
   gauges |-> gauges, quest |-> quest, ui |-> ui]

\* RealOCRProvider: the first backend there is; that of Windows reads nothing yet.
OcrBackend(winrt, tesseract) == IF winrt THEN "windows" ELSE IF tesseract THEN "tesseract" ELSE "none"

\* _predict_from_observation: what was never read predicts nothing.
Prediction(name, gauges, quest, ui, confidence) ==
  [label |-> name, gauges |-> gauges, quest |-> quest, ui |-> ui, confidence |-> confidence]
NoPrediction == Prediction(NoText, [g \in GaugeNames |-> Unread], NoText, {}, 0)

\* capture_one: with both numeric regions the extractor reads the gauges, which does
\* not go through the backend; otherwise the text of their regions is parsed.
ReadGauge(g, backend) ==
  IF {"hp_numeric", "mp_numeric"} \subseteq rois THEN ReadRatio(g.tries).ratio
  ELSE IF backend = "tesseract" THEN ParseRatio(g.text) ELSE Unread
Predict(s, backend) ==
  LET read == [g \in GaugeNames |-> ReadGauge(s.gauges[g], backend)]
  IN  IF ~s.ok THEN NoPrediction
      ELSE IF backend = "tesseract" THEN Prediction(s.label, read, s.quest, s.ui, s.confidence)
      ELSE Prediction(NoText, read, NoText, {}, 0)

\* suggested_labels.json keeps the label, the gauges and the confidence.
Suggested(prediction) == Prediction(prediction.label, prediction.gauges, NoText, {}, prediction.confidence)

\* RealVisionBenchmark.evaluate: of is what somebody labelled ("*" labels everything);
\* each quantity is measured over the samples that have a truth for it, the gauges and
\* the quest only where something was read.
Count(bag, sights) == SumFunctionOnSet(bag, sights)

NamesOf(truth) == {truth.label} \cup truth.aliases
LabelRate(bag, labelled, truth, predicted) ==
  LET named == {s \in labelled : truth.label # NoText}
  IN  Rate(Count(bag, {s \in named : predicted[s].label \in NamesOf(truth)}), Count(bag, named))

QuestRate(bag, labelled, truth, predicted) ==
  LET quests == {s \in labelled : truth.quest # NoText /\ predicted[s].quest # NoText}
  IN  Rate(Count(bag, {s \in quests : predicted[s].quest = truth.quest}), Count(bag, quests))

GaugeRate(bag, labelled, truth, predicted) ==
  LET Compared(g) == {s \in labelled : truth.gauges[g] # Unread /\ predicted[s].gauges[g] # Unread}
      Error(g) == Rate(MapThenSumSet(LAMBDA s : bag[s] * Distance(predicted[s].gauges[g], truth.gauges[g]), Compared(g)),
                       100 * Count(bag, Compared(g)))
      errors == SelectSeq([i \in 1..2 |-> Error(<<"hp", "mp">>[i])], LAMBDA e : e # Unread)
  IN  IF errors = <<>> THEN Unread ELSE 10000 - Mean(errors)

UiRate(bag, known, labelled, truth, predicted) ==
  LET Shown(s) == IF s \in labelled THEN truth.ui ELSE {}
      marked == {s \in known : Shown(s) \cup predicted[s].ui # {}}
      Overlap(s) == (100 * Cardinality(Shown(s) \cap predicted[s].ui)) \div Cardinality(Shown(s) \cup predicted[s].ui)
  IN  Rate(MapThenSumSet(LAMBDA s : bag[s] * Overlap(s), marked), 100 * Count(bag, marked))

Bucket(confidence) == IF confidence < 50 THEN 0 ELSE Min({9, confidence \div 10})
Calibration(bag, labelled, truth, predicted) ==
  LET named == {s \in labelled : truth.label # NoText}
      Alike(b) == {s \in named : Bucket(predicted[s].confidence) = b}
      Right(b) == {s \in Alike(b) : predicted[s].label \in NamesOf(truth)}
      buckets == SelectSeq([b \in 1..10 |-> Rate(Count(bag, Right(b - 1)), Count(bag, Alike(b - 1)))],
                           LAMBDA r : r # Unread)
  IN  Mean(buckets)

\* capture_ok of the session; a manifest says nothing of it.
CaptureRate(bag, known, captured) ==
  IF captured THEN Rate(Count(bag, {s \in known : s.ok}), Max({1, Count(bag, known)}))
  ELSE Unread

Evaluate(bag, truth, predicted, captured) ==
  LET known == {s \in Sights : bag[s] > 0}
      labelled == {s \in known : s.shows \in truth.of}
  IN  [count |-> Count(bag, known),
       capture |-> CaptureRate(bag, known, captured),
       label |-> LabelRate(bag, labelled, truth, predicted),
       gauges |-> GaugeRate(bag, labelled, truth, predicted),
       quest |-> QuestRate(bag, labelled, truth, predicted),
       ui |-> UiRate(bag, known, labelled, truth, predicted),
       calibration |-> Calibration(bag, labelled, truth, predicted)]

\* (A slip: as in the list of reasons, what was not measured does not count against it.)
PassesUnmeasured(m) ==
  /\ m.count >= MinSamples
  /\ m.capture = Unread \/ m.capture >= 9800
  /\ m.label = Unread \/ m.label >= 9500
  /\ m.gauges = Unread \/ m.gauges >= 9500
  /\ m.quest = Unread \/ m.quest >= 9000
  /\ m.ui = Unread \/ m.ui >= 8500
  /\ m.calibration = Unread \/ m.calibration >= 7000
\* RealVisionReadinessPolicy and build_real_vision_readiness: what was not measured
\* does not pass.
Passes(m) ==
  /\ m.count >= MinSamples
  /\ m.capture >= 9800
  /\ m.label >= 9500
  /\ m.gauges >= 9500
  /\ m.quest >= 9000
  /\ m.ui >= 8500
  /\ m.calibration >= 7000
Verdict(m, tested, available) ==
  IF tested /\ available /\ Passes(m) THEN "PASSED"
  ELSE IF m.count > 0 /\ tested THEN "FOUNDATION_ONLY" ELSE "NOT_READY"
Ready(m, truth, fresh) ==
  [status |-> Verdict(m, TRUE, TRUE), fresh |-> fresh, of |-> truth.of, names |-> NamesOf(truth)]

\* main: without a window or a backend there is nothing to take samples of.
StartValidation ==
  /\ program = "validate" /\ step = "start"
  /\ \E d \in Desktops, winrt \in BOOLEAN, tesseract \in BOOLEAN :
       /\ ocr' = OcrBackend(winrt, tesseract)
       /\ step' = IF Binding(d, GameProfile) = "NOT_FOUND" \/ ocr' = "none" THEN "stopped" ELSE "sampling"
  /\ UNCHANGED <<program, collecting, looking, asking, samples, readiness>>

\* capture_one: a failed capture is a sample too, which nothing was read from.
TakeSample ==
  /\ program = "validate" /\ step = "sampling"
  /\ FoldFunction(+, 0, samples) < MaxSamples
  /\ \E d \in Desktops : \E f \in ScreenshotFrames(d, GameProfile) :
       \E s \in {x \in Sights : x.ok = f.good /\ x.shows = f.shows} : samples' = [samples EXCEPT ![s] = @ + 1]
  /\ UNCHANGED <<program, step, ocr, readiness, collecting, looking, asking>>

\* _evaluate_and_report, at the end of the session that took the samples.
Finish ==
  /\ program = "validate" /\ step = "sampling"
  /\ \E truth \in Truths, predicted \in {[s \in Sights |-> Predict(s, ocr)]} :
       readiness' = Ready(Evaluate(samples, truth, predicted, TRUE), truth, TRUE)
  /\ step' = "done"
  /\ UNCHANGED <<program, ocr, samples, collecting, looking, asking>>

\* --evaluate-manifest: later, over the samples and suggested labels that were kept.
Reevaluate ==
  /\ program = "validate" /\ step = "done"
  /\ \E truth \in Truths, predicted \in {[s \in Sights |-> Suggested(Predict(s, ocr))]} :
       readiness' = Ready(Evaluate(samples, truth, predicted, FALSE), truth, FALSE)
  /\ UNCHANGED <<program, step, ocr, samples, collecting, looking, asking>>

-----------------------------------------------------------------------------
Init ==
  /\ program \in {"collect", "look", "validate"}
  /\ step = IF program = "look" THEN "idle" ELSE "start"
  /\ told = "MINIMIZED" /\ wgc \in {TRUE, program # "collect"} /\ taken = NotTaken
  /\ rois \in {RoisOf(p) : p \in Layouts}
  /\ previous = NoPicture /\ change = NoChange /\ label = NoText /\ hp = Unread
  /\ clock = 0 /\ gate = [lastCall |-> Unread, streak |-> 0]
  /\ files = {} /\ frame = NoFrame /\ answers = <<>>
  /\ ocr = "none" /\ samples = [s \in Sights |-> 0] /\ readiness = NotReady

Next ==
  \/ TellCondition \/ TryFirst \/ TrySecond
  \/ \E picture \in Pictures : LookAt(picture)
  \/ \E asked \in {"NOTHING", "MANUAL_PROBE", "OCR_FAILURE", "STALE_EVIDENCE"}, known \in BOOLEAN :
       Ask(asked, known) \/ Leave(asked, known)
  \/ Answer \/ AnswerGarbled \/ CloseStore
  \/ \E d \in 1..Cooldown : PassTime(d)
  \/ StartValidation \/ TakeSample \/ Finish \/ Reevaluate

Spec == Init /\ [][Next]_vars

-----------------------------------------------------------------------------
\* A collected frame that succeeded shows the game, unless the window was found by its
\* title alone, or the frame is a region of the screen; which is not said of a window
\* told to be covered without the reason saying that it may be (capture_manager.py,
\* window/discovery.py).  Nothing is collected of a window told to be minimized.
ShownIsTheGame ==
  taken.frame.good =>
    /\ taken.told # "MINIMIZED"
    /\ \/ taken.frame.shows = Game
       \/ taken.frame.method = "title"
       \/ /\ taken.frame.provider = "imagegrab"
          /\ taken.told = "BACKGROUND_OCCLUDED" => taken.reason = MayBeOccluded

\* Facts that agree were seen in two different frames, at least a cooldown apart: one
\* image is never its own confirmation, however often it is sent, and outside a call no
\* image is kept (visual_semantics.py, antigravity.py).
ConfirmedByTwoMoments ==
  /\ step # "asked" => \A f \in files : f[1] # "frame"
  /\ Agreement(answers) # "INSUFFICIENT_DATA" =>
       \E i, j \in ValidOnes(answers) :
         answers[i].frame # answers[j].frame /\ answers[i].at - answers[j].at >= Cooldown

\* The vision passes only at the end of the session that took the samples, and only if,
\* but for the rounding of rates to four decimals, at most one in twenty of those that
\* somebody labelled was not read as the place it is said to be, and one in fifty
\* captures failed: what was captured of something else, not read at all or read wrong
\* counts against it, whatever was measured over what (benchmark.py, readiness.py).
ReadyIsEarned ==
  readiness.status = "PASSED" =>
    LET labelled == {s \in Sights : s.shows \in readiness.of}
        misread == {s \in labelled : Predict(s, ocr).label \notin readiness.names}
    IN  /\ readiness.fresh /\ ocr = "tesseract"
        /\ Count(samples, Sights) >= MinSamples
        /\ 20000 * Count(samples, misread) <= 1001 * Count(samples, labelled)
        /\ 20000 * Count(samples, {s \in Sights : ~s.ok}) <= 401 * Count(samples, Sights)
=============================================================================
