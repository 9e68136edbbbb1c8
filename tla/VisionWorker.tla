----------------------------- MODULE VisionWorker -----------------------------
(***************************************************************************)
(* The sampling side of the agent: VisionWorker (vision/worker.py), the    *)
(* life cycle of its capture and OCR providers (providers/base.py), the    *)
(* files a tick leaves in the sessions directory (vision/capture.py,       *)
(* vision/policy.py) and the application's lifespan (webui/app.py) that    *)
(* starts and stops it all.  The worker has an OCR provider, a fusion      *)
(* service and a context builder, as the application builds it.            *)
(*                                                                         *)
(* tick() never awaits, so a tick is one step that gets through some of    *)
(* what it does.  The loop task is suspended only in one of its two sleeps,  *)
(* and that is where stop() cancels it.                                    *)
(***************************************************************************)
EXTENDS Naturals, Sequences, SequencesExt

CONSTANTS
  MaxQueue,    \* maxsize of the bus queue
  MaxImages,   \* ScreenshotPolicy.max_images
  SaveEnabled, \* ScreenshotPolicy.save_enabled
  WindowReal,  \* capture_mode == "WINDOW_REAL"
  Mapped,      \* the worker has a coordinate mapper
  MaxFiles,    \* bound: no tick is taken with more files than this on disk
  MaxOthers    \* bound: files written by others between two clean-ups

ASSUME VisionAssumption ==
  /\ MaxQueue \in Nat /\ MaxImages \in Nat \ {0}
  /\ {SaveEnabled, WindowReal, Mapped} \subseteq BOOLEAN /\ {MaxFiles, MaxOthers} \subseteq Nat

VARIABLES
  app,       \* the lifespan: "down", "up", "stopping", or "failed" while starting
  capture,   \* status of the capture provider
  ocr,       \* status of the OCR provider
  state,     \* VisionWorker._state
  task,      \* the loop task: "none", or the sleep it is in
  cancelled, \* stop() has cancelled it
  waiting,   \* number of events waiting on the bus
  results,   \* the latest result of each stage, and whether it is of latest_frame
  files,     \* the sessions directory, oldest file first
  others,    \* history: files written by other components since the last clean-up
  ocrImage   \* history: was the image there when OCR was last given its path

disk == <<files, others>>
vars == <<app, capture, ocr, state, task, cancelled, waiting, results, disk, ocrImage>>

Screenshot == {"frame", "ocr_input"}
Record == {"capture_context.json", "vision_coordinate.json", "knowledge_match.json",
           "vision.json", "context.json"}

\* The results of a tick: latest_ocr, latest_world, latest_vision,
\* latest_context, and the SCREEN_UPDATED event.
Stage == {"ocr", "world", "vision", "context", "update"}

\* What tick() does after the capture, in its order: the results, and the
\* files written between them (knowledge_match.json by the fusion service).
\* (A slip: the event is published before the records are written.)
UpdateEarly ==
  <<"capture_context.json", "ocr_input", "ocr", "vision_coordinate.json",
    "knowledge_match.json", "world", "update", "vision", "vision.json", "context",
    "context.json">>

Steps ==
  <<"capture_context.json", "ocr_input", "ocr", "vision_coordinate.json",
    "knowledge_match.json", "world", "vision", "vision.json", "context",
    "context.json", "update">>

Init ==
  /\ app = "down" /\ capture = "CREATED" /\ ocr = "CREATED"
  /\ state = "STOPPED" /\ task = "none" /\ cancelled = FALSE
  /\ waiting = 0 /\ results = [s \in Stage |-> "none"]
  /\ files = <<>> /\ others = 0 /\ ocrImage = TRUE

-----------------------------------------------------------------------------
\* (Two slips: one file too many is kept; the newest files are deleted.)
KeepOneMore(fs, expired) ==
  LET live == SubSeq(fs, expired + 1, Len(fs))
  IN  SubSeq(live, (IF Len(live) > MaxImages + 1 THEN Len(live) - MaxImages ELSE 1), Len(live))

KeepOldest(fs, expired) ==
  LET live == SubSeq(fs, expired + 1, Len(fs))
  IN  SubSeq(live, 1, IF Len(live) > MaxImages THEN MaxImages ELSE Len(live))

\* enforce_capacity: expired files go first (they are the oldest), then the
\* oldest of the rest until max_images are left.  It does not ask what a file
\* is: the records of earlier ticks are deleted like screenshots.
Keep(fs, expired) ==
  LET live == SubSeq(fs, expired + 1, Len(fs))
  IN  SubSeq(live, (IF Len(live) > MaxImages THEN Len(live) - MaxImages + 1 ELSE 1), Len(live))

\* _do_capture: the frame is saved, and the directory cleaned, only by policy.
CaptureFiles(expired) ==
  IF SaveEnabled THEN Keep(Append(files, "frame"), expired) ELSE files

\* However many files have expired by then.
Captured == {CaptureFiles(x) : x \in 0..Len(files)}

\* What was written by others before a clean-up is no longer to be counted.
OthersLeft == IF SaveEnabled THEN 0 ELSE others

\* The files a tick writes: an image for OCR only without a saved frame
\* (_ensure_ocr_image), the context of the capture only of a real window, the
\* mapped coordinates only with a mapper, the matched map only when fusion
\* recognized one.
Due(matched) ==
  (IF SaveEnabled THEN {} ELSE {"ocr_input"})
    \cup (IF WindowReal THEN {"capture_context.json"} ELSE {})
    \cup (IF Mapped THEN {"vision_coordinate.json"} ELSE {})
    \cup (IF matched THEN {"knowledge_match.json"} ELSE {})
    \cup {"vision.json", "context.json"}

Only(f, written) == IF f \in written THEN <<f>> ELSE <<>>

StageFiles(fs, written) ==
  fs \o Only("capture_context.json", written) \o Only("ocr_input", written)
     \o Only("vision_coordinate.json", written) \o Only("knowledge_match.json", written)
     \o Only("vision.json", written) \o Only("context.json", written)

\* Results the tick did not reach are of an older frame now.
Refreshed(done) ==
  [s \in Stage |-> IF s \in done THEN "current"
                   ELSE IF results[s] = "none" THEN "none" ELSE "stale"]

Full(n) == waiting + n > MaxQueue
AtMost(n) == IF n > MaxQueue THEN MaxQueue ELSE n

\* The capture fails: it raises, and ERROR_OCCURRED is published if there is
\* room; or its own SCREEN_CAPTURED finds the queue full, after the save.
CaptureFails ==
  /\ state' = "ERROR"
  /\ \/ waiting' = AtMost(waiting + 1) /\ UNCHANGED disk
     \/ /\ capture = "INITIALIZED" /\ Full(1)
        /\ files' \in Captured
        /\ others' = OthersLeft
        /\ UNCHANGED waiting
  /\ UNCHANGED <<results, ocrImage>>

\* The tick gets through the first n steps and raises in the next one, or
\* ends.  OCR_COMPLETED and SCREEN_UPDATED each need room on the bus, and so
\* does the ERROR_OCCURRED of a failed OCR.  Where it raises, the state stays.
TickReaches(n, matched) ==
  LET done == {Steps[i] : i \in 1..n}
  IN
  /\ capture = "INITIALIZED" /\ ~Full(1)
  /\ "ocr" \in done => ocr = "INITIALIZED" /\ ~Full(2)
  /\ "update" \in done => ~Full(3)
  /\ waiting' = IF "update" \in done THEN waiting + 3
                ELSE IF "ocr_input" \in done THEN AtMost(waiting + 2) ELSE waiting + 1
  /\ \E kept \in Captured :
       /\ files' = StageFiles(kept, done \cap Due(matched))
       /\ ocrImage' = (~SaveEnabled \/ (Len(kept) > 0 /\ Last(kept) = "frame"))
  /\ others' = OthersLeft
  /\ results' = Refreshed(done)
  /\ state' = IF n = Len(Steps) THEN "IDLE" ELSE "CAPTURING"

\* tick(): it raises in the capture, or in a step that is taken, or succeeds.
FailsAfter(n, matched) ==
  Steps[n + 1] \in Stage \cup Due(matched) /\ TickReaches(n, matched)
Fails ==
  \/ CaptureFails
  \/ \E n \in 0..(Len(Steps) - 1), matched \in BOOLEAN : FailsAfter(n, matched)
Succeeds == \E matched \in BOOLEAN : TickReaches(Len(Steps), matched)
CanTick == state # "STOPPED" /\ Len(files) <= MaxFiles

-----------------------------------------------------------------------------
\* _loop: sleep, tick, and after an exception a second sleep.
\* (A slip: an exception ends the task.)
LoopTickOnce ==
  /\ task = "sleeping" /\ ~cancelled /\ CanTick
  /\ \/ Succeeds /\ task' = "sleeping"
     \/ Fails /\ task' = "none"
  /\ UNCHANGED <<app, capture, ocr, cancelled>>

LoopTick ==
  /\ task = "sleeping" /\ ~cancelled /\ CanTick
  /\ \/ Succeeds /\ task' = "sleeping"
     \/ Fails /\ task' = "backoff"
  /\ UNCHANGED <<app, capture, ocr, cancelled>>

BackoffEnds ==
  /\ task = "backoff" /\ ~cancelled
  /\ task' = "sleeping"
  /\ state' = IF state = "ERROR" THEN "IDLE" ELSE state
  /\ UNCHANGED <<app, capture, ocr, cancelled, waiting, results, disk, ocrImage>>

\* The cancelled task returns; its finally clause sets the state.
TaskEnds ==
  /\ cancelled
  /\ task' = "none" /\ cancelled' = FALSE /\ state' = "STOPPED"
  /\ UNCHANGED <<app, capture, ocr, waiting, results, disk, ocrImage>>

\* tick() called by somebody else, between two steps of the loop.
ManualTick ==
  /\ CanTick
  /\ Succeeds \/ Fails
  /\ UNCHANGED <<app, capture, ocr, task, cancelled>>

-----------------------------------------------------------------------------
\* lifespan, start: initialize() raises unless the provider is CREATED, which
\* leaves behind whatever was started before it.
EnterLifespan ==
  /\ app = "down"
  /\ capture' = IF capture = "CREATED" THEN "INITIALIZED" ELSE capture
  /\ ocr' = IF capture = "CREATED" /\ ocr = "CREATED" THEN "INITIALIZED" ELSE ocr
  /\ IF capture = "CREATED" /\ ocr = "CREATED"
     THEN app' = "up" /\ state' = "IDLE" /\ task' = "sleeping"
     ELSE app' = "failed" /\ UNCHANGED <<state, task>>
  /\ UNCHANGED <<cancelled, waiting, results, disk, ocrImage>>

\* lifespan, end: stop() cancels the task and waits for it, then the providers
\* are shut down.  (A slip: they are shut down first.)
ShutDownFirst ==
  /\ app = "up"
  /\ app' = "stopping"
  /\ cancelled' = (task # "none")
  /\ ocr' = "SHUTDOWN" /\ capture' = "SHUTDOWN"
  /\ UNCHANGED <<state, task, waiting, results, disk, ocrImage>>

BeginExit ==
  /\ app = "up"
  /\ app' = "stopping"
  /\ cancelled' = (task # "none")
  /\ UNCHANGED <<capture, ocr, state, task, waiting, results, disk, ocrImage>>

EndExit ==
  /\ app = "stopping" /\ task = "none"
  /\ app' = "down"
  /\ state' = "STOPPED" /\ ocr' = "SHUTDOWN" /\ capture' = "SHUTDOWN"
  /\ UNCHANGED <<task, cancelled, waiting, results, disk, ocrImage>>

\* The process ends, or is killed, and a new one begins: the files stay.
NewProcess ==
  /\ app' = "down" /\ capture' = "CREATED" /\ ocr' = "CREATED"
  /\ state' = "STOPPED" /\ task' = "none" /\ cancelled' = FALSE
  /\ waiting' = 0 /\ results' = [s \in Stage |-> "none"] /\ ocrImage' = TRUE
  /\ UNCHANGED disk

\* The bus dispatches, and other components publish.
Drain ==
  /\ app # "down" /\ waiting > 0
  /\ waiting' = waiting - 1
  /\ UNCHANGED <<app, capture, ocr, state, task, cancelled, results, disk, ocrImage>>

OthersPublish ==
  /\ waiting < MaxQueue
  /\ waiting' = waiting + 1
  /\ UNCHANGED <<app, capture, ocr, state, task, cancelled, results, disk, ocrImage>>

\* The loop, the memory, the sandbox and other components keep their records
\* in the same directory (scripts/demo_webui.py, sessions_dir="sessions").
OthersWrite ==
  /\ app # "down" /\ Len(files) < MaxFiles /\ others < MaxOthers
  /\ files' = Append(files, "other") /\ others' = others + 1
  /\ UNCHANGED <<app, capture, ocr, state, task, cancelled, waiting, results, ocrImage>>

Loop == LoopTick \/ BackoffEnds \/ TaskEnds

Next ==
  \/ Loop \/ ManualTick
  \/ EnterLifespan \/ BeginExit \/ EndExit \/ NewProcess
  \/ Drain \/ OthersPublish \/ OthersWrite

\* Timers fire, so the loop task goes on; users and failures owe nothing.
Spec == Init /\ [][Next]_vars /\ WF_vars(Loop) /\ WF_vars(Drain)

-----------------------------------------------------------------------------
TypeOK ==
  /\ app \in {"down", "up", "stopping", "failed"}
  /\ {capture, ocr} \subseteq {"CREATED", "INITIALIZED", "SHUTDOWN"}
  /\ state \in {"STOPPED", "IDLE", "CAPTURING", "ERROR"}
  /\ task \in {"none", "sleeping", "backoff"} /\ cancelled \in BOOLEAN
  /\ waiting \in 0..MaxQueue
  /\ results \in [Stage -> {"none", "current", "stale"}]
  /\ files \in Seq(Screenshot \cup Record \cup {"other"}) /\ others \in Nat
  /\ ocrImage \in BOOLEAN

\* Whenever the worker may tick, whoever calls it and wherever the lifespan
\* is, the providers it calls are initialized.
ProvidersUp == state # "STOPPED" => capture = "INITIALIZED" /\ ocr = "INITIALIZED"

\* What the console reads never mixes frames the wrong way round, after a tick
\* failed at any stage: a later stage's result of the latest frame means that
\* every earlier stage's is of it too; the event comes after both records.
InPipelineOrder ==
  /\ results.update = "current" => results.context = "current"
  /\ results.context = "current" => results.vision = "current"
  /\ results.vision = "current" => results.world = "current"
  /\ results.world = "current" => results.ocr = "current"

\* The screenshot saved for OCR survives the clean-up that follows the save.
ImageForOcr == ocrImage

\* With saving on, the sessions directory stays bounded, whatever fails and
\* whoever else writes into it: what the clean-up keeps, the five records a
\* tick may write after it, and what others wrote since (vision/policy.py).
FilesBounded == SaveEnabled => Len(files) <= MaxImages + 5 + others

\* The loop goes on sampling as long as the application is up, whatever fails.
KeepsSampling == <>[](app = "up") => []<><<LoopTick>>_vars

\* Documented (policy.py: capacity control, so that long runs do not pile up
\* files): no more than max_images screenshots are on disk.
ScreenshotsBounded == Len(SelectSeq(files, LAMBDA f : f \in Screenshot)) <= MaxImages
=============================================================================
