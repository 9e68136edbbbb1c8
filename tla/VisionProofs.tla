---------------------------- MODULE VisionProofs ----------------------------
(***************************************************************************)
(* Theorems of VisionWorker for every queue, every capacity of the         *)
(* sessions directory, with saving and without.  The inductive invariant   *)
(* adds to the properties where the lifespan is while the worker runs.     *)
(***************************************************************************)
EXTENDS VisionWorker, TLAPS

\* The lifespan and the worker: a worker that is not stopped belongs to an
\* application that is up or stopping; only stop() cancels, and only a task.
Lifespan ==
  /\ state # "STOPPED" => app \in {"up", "stopping"}
  /\ cancelled => app = "stopping" /\ task # "none"

IInv ==
  /\ TypeOK
  /\ Lifespan
  /\ ProvidersUp
  /\ InPipelineOrder
  /\ ImageForOcr
  /\ FilesBounded

-----------------------------------------------------------------------------
\* The steps of a tick, in order, and how far it came.
LEMMA StepNames == Len(Steps) = 11
  BY DEF Steps

Done(n) == {Steps[i] : i \in 1..n}

\* A tick that has a result has been through the steps before it.
LEMMA DoneIsPrefix ==
  ASSUME NEW n \in 0..11
  PROVE  /\ "ocr" \in Done(n) <=> n >= 3
         /\ "world" \in Done(n) <=> n >= 6
         /\ "vision" \in Done(n) <=> n >= 7
         /\ "context" \in Done(n) <=> n >= 9
         /\ "update" \in Done(n) <=> n >= 11
  <1>1. /\ Steps[1] = "capture_context.json" /\ Steps[2] = "ocr_input"
        /\ Steps[3] = "ocr" /\ Steps[4] = "vision_coordinate.json"
        /\ Steps[5] = "knowledge_match.json" /\ Steps[6] = "world"
        /\ Steps[7] = "vision" /\ Steps[8] = "vision.json" /\ Steps[9] = "context"
        /\ Steps[10] = "context.json" /\ Steps[11] = "update"
    BY DEF Steps
  <1>2. \A i \in 1..n : i \in {1, 2, 3, 4, 5, 6, 7, 8, 9, 10, 11}
    OBVIOUS
  <1> QED
    BY <1>1, <1>2 DEF Done

\* However far a tick came, as it went through its steps in order the results are
\* in order again, because nothing else of the tick stays current.
LEMMA RefreshedInOrder ==
  ASSUME results \in [Stage -> {"none", "current", "stale"}],
         NEW n \in 0..11, results' = Refreshed(Done(n))
  PROVE  results' \in [Stage -> {"none", "current", "stale"}] /\ InPipelineOrder'
  <1>1. results' \in [Stage -> {"none", "current", "stale"}]
    BY DEF Refreshed
  <1>2. \A s \in Stage : results'[s] = "current" <=> s \in Done(n)
    BY DEF Refreshed
  <1> QED
    BY <1>1, <1>2, DoneIsPrefix DEF InPipelineOrder, Stage

-----------------------------------------------------------------------------
\* The directory.
File == Screenshot \cup Record \cup {"other"}

\* enforce_capacity keeps files of the directory, at most max_images of them,
\* and the newest of them as long as it keeps any that was not expired.
LEMMA KeepIsBounded ==
  ASSUME NEW fs \in Seq(File), NEW x \in 0..Len(fs)
  PROVE  /\ Keep(fs, x) \in Seq(File)
         /\ Len(Keep(fs, x)) <= MaxImages
         /\ x < Len(fs) => Len(Keep(fs, x)) > 0 /\ Last(Keep(fs, x)) = Last(fs)
  <1> DEFINE live == SubSeq(fs, x + 1, Len(fs))
             first == IF Len(live) > MaxImages THEN Len(live) - MaxImages + 1 ELSE 1
             kept == SubSeq(live, first, Len(live))
  <1>1. /\ live \in Seq(File) /\ Len(live) = Len(fs) - x
        /\ \A i \in 1..Len(live) : live[i] = fs[x + i]
    OBVIOUS
  <1>2. first \in Nat /\ 1 <= first /\ first <= Len(live) + 1
    BY <1>1, VisionAssumption
  <1> HIDE DEF live
  <1>3. /\ kept \in Seq(File) /\ Len(kept) = Len(live) + 1 - first
        /\ \A i \in 1..Len(kept) : kept[i] = live[first + i - 1]
    <2> HIDE DEF first
    <2> QED BY <1>1, <1>2
  <1>4. Keep(fs, x) = kept
    BY DEF Keep, live
  <1>5. Len(kept) <= MaxImages
    BY <1>1, <1>3, VisionAssumption
  <1>6. ASSUME x < Len(fs)
        PROVE  Len(kept) > 0 /\ Last(kept) = Last(fs)
    <2>1. Len(live) \in Nat /\ Len(live) > 0
      BY <1>1, <1>6
    <2>2. first <= Len(live)
      BY <2>1, VisionAssumption
    <2>3. Len(kept) \in 1..Len(live) /\ kept[Len(kept)] = live[Len(live)]
      <3> HIDE DEF first
      <3> QED BY <1>2, <1>3, <2>1, <2>2
    <2>4. live[Len(live)] = fs[Len(fs)]
      BY <1>1, <2>1
    <2> HIDE DEF kept
    <2> QED BY <2>3, <2>4, <2>1 DEF Last
  <1> QED
    BY <1>3, <1>4, <1>5, <1>6

\* After a save, the frame just saved is the last file there is, whatever has
\* expired before it; without saving nothing changes.
LEMMA CaptureKeepsFrame ==
  ASSUME files \in Seq(File), NEW x \in 0..Len(files)
  PROVE  /\ CaptureFiles(x) \in Seq(File)
         /\ SaveEnabled => /\ Len(CaptureFiles(x)) <= MaxImages
                           /\ Len(CaptureFiles(x)) > 0 /\ Last(CaptureFiles(x)) = "frame"
  <1>1. /\ Append(files, "frame") \in Seq(File)
        /\ Len(Append(files, "frame")) = Len(files) + 1
        /\ Last(Append(files, "frame")) = "frame"
    BY DEF File, Screenshot, Last
  <1>2. x \in 0..Len(Append(files, "frame")) /\ x < Len(Append(files, "frame"))
    BY <1>1
  <1>3. SaveEnabled => CaptureFiles(x) = Keep(Append(files, "frame"), x)
    BY DEF CaptureFiles
  <1>4. ~SaveEnabled => CaptureFiles(x) = files
    BY DEF CaptureFiles
  <1> QED
    BY <1>1, <1>2, <1>3, <1>4, KeepIsBounded, VisionAssumption

\* One file more, or none.
LEMMA OneFile ==
  ASSUME NEW f \in File, NEW written
  PROVE  Only(f, written) \in Seq(File) /\ Len(Only(f, written)) \in 0..1
  BY DEF Only

\* A file more at the end is one file of the directory more.
LEMMA AddOne ==
  ASSUME NEW fs \in Seq(File), NEW f \in File, NEW written
  PROVE  /\ fs \o Only(f, written) \in Seq(File)
         /\ Len(fs \o Only(f, written)) <= Len(fs) + 1
         /\ f \notin written => Len(fs \o Only(f, written)) = Len(fs)
  <1> DEFINE more == Only(f, written)
  <1>1. more \in Seq(File) /\ Len(more) \in 0..1
    BY OneFile
  <1>2. f \notin written => Len(more) = 0
    BY DEF Only
  <1> HIDE DEF more
  <1>3. fs \o more \in Seq(File) /\ Len(fs \o more) = Len(fs) + Len(more)
    BY <1>1
  <1>4. Len(fs) \in Nat
    OBVIOUS
  <1>5. Len(fs \o more) <= Len(fs) + 1 /\ (f \notin written => Len(fs \o more) = Len(fs))
    <2> DEFINE before == Len(fs)
               added == Len(more)
               after == Len(fs \o more)
    <2>1. before \in Nat /\ added \in 0..1 /\ after = before + added
      BY <1>1, <1>3, <1>4
    <2>2. f \notin written => added = 0
      BY <1>2
    <2> HIDE DEF before, added, after
    <2>3. after <= before + 1 /\ (f \notin written => after = before)
      BY <2>1, <2>2
    <2> QED BY <2>3 DEF before, added, after
  <1> QED
    BY <1>3, <1>5 DEF more

\* The steps add five records at most, and an image for OCR only without saving.
LEMMA StepsAddFive ==
  ASSUME NEW fs \in Seq(File), NEW done, NEW matched
  PROVE  /\ StageFiles(fs, done \cap Due(matched)) \in Seq(File)
         /\ SaveEnabled => Len(StageFiles(fs, done \cap Due(matched))) <= Len(fs) + 5
  <1> DEFINE written == done \cap Due(matched)
             s1 == fs \o Only("capture_context.json", written)
             s2 == s1 \o Only("ocr_input", written)
             s3 == s2 \o Only("vision_coordinate.json", written)
             s4 == s3 \o Only("knowledge_match.json", written)
             s5 == s4 \o Only("vision.json", written)
             s6 == s5 \o Only("context.json", written)
  <1>1. StageFiles(fs, written) = s6
    BY DEF StageFiles
  <1>2. SaveEnabled => "ocr_input" \notin written
    BY DEF Due
  <1>3. /\ "capture_context.json" \in File /\ "ocr_input" \in File
        /\ "vision_coordinate.json" \in File /\ "knowledge_match.json" \in File
        /\ "vision.json" \in File /\ "context.json" \in File
    BY DEF File, Screenshot, Record
  <1> HIDE DEF written
  <1>4. s1 \in Seq(File) /\ Len(s1) <= Len(fs) + 1
    BY <1>3, AddOne
  <1> HIDE DEF s1
  <1>5. s2 \in Seq(File) /\ (SaveEnabled => Len(s2) = Len(s1))
    BY <1>2, <1>3, <1>4, AddOne
  <1> HIDE DEF s2
  <1>6. s3 \in Seq(File) /\ Len(s3) <= Len(s2) + 1
    BY <1>3, <1>5, AddOne
  <1> HIDE DEF s3
  <1>7. s4 \in Seq(File) /\ Len(s4) <= Len(s3) + 1
    BY <1>3, <1>6, AddOne
  <1> HIDE DEF s4
  <1>8. s5 \in Seq(File) /\ Len(s5) <= Len(s4) + 1
    BY <1>3, <1>7, AddOne
  <1> HIDE DEF s5
  <1>9. s6 \in Seq(File) /\ Len(s6) <= Len(s5) + 1
    BY <1>3, <1>8, AddOne
  <1> HIDE DEF s6
  <1>10. ASSUME SaveEnabled PROVE Len(s6) <= Len(fs) + 5
    <2>1. /\ Len(fs) \in Nat /\ Len(s1) \in Nat /\ Len(s2) \in Nat /\ Len(s3) \in Nat
          /\ Len(s4) \in Nat /\ Len(s5) \in Nat /\ Len(s6) \in Nat
      BY <1>4, <1>5, <1>6, <1>7, <1>8, <1>9
    <2>2. Len(s2) = Len(s1)
      BY <1>5, <1>10
    <2> QED
      BY <2>1, <2>2, <1>4, <1>6, <1>7, <1>8, <1>9
  <1> QED
    BY <1>1, <1>9, <1>10 DEF written

-----------------------------------------------------------------------------
\* A tick, however far it gets and whoever calls it.
Working ==
  /\ waiting' \in 0..MaxQueue
  /\ state' \in {"IDLE", "CAPTURING", "ERROR"}
  /\ results' \in [Stage -> {"none", "current", "stale"}] /\ InPipelineOrder'
  /\ files' \in Seq(File) /\ others' \in Nat /\ FilesBounded'
  /\ ocrImage' = TRUE

\* A tick whose capture fails does its work as it should,
LEMMA FailedCapture ==
  ASSUME IInv, CaptureFails
  PROVE  Working
  <1> USE DEF IInv, TypeOK
  <1>1. files \in Seq(File) /\ Len(files) \in Nat
    BY DEF File
  <1>2. waiting' \in 0..MaxQueue
    BY VisionAssumption DEF CaptureFails, AtMost
  <1>3. files' \in Seq(File) /\ others' \in Nat /\ FilesBounded'
    <2>1. CASE UNCHANGED disk
      BY <1>1, <2>1 DEF FilesBounded, disk
    <2>2. CASE files' \in Captured /\ others' = OthersLeft
      <3>1. PICK x \in 0..Len(files) : files' = CaptureFiles(x)
        BY <2>2 DEF Captured
      <3>2. files' \in Seq(File) /\ (SaveEnabled => Len(files') <= MaxImages)
        BY <1>1, <3>1, CaptureKeepsFrame
      <3>3. Len(files') \in Nat /\ others' \in Nat
        BY <2>2, <3>2 DEF OthersLeft
      <3> QED BY <3>2, <3>3, VisionAssumption DEF FilesBounded
    <2> QED BY <2>1, <2>2 DEF CaptureFails
  <1> QED
    BY <1>2, <1>3 DEF CaptureFails, Working, InPipelineOrder, ImageForOcr

\* and so does one that gets through some of its steps,
LEMMA ReachedSteps ==
  ASSUME IInv, NEW n \in 0..11, NEW matched \in BOOLEAN, TickReaches(n, matched)
  PROVE  Working
  <1> USE DEF IInv, TypeOK
  <1>1. files \in Seq(File) /\ Len(files) \in Nat
    BY DEF File
  <1>2. PICK kept \in Captured :
          /\ files' = StageFiles(kept, Done(n) \cap Due(matched))
          /\ ocrImage' = (~SaveEnabled \/ (Len(kept) > 0 /\ Last(kept) = "frame"))
    BY DEF TickReaches, Done
  <1>3. waiting' \in 0..MaxQueue
    <2>1. AtMost(waiting + 2) \in 0..MaxQueue
      BY VisionAssumption DEF AtMost
    <2>2. ~Full(3) => waiting + 3 \in 0..MaxQueue
      BY VisionAssumption DEF Full
    <2>3. ~Full(1) => waiting + 1 \in 0..MaxQueue
      BY VisionAssumption DEF Full
    <2> QED BY <2>1, <2>2, <2>3 DEF TickReaches
  <1>4. results' \in [Stage -> {"none", "current", "stale"}] /\ InPipelineOrder'
    <2>1. results' = Refreshed(Done(n))
      BY DEF TickReaches, Done
    <2> QED BY <2>1, RefreshedInOrder
  <1>5. /\ kept \in Seq(File)
        /\ SaveEnabled => Len(kept) <= MaxImages /\ Len(kept) > 0 /\ Last(kept) = "frame"
    BY <1>1, CaptureKeepsFrame DEF Captured
  <1>6. files' \in Seq(File) /\ others' \in Nat /\ FilesBounded'
    <2>1. files' \in Seq(File) /\ (SaveEnabled => Len(files') <= Len(kept) + 5)
      BY <1>2, <1>5, StepsAddFive
    <2>2. others' \in Nat
      BY DEF TickReaches, OthersLeft
    <2>3. Len(files') \in Nat /\ Len(kept) \in Nat
      BY <1>5, <2>1
    <2> QED BY <1>5, <2>1, <2>2, <2>3, VisionAssumption DEF FilesBounded
  <1>7. ocrImage' = TRUE
    BY <1>2, <1>5, VisionAssumption
  <1>8. state' \in {"IDLE", "CAPTURING", "ERROR"}
    BY DEF TickReaches
  <1> QED
    BY <1>3, <1>4, <1>6, <1>7, <1>8 DEF Working

\* and so does every tick.
LEMMA TickWorks ==
  ASSUME IInv, Succeeds \/ Fails
  PROVE  Working
  <1>1. CASE Succeeds
    BY <1>1, ReachedSteps, StepNames DEF Succeeds
  <1>2. CASE CaptureFails
    BY <1>2, FailedCapture
  <1>3. CASE \E n \in 0..(Len(Steps) - 1), matched \in BOOLEAN : FailsAfter(n, matched)
    BY <1>3, ReachedSteps, StepNames DEF FailsAfter
  <1> QED
    BY <1>1, <1>2, <1>3 DEF Fails

-----------------------------------------------------------------------------
\* No worker, no provider, no result: the invariant holds.
THEOREM VisionInit == Init => IInv
  <1> SUFFICES ASSUME Init PROVE IInv
    OBVIOUS
  <1>1. results \in [Stage -> {"none", "current", "stale"}] /\ InPipelineOrder
    <2>1. \A s \in Stage : results[s] = "none"
      BY DEF Init
    <2> QED BY <2>1 DEF Init, InPipelineOrder, Stage
  <1>2. files \in Seq(File) /\ others \in Nat /\ FilesBounded
    BY VisionAssumption DEF Init, FilesBounded
  <1>3. ocrImage /\ ImageForOcr /\ ocrImage \in BOOLEAN
    BY Zenon DEF Init, ImageForOcr
  <1>4. TypeOK
    <2>1. waiting \in 0..MaxQueue
      BY VisionAssumption DEF Init
    <2>2. cancelled \in BOOLEAN
      BY DEF Init
    <2> QED BY <1>1, <1>2, <1>3, <2>1, <2>2 DEF Init, TypeOK, File
  <1>5. Lifespan /\ ProvidersUp
    BY DEF Init, Lifespan, ProvidersUp
  <1> QED
    BY <1>1, <1>2, <1>3, <1>4, <1>5 DEF IInv

\* A tick within the lifespan, while the providers are up, keeps everything.
LEMMA TickKeeps ==
  ASSUME IInv, Working, state # "STOPPED", UNCHANGED <<app, capture, ocr, cancelled>>,
         task' \in {"none", "sleeping", "backoff"},
         cancelled => task' # "none"
  PROVE  IInv'
  BY DEF IInv, TypeOK, Working, File, Lifespan, ProvidersUp, InPipelineOrder, ImageForOcr,
         FilesBounded

\* What is left alone by the steps that touch neither files nor results.
LEMMA DirectoryKept ==
  ASSUME IInv, UNCHANGED <<results, disk>>
  PROVE  /\ results' \in [Stage -> {"none", "current", "stale"}] /\ InPipelineOrder'
         /\ files' \in Seq(Screenshot \cup Record \cup {"other"}) /\ others' \in Nat
         /\ FilesBounded'
  BY DEF IInv, TypeOK, InPipelineOrder, FilesBounded, disk

\* Every step keeps the invariant.
LEMMA VisionStep == IInv /\ [Next]_vars => IInv'
  <1> SUFFICES ASSUME IInv, [Next]_vars PROVE IInv'
    OBVIOUS
  <1>1. CASE LoopTick
    BY <1>1, TickWorks, TickKeeps DEF LoopTick, CanTick
  <1>2. CASE BackoffEnds
    BY <1>2, DirectoryKept
    DEF BackoffEnds, IInv, TypeOK, Lifespan, ProvidersUp, ImageForOcr
  <1>3. CASE TaskEnds
    BY <1>3, DirectoryKept
    DEF TaskEnds, IInv, TypeOK, Lifespan, ProvidersUp, ImageForOcr
  <1>4. CASE ManualTick
    <2>1. task' \in {"none", "sleeping", "backoff"} /\ (cancelled => task' # "none")
      BY <1>4 DEF ManualTick, IInv, TypeOK, Lifespan
    <2> QED BY <1>4, <2>1, TickWorks, TickKeeps DEF ManualTick, CanTick
  <1>5. CASE EnterLifespan
    BY <1>5, DirectoryKept
    DEF EnterLifespan, IInv, TypeOK, Lifespan, ProvidersUp, ImageForOcr
  <1>6. CASE BeginExit
    BY <1>6, DirectoryKept
    DEF BeginExit, IInv, TypeOK, Lifespan, ProvidersUp, ImageForOcr
  <1>7. CASE EndExit
    BY <1>7, DirectoryKept
    DEF EndExit, IInv, TypeOK, Lifespan, ProvidersUp, ImageForOcr
  <1>8. CASE NewProcess
    <2>1. results' \in [Stage -> {"none", "current", "stale"}] /\ InPipelineOrder'
      <3>1. \A s \in Stage : results'[s] = "none"
        BY <1>8 DEF NewProcess
      <3> QED BY <1>8, <3>1 DEF NewProcess, InPipelineOrder, Stage
    <2>2. ocrImage' /\ ImageForOcr' /\ ocrImage' \in BOOLEAN
      BY <1>8, Zenon DEF NewProcess, ImageForOcr
    <2>3. files' \in Seq(File) /\ others' \in Nat /\ FilesBounded'
      BY <1>8 DEF NewProcess, IInv, TypeOK, FilesBounded, File, disk
    <2>4. TypeOK'
      <3>1. waiting' \in 0..MaxQueue
        BY <1>8, VisionAssumption DEF NewProcess
      <3>2. cancelled' \in BOOLEAN
        BY <1>8 DEF NewProcess
      <3> QED BY <1>8, <2>1, <2>2, <2>3, <3>1, <3>2 DEF NewProcess, TypeOK, File
    <2>5. Lifespan' /\ ProvidersUp'
      BY <1>8 DEF NewProcess, Lifespan, ProvidersUp
    <2> QED
      BY <2>1, <2>2, <2>3, <2>4, <2>5 DEF IInv
  <1>9. CASE Drain
    BY <1>9, DirectoryKept, VisionAssumption
    DEF Drain, IInv, TypeOK, Lifespan, ProvidersUp, ImageForOcr
  <1>10. CASE OthersPublish
    BY <1>10, DirectoryKept, VisionAssumption
    DEF OthersPublish, IInv, TypeOK, Lifespan, ProvidersUp, ImageForOcr
  <1>11. CASE OthersWrite
    <2>1. /\ files' \in Seq(File) /\ Len(files') = Len(files) + 1 /\ Len(files) \in Nat
          /\ others \in Nat /\ others' = others + 1
      BY <1>11 DEF OthersWrite, IInv, TypeOK, File
    <2>2. FilesBounded'
      BY <2>1, VisionAssumption DEF IInv, FilesBounded
    <2> QED
      BY <1>11, <2>1, <2>2
      DEF OthersWrite, IInv, TypeOK, File, Lifespan, ProvidersUp, InPipelineOrder, ImageForOcr
  <1>12. CASE UNCHANGED vars
    BY <1>12, DirectoryKept
    DEF vars, IInv, TypeOK, Lifespan, ProvidersUp, ImageForOcr
  <1> QED
    BY <1>1, <1>2, <1>3, <1>4, <1>5, <1>6, <1>7, <1>8, <1>9, <1>10, <1>11, <1>12
    DEF Next, Loop

(* The inductive invariant of the worker and its lifespan.                  *)
THEOREM VisionInvariance == Spec => []IInv
  <1> QED BY VisionInit, VisionStep, PTL DEF Spec

(* Type correctness, the queue never above its size among it, for every     *)
(* queue size and capacity.                                                 *)
THEOREM VisionTypes == Spec => []TypeOK
  <1>1. IInv => TypeOK BY DEF IInv
  <1> QED BY <1>1, VisionInvariance, PTL

(* Whoever calls tick(), it finds its providers initialized as long as the  *)
(* worker is not stopped (webui/app.py: the order of the lifespan's end).   *)
THEOREM ProvidersAreUp == Spec => []ProvidersUp
  <1>1. IInv => ProvidersUp BY DEF IInv
  <1> QED BY <1>1, VisionInvariance, PTL

(* A failed tick never leaves a later stage's result newer than an earlier  *)
(* one's (vision/worker.py, tick).                                          *)
THEOREM ResultsInOrder == Spec => []InPipelineOrder
  <1>1. IInv => InPipelineOrder BY DEF IInv
  <1> QED BY <1>1, VisionInvariance, PTL

(* The clean-up never deletes the screenshot just saved for OCR, whatever   *)
(* has expired and however small the capacity (vision/policy.py).           *)
THEOREM OcrFindsItsImage == Spec => []ImageForOcr
  <1>1. IInv => ImageForOcr BY DEF IInv
  <1> QED BY <1>1, VisionInvariance, PTL

(* With saving on there are never more than five files above the capacity,  *)
(* beside those that others wrote since the last clean-up: through          *)
(* failures, restarts and kills, with a real window or not (vision/policy). *)
THEOREM DirectoryBounded == Spec => []FilesBounded
  <1>1. IInv => FilesBounded BY DEF IInv
  <1> QED BY <1>1, VisionInvariance, PTL
=============================================================================
