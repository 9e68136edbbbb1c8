------------------------------ MODULE LiveProofs -------------------------------
(***************************************************************************)
(* Theorems of LiveVision, for every set of desktops, profiles, facts,     *)
(* times and sights: whose picture a collected frame is, what two answers  *)
(* of the visual model have to do with each other, and what a verdict that *)
(* passed says of the samples.  The first lemmas say which window is       *)
(* found, and with it which frames the providers bring.                    *)
(***************************************************************************)
EXTENDS LiveVision, FiniteSetTheorems, WellFoundedInduction, TLAPS

-----------------------------------------------------------------------------
(* The window found.                                                       *)
LEMMA LeastHandle ==
  ASSUME NEW S \in SUBSET Nat, S # {}
  PROVE  \E h \in S : \A g \in S : h <= g
  <1> DEFINE R == OpToRel(<, Nat)
  <1>1. R = {ss \in Nat \X Nat : ss[1] < ss[2]}
    BY DEF OpToRel
  <1>2. IsWellFoundedOn(R, Nat)
    BY NatLessThanWellFounded
  <1> HIDE DEF R
  <1>3. PICK x \in S : \A y \in S : <<y, x>> \notin R
    BY <1>2, WFMin
  <1>4. \A y \in S : ~(y < x)
    BY <1>1, <1>3
  <1> QED
    BY <1>4

\* What a window can score (window/discovery.py).
LEMMA ScoresAre == ASSUME NEW w, NEW p PROVE Score(w, p) \in {300, 200, 100, 0}
  BY DEF Score

\* What discovery chooses is a window in sight that the profile matches.
LEMMA DiscoverFinds ==
  ASSUME NEW d, NEW p, DOMAIN d \subseteq Nat \ {NoWindow}
  PROVE  Discover(d, p) # NoWindow =>
           Discover(d, p) \in DOMAIN d /\ Score(d[Discover(d, p)], p) > 0
  <1> DEFINE sc(h) == Score(d[h], p)
             ranked == {h \in Listed(d) : sc(h) > 0}
             Ahead(h, g) == sc(h) > sc(g) \/ (sc(h) = sc(g) /\ h <= g)
  <1>1. \A h : sc(h) \in {300, 200, 100, 0}
    BY ScoresAre
  <1>2. ranked \subseteq Nat /\ ranked \subseteq DOMAIN d
    BY DEF Listed, NoWindow
  <1>3. Discover(d, p) = IF ranked = {} THEN NoWindow ELSE CHOOSE h \in ranked : \A g \in ranked : Ahead(h, g)
    BY DEF Discover
  <1>4. \A h \in ranked : sc(h) > 0
    OBVIOUS
  <1> HIDE DEF sc, ranked
  <1>5. SUFFICES ASSUME ranked # {} PROVE \E h \in ranked : \A g \in ranked : Ahead(h, g)
    BY <1>2, <1>3, <1>4 DEF sc
  <1>6. \E t \in {300, 200, 100} : (\E h \in ranked : sc(h) = t) /\ \A g \in ranked : sc(g) <= t
    BY <1>1, <1>4, <1>5
  <1>7. PICK t \in {300, 200, 100} : (\E h \in ranked : sc(h) = t) /\ \A g \in ranked : sc(g) <= t
    BY <1>6
  <1> DEFINE best == {h \in ranked : sc(h) = t}
  <1>8. best \in SUBSET Nat /\ best # {}
    BY <1>2, <1>7
  <1>9. PICK h \in best : \A g \in best : h <= g
    BY <1>8, LeastHandle
  <1>10. \A g \in ranked : Ahead(h, g)
    <2> TAKE g \in ranked
    <2>1. sc(g) <= t /\ sc(h) = t /\ sc(g) \in {300, 200, 100, 0}
      BY <1>1, <1>7
    <2>2. CASE sc(g) = t
      BY <1>9, <2>1, <2>2
    <2>3. CASE sc(g) # t
      BY <2>1, <2>3
    <2> QED BY <2>2, <2>3
  <1> QED
    BY <1>10

\* It is the game's, unless its title alone has found it.
LEMMA FoundIsTheGame ==
  ASSUME NEW d \in Desktops, Discover(d, GameProfile) # NoWindow
  PROVE  d[Discover(d, GameProfile)].app = Game \/ Found(d, GameProfile) = "title"
  <1> DEFINE h == Discover(d, GameProfile)
  <1>1. h \in DOMAIN d /\ Score(d[h], GameProfile) > 0
    BY DiscoverFinds, Handles
  <1> HIDE DEF h
  <1>2. CASE Score(d[h], GameProfile) \in {300, 200}
    <2>1. ProcessOf(d[h]) # NoName /\ ProcessOf(d[h]) \in GameProfile.processes
      BY <1>2 DEF Score
    <2>2. d[h].process \in GameProfile.processes
      BY <2>1 DEF ProcessOf
    <2> QED BY <1>1, <2>2, ProcessesNamed DEF h
  <1>3. CASE Score(d[h], GameProfile) = 100
    BY <1>3 DEF MethodOf, Found, h
  <1> QED
    BY <1>1, <1>2, <1>3, ScoresAre DEF h

-----------------------------------------------------------------------------
(* The frames of the two providers.                                        *)
OfTheGame(f) == f.shows = Game \/ f.method = "title"

\* A capture that failed has no good frame.
LEMMA FailedIsBad == ASSUME NEW s, NEW p, s # "OK" PROVE Failed(s, p).good = FALSE
  BY Zenon DEF Failed, FrameOf

\* The window capture provider shows the game, or a window found by its title alone.
LEMMA WgcShows ==
  ASSUME NEW d \in Desktops, NEW f \in WgcFrames(d, GameProfile), f.good
  PROVE  OfTheGame(f)
  <1>1. \A s \in {"WINDOW_NOT_FOUND", "WINDOW_INVALID", "CAPTURE_FAILED"} : f # Failed(s, "wgc")
    BY FailedIsBad
  <1>2. Discover(d, GameProfile) # NoWindow
    BY <1>1 DEF WgcFrames
  <1>3. f = FrameOf("OK", d[Discover(d, GameProfile)].app, "wgc", Found(d, GameProfile))
    BY <1>1, <1>2 DEF WgcFrames
  <1> QED
    BY <1>2, <1>3, FoundIsTheGame DEF FrameOf, OfTheGame

\* The screenshot provider does too, or shows a region of the screen.
LEMMA ScreenShows ==
  ASSUME NEW d \in Desktops, NEW f \in ScreenshotFrames(d, GameProfile), f.good
  PROVE  OfTheGame(f) \/ f.provider = "imagegrab"
  <1> DEFINE w == d[Discover(d, GameProfile)]
             m == Found(d, GameProfile)
  <1>1. HasRegion(d, GameProfile)
    <2>1. f # Failed("WINDOW_NOT_FOUND", "none")
      BY FailedIsBad
    <2> QED BY <2>1 DEF ScreenshotFrames
  <1>2. Discover(d, GameProfile) # NoWindow
    BY <1>1 DEF HasRegion
  <1>3. f \in PrintedFrames(w, m) \/ f \in GrabbedFrames(w, m)
    BY <1>1 DEF ScreenshotFrames
  <1>4. CASE f \in PrintedFrames(w, m)
    <2>1. f = FrameOf("OK", w.app, "printwindow", m)
      <3>1. f # Failed("UNAVAILABLE", "printwindow")
        BY FailedIsBad
      <3> QED BY <1>4, <3>1 DEF PrintedFrames
    <2> QED BY <1>2, <2>1, FoundIsTheGame DEF FrameOf, OfTheGame
  <1>5. CASE f \in GrabbedFrames(w, m)
    <2>1. f # Failed("CAPTURE_FAILED", "imagegrab")
      BY FailedIsBad
    <2>2. \E shown : f = FrameOf("OK", shown, "imagegrab", m)
      BY <1>5, <2>1 DEF GrabbedFrames
    <2> QED BY <2>2 DEF FrameOf
  <1> QED
    BY <1>3, <1>4, <1>5

-----------------------------------------------------------------------------
(* collect.                                                                *)
\* The second provider is asked only for a window not told to be minimized, and where
\* there is the first, only for one not told to be covered.
FallbackAllowed == step = "fallback" => told # "MINIMIZED" /\ ~(wgc /\ told = "BACKGROUND_OCCLUDED")

\* Nothing else is shown while nothing is captured.
LEMMA ShownNext == ASSUME ShownIsTheGame, UNCHANGED taken PROVE ShownIsTheGame'
  BY DEF ShownIsTheGame

\* The first provider is tried: what is taken is the game's.
LEMMA TryFirstShows == ASSUME ShownIsTheGame, TryFirst PROVE ShownIsTheGame'
  <1>1. CASE UNCHANGED taken
    BY <1>1, ShownNext
  <1>2. CASE taken' = NotSupported(told)
    BY <1>2 DEF ShownIsTheGame, NotSupported, Taken, Failed, FrameOf
  <1>3. CASE told # "MINIMIZED"
             /\ \E d \in Desktops : \E f \in WgcFrames(d, GameProfile) : taken' = FromWgc(told, f)
    <2>1. PICK d \in Desktops : \E f \in WgcFrames(d, GameProfile) : taken' = FromWgc(told, f)
      BY <1>3
    <2>2. PICK f \in WgcFrames(d, GameProfile) : taken' = FromWgc(told, f)
      BY <2>1
    <2>3. taken'.frame = f /\ taken'.told = told
      BY <2>2 DEF FromWgc, Taken
    <2>4. f.good => OfTheGame(f)
      BY WgcShows
    <2> QED BY <1>3, <2>3, <2>4 DEF ShownIsTheGame, OfTheGame
  <1> QED
    BY <1>1, <1>2, <1>3 DEF TryFirst

\* The second is tried, where falling back is allowed: what is taken is the game's or an
\* admitted region.
LEMMA TrySecondShows == ASSUME FallbackAllowed, TrySecond PROVE ShownIsTheGame'
  <1>1. PICK d \in Desktops : \E f \in ScreenshotFrames(d, GameProfile) : taken' = FromScreen(told, wgc, f)
    BY DEF TrySecond
  <1>2. PICK f \in ScreenshotFrames(d, GameProfile) : taken' = FromScreen(told, wgc, f)
    BY <1>1
  <1>3. taken'.frame = f /\ taken'.told = told
        /\ taken'.reason = IF wgc THEN "wgc-failed-imagegrab-fallback"
                           ELSE IF told = "BACKGROUND_OCCLUDED" THEN MayBeOccluded
                           ELSE "wgc-unavailable-imagegrab"
    BY <1>2 DEF FromScreen, Taken
  <1>4. told # "MINIMIZED" /\ ~(wgc /\ told = "BACKGROUND_OCCLUDED")
    BY DEF TrySecond, FallbackAllowed
  <1>5. f.good => OfTheGame(f) \/ f.provider = "imagegrab"
    BY ScreenShows
  <1> QED
    BY <1>3, <1>4, <1>5 DEF ShownIsTheGame, OfTheGame

-----------------------------------------------------------------------------
(* look: answers.                                                          *)
AnswerStatuses == {"VALID", "VLM_OUTPUT_INVALID", "UNKNOWN", "PROVIDER_UNAVAILABLE"}
AnswerRecords == [frame : Nat, status : AnswerStatuses, facts : Facts \cup {NoFacts}, at : Nat]

\* Only the frame asked about is held, and only while it is asked about.
FramesHeld == \A f \in files : f[1] = "frame" => step = "asked" /\ f = <<"frame", frame>>
\* Answers are a cooldown apart; a valid one is about a frame later than any before it.
Apart(earlier, later) ==
  /\ later.at - earlier.at >= Cooldown
  /\ later.status = "VALID" => earlier.frame < later.frame
AnswersApart == \A i, j \in DOMAIN answers : i < j => Apart(answers[i], answers[j])
AnswersPast == \A i \in DOMAIN answers : answers[i].frame <= frame /\ answers[i].at <= clock
\* What the gate remembers is the last answer.
GateKnows == gate.lastCall = IF answers = <<>> THEN Unread ELSE answers[Len(answers)].at
\* While the model is asked, a cooldown has gone by since the last answer, and if there
\* is a frame to ask about, no answer was about it.
AskedAfterCooldown ==
  step = "asked" =>
    /\ answers # <<>> => clock - answers[Len(answers)].at >= Cooldown
    /\ <<"frame", frame>> \in files => \A i \in DOMAIN answers : answers[i].frame < frame

Numbers == clock \in Nat /\ frame \in Nat /\ answers \in Seq(AnswerRecords)
AskInv == Numbers /\ FramesHeld /\ AnswersApart /\ AnswersPast /\ GateKnows /\ AskedAfterCooldown

IInv == ShownIsTheGame /\ FallbackAllowed /\ AskInv

\* Nothing is captured, asked or shown at first: the invariant holds.
THEOREM LiveInit == Init => IInv
  <1> SUFFICES ASSUME Init PROVE IInv
    OBVIOUS
  <1>1. ~taken.frame.good
    BY FailedIsBad DEF Init, NotTaken, NotSupported, Taken
  <1>2. answers = <<>> /\ files = {} /\ step \notin {"asked", "fallback"} /\ clock = 0 /\ frame = 0
    BY DEF Init, NoFrame
  <1>3. GateKnows
    BY <1>2 DEF GateKnows, Init
  <1>4. Numbers /\ FramesHeld /\ AnswersApart /\ AnswersPast /\ AskedAfterCooldown
    BY <1>2 DEF Numbers, FramesHeld, AnswersApart, AnswersPast, AskedAfterCooldown
  <1> QED
    BY <1>1, <1>2, <1>3, <1>4 DEF IInv, AskInv, ShownIsTheGame, FallbackAllowed

\* Nothing of the questions changes but the step, and that not to asking.
LEMMA AskUntouched ==
  ASSUME AskInv, UNCHANGED asking, step' # "asked", UNCHANGED step \/ step # "asked"
  PROVE  AskInv'
  <1>1. UNCHANGED <<clock, gate, files, frame, answers>>
    BY DEF asking
  <1>2. Numbers' /\ AnswersApart' /\ AnswersPast' /\ GateKnows'
    BY <1>1 DEF AskInv, Numbers, AnswersApart, AnswersPast, GateKnows
  <1>3. FramesHeld' /\ AskedAfterCooldown'
    BY <1>1 DEF AskInv, FramesHeld, AskedAfterCooldown
  <1> QED
    BY <1>2, <1>3 DEF AskInv

\* The greater of zero and a number.
LEMMA GreaterOfZero == ASSUME NEW n \in Int PROVE Max({0, n}) = IF n < 0 THEN 0 ELSE n
  BY DEF Max

\* When the visual model may be asked, the last answer is a cooldown old.
LEMMA CooledDown ==
  ASSUME AskInv, ~Cooling(gate, clock), answers # <<>>
  PROVE  clock - answers[Len(answers)].at >= Cooldown
  <1>1. Len(answers) \in DOMAIN answers /\ answers[Len(answers)] \in AnswerRecords
    BY DEF AskInv, Numbers
  <1>2. gate.lastCall = answers[Len(answers)].at /\ gate.lastCall \in Nat /\ gate.lastCall <= clock
    BY <1>1 DEF AskInv, GateKnows, AnswersPast, AnswerRecords
  <1>3. clock - gate.lastCall \in Nat
    BY <1>2 DEF AskInv, Numbers
  <1>4. Elapsed(gate, clock) = clock - gate.lastCall
    BY <1>3, GreaterOfZero DEF Elapsed
  <1>5. ~(Elapsed(gate, clock) < Cooldown)
    BY <1>2 DEF Cooling, Unread
  <1> QED
    BY <1>2, <1>3, <1>4, <1>5, Times

\* Asking keeps the invariant of the calls;
LEMMA AskKeeps == ASSUME AskInv, NEW asked, NEW local, Ask(asked, local) PROVE AskInv'
  <1>1. step = "read" /\ step' = "asked" /\ UNCHANGED <<clock, gate, answers>> /\ ~Cooling(gate, clock)
    BY DEF Ask, CallAllowed
  <1>2. \A f \in files : f[1] # "frame"
    BY <1>1 DEF AskInv, FramesHeld
  <1>3. Numbers
    BY DEF AskInv
  <1>4. \/ frame' = frame + 1 /\ files' = files \cup {<<"frame", frame'>>}
        \/ UNCHANGED <<frame, files>>
    BY DEF Ask, Put
  <1>5. Numbers' /\ frame <= frame'
    BY <1>1, <1>3, <1>4 DEF Numbers
  <1>6. FramesHeld'
    BY <1>1, <1>2, <1>4 DEF FramesHeld
  <1>7. AnswersApart' /\ GateKnows'
    BY <1>1 DEF AskInv, AnswersApart, GateKnows
  <1>8. \A i \in DOMAIN answers : answers[i] \in AnswerRecords
    BY <1>3 DEF Numbers
  <1>9. AnswersPast'
    BY <1>1, <1>3, <1>5, <1>8 DEF AskInv, AnswersPast, AnswerRecords, Numbers
  <1>10. <<"frame", frame'>> \in files' => \A i \in DOMAIN answers : answers[i].frame < frame'
    <2>1. CASE frame' = frame + 1
      BY <1>3, <1>8, <2>1 DEF AskInv, AnswersPast, AnswerRecords, Numbers
    <2>2. CASE UNCHANGED <<frame, files>>
      BY <1>2, <2>2
    <2> QED BY <1>4, <2>1, <2>2
  <1>11. AskedAfterCooldown'
    BY <1>1, <1>10, CooledDown DEF AskedAfterCooldown
  <1> QED
    BY <1>5, <1>6, <1>7, <1>9, <1>11 DEF AskInv

\* what an answer is: of the frame in hand, at its time or after a time-out;
LEMMA AnswersAre ==
  ASSUME Numbers, NEW r \in Observed(frame)
  PROVE  /\ r \in AnswerRecords /\ r.frame = frame
         /\ r.at = clock \/ r.at = clock + CliTimeout
         /\ r.status = "VALID" => <<"frame", frame>> \in files
  <1> USE DEF Response
  <1>1. CASE r \in {Unavailable(frame, clock), Unavailable(frame, clock + CliTimeout)}
    BY <1>1, Times DEF Unavailable, Numbers, AnswerRecords, AnswerStatuses
  <1>2. CASE r \in BridgeAnswers(frame) /\ <<"frame", frame>> \in files
    BY <1>2 DEF BridgeAnswers, Numbers, AnswerRecords, AnswerStatuses
  <1> QED
    BY <1>1, <1>2 DEF Observed

\* the answer keeps the invariant,
LEMMA AnswerKeeps == ASSUME AskInv, Answer PROVE AskInv'
  <1>1. PICK r \in Observed(frame) : /\ answers' = Append(answers, r) /\ gate' = Recorded(gate, r)
                                     /\ clock' = r.at /\ files' = Kept(r)
    BY DEF Answer
  <1>2. step = "asked" /\ step' = "idle" /\ UNCHANGED frame
    BY DEF Answer
  <1>3. Numbers
    BY DEF AskInv
  <1>4. r \in AnswerRecords /\ r.frame = frame /\ (r.status = "VALID" => <<"frame", frame>> \in files)
    BY <1>3, AnswersAre
  <1>5. r.at \in Nat /\ clock <= r.at
    BY <1>3, AnswersAre, Times DEF Numbers
  <1> DEFINE n == Len(answers)
  <1>6. /\ Len(answers') = n + 1 /\ DOMAIN answers' = 1..(n + 1) /\ DOMAIN answers = 1..n /\ n \in Nat
        /\ answers'[n + 1] = r /\ \A i \in 1..n : answers'[i] = answers[i] /\ answers[i] \in AnswerRecords
    BY <1>1, <1>3 DEF Numbers
  <1>7. Numbers'
    BY <1>1, <1>2, <1>3, <1>4, <1>5 DEF Numbers
  <1>8. FramesHeld'
    <2>1. \A f \in files' : f[1] = "frame" => f \in files /\ f # <<"frame", frame>>
      BY <1>1 DEF Kept, Delete
    <2> QED BY <2>1 DEF AskInv, FramesHeld
  <1>9. \A i \in 1..n : Apart(answers[i], r)
    <2> TAKE i \in 1..n
    <2>1. clock - answers[n].at >= Cooldown
      BY <1>2, <1>6 DEF AskInv, AskedAfterCooldown
    <2>2. answers[i].at \in Nat /\ answers[n].at \in Nat
      BY <1>6 DEF AnswerRecords
    <2>3. answers[i].at <= answers[n].at
      <3>1. CASE i = n
        BY <2>2, <3>1
      <3>2. CASE i < n
        <4>1. answers[n].at - answers[i].at >= Cooldown
          BY <1>6, <3>2 DEF AskInv, AnswersApart, Apart
        <4> QED BY <2>2, <4>1, Times
      <3>3. i <= n /\ i \in Nat /\ n \in Nat
        BY <1>6
      <3> QED BY <3>1, <3>2, <3>3
    <2>4. r.at - answers[i].at >= Cooldown
      BY <1>3, <1>5, <2>1, <2>2, <2>3, Times DEF Numbers
    <2>5. r.status = "VALID" => answers[i].frame < r.frame
      BY <1>2, <1>4, <1>6 DEF AskInv, AskedAfterCooldown
    <2> QED BY <2>4, <2>5 DEF Apart
  <1>10. AnswersApart'
    <2> SUFFICES ASSUME NEW i \in 1..(n + 1), NEW j \in 1..(n + 1), i < j
                 PROVE  Apart(answers'[i], answers'[j])
      BY <1>6 DEF AnswersApart, Apart
    <2>1. CASE j = n + 1
      BY <1>6, <1>9, <2>1
    <2>2. CASE j # n + 1
      BY <1>6, <2>2 DEF AskInv, AnswersApart
    <2> QED BY <2>1, <2>2
  <1>11. AnswersPast'
    <2>1. \A i \in 1..n : answers[i].frame <= frame /\ answers[i].at <= clock /\ answers[i].at \in Nat
      BY <1>6 DEF AskInv, AnswersPast, AnswerRecords
    <2>2. \A i \in 1..n : answers[i].at <= r.at
      BY <1>3, <1>5, <2>1 DEF Numbers
    <2>3. r.frame <= frame /\ r.at <= r.at
      BY <1>3, <1>4, <1>5 DEF Numbers
    <2> QED BY <1>1, <1>2, <1>6, <2>1, <2>2, <2>3 DEF AnswersPast
  <1>12. GateKnows'
    BY <1>1, <1>6 DEF GateKnows, Recorded
  <1>13. AskedAfterCooldown'
    BY <1>2 DEF AskedAfterCooldown
  <1> QED
    BY <1>7, <1>8, <1>10, <1>11, <1>12, <1>13 DEF AskInv

\* and so do an answer that cannot be read, the closing of the store, and time,
LEMMA OthersKeep ==
  ASSUME AskInv, AnswerGarbled \/ CloseStore \/ \E d \in 1..Cooldown : PassTime(d)
  PROVE  AskInv'
  <1>1. step' # "asked" /\ UNCHANGED <<gate, frame, answers>>
    BY DEF AnswerGarbled, CloseStore, PassTime
  <1>2. clock' \in Nat /\ clock <= clock' /\ Numbers
    BY Times DEF AnswerGarbled, CloseStore, PassTime, AskInv, Numbers
  <1>3. \A f \in files' : f[1] = "frame" => FALSE
    BY DEF AskInv, FramesHeld, AnswerGarbled, CloseStore, PassTime, Delete
  <1>4. Numbers' /\ AnswersApart' /\ GateKnows'
    BY <1>1, <1>2 DEF AskInv, Numbers, AnswersApart, GateKnows
  <1>5. AnswersPast'
    <2>1. \A i \in DOMAIN answers : answers[i] \in AnswerRecords
      BY <1>2 DEF Numbers
    <2>2. \A i \in DOMAIN answers : answers[i].at \in Nat
      BY <2>1 DEF AnswerRecords
    <2> QED BY <1>1, <1>2, <2>2 DEF AskInv, AnswersPast, Numbers
  <1> QED
    BY <1>1, <1>3, <1>4, <1>5 DEF AskInv, FramesHeld, AskedAfterCooldown

-----------------------------------------------------------------------------
(* The invariants.                                                         *)
\* A step of the other two programs leaves alone what is asked.
ElsewhereStep ==
  \/ TellCondition \/ TryFirst \/ TrySecond \/ StartValidation \/ TakeSample \/ Finish \/ Reevaluate
  \/ \E picture \in Pictures : LookAt(picture)
  \/ \E asked, local : Leave(asked, local)

\* and the other programs, which ask nothing.
LEMMA ElsewhereKeeps == ASSUME AskInv, ElsewhereStep PROVE AskInv'
  <1>1. UNCHANGED asking
    BY DEF ElsewhereStep, TellCondition, TryFirst, TrySecond, StartValidation, TakeSample, Finish, Reevaluate,
           LookAt, Leave
  <1>2. step' # "asked" /\ step # "asked"
    BY DEF ElsewhereStep, TellCondition, TryFirst, TrySecond, StartValidation, TakeSample, Finish, Reevaluate,
           LookAt, Leave
  <1> QED
    BY <1>1, <1>2, AskUntouched

\* Together: every step.
LEMMA AskStepKeeps == ASSUME AskInv, [Next]_vars PROVE AskInv'
  <1>1. CASE UNCHANGED vars
    BY <1>1 DEF vars, asking, AskInv, Numbers, FramesHeld, AnswersApart, AnswersPast, GateKnows, AskedAfterCooldown
  <1>2. CASE Next
    BY <1>2, ElsewhereKeeps, AskKeeps, AnswerKeeps, OthersKeep DEF Next, ElsewhereStep
  <1> QED
    BY <1>1, <1>2

\* Only the three steps of "collect" touch what is taken and what the capture is told.
LEMMA CollectStepKeeps ==
  ASSUME ShownIsTheGame, FallbackAllowed, [Next]_vars
  PROVE  ShownIsTheGame' /\ FallbackAllowed'
  <1>1. CASE TellCondition
    BY <1>1, ShownNext DEF TellCondition, FallbackAllowed
  <1>2. CASE TryFirst
    <2>1. FallbackAllowed'
      BY <1>2 DEF TryFirst, FallbackAllowed, Settles
    <2> QED BY <1>2, <2>1, TryFirstShows
  <1>3. CASE TrySecond
    BY <1>3, TrySecondShows DEF TrySecond, FallbackAllowed
  <1>4. CASE UNCHANGED vars
    BY <1>4, ShownNext DEF vars, collecting, FallbackAllowed
  <1>5. CASE UNCHANGED collecting /\ step' # "fallback"
    BY <1>5, ShownNext DEF collecting, FallbackAllowed
  <1>6. Next => TellCondition \/ TryFirst \/ TrySecond \/ (UNCHANGED collecting /\ step' # "fallback")
    BY DEF Next, StartValidation, TakeSample, Finish, Reevaluate, LookAt, Leave, Ask, Answer, AnswerGarbled,
           CloseStore, PassTime
  <1> QED
    BY <1>1, <1>2, <1>3, <1>4, <1>5, <1>6

\* The inductive invariant: the second provider is asked only where its picture may be
\* used; answers, frames and the gate keep pace (capture_manager.py, antigravity.py,
\* visual_semantics.py).
THEOREM LiveInvariance == Spec => []IInv
  <1>1. Init => IInv
    BY LiveInit
  <1>2. IInv /\ [Next]_vars => IInv'
    BY AskStepKeeps, CollectStepKeeps DEF IInv
  <1> QED
    BY <1>1, <1>2, PTL DEF Spec

\* For every desktop between two looks at it: what is collected as the game's frame is
\* the game's, found by its title alone, or an admitted region of the screen
\* (capture_manager.py, window/discovery.py).
THEOREM CollectedIsTheGame == Spec => []ShownIsTheGame
  <1>1. IInv => ShownIsTheGame
    BY DEF IInv
  <1> QED
    BY <1>1, LiveInvariance, PTL

\* Among two or more numbers there are a smaller and a greater one.
LEMMA TwoOf ==
  ASSUME NEW n \in Nat, NEW S \in SUBSET (1..n), ~(Cardinality(S) < 2)
  PROVE  \E i, j \in S : i < j
  <1>1. IsFiniteSet(1..n)
    BY FS_Interval
  <1>2. IsFiniteSet(S)
    BY <1>1, FS_Subset
  <1>3. S # {}
    BY FS_EmptySet
  <1>4. PICK i \in S : TRUE
    BY <1>3
  <1>5. S # {i}
    <2>1. Cardinality({i}) = 1
      BY FS_Singleton
    <2> QED BY <2>1
  <1>6. PICK j \in S : j # i
    BY <1>4, <1>5
  <1> QED
    BY <1>4, <1>6

\* Whatever is said, deleted, killed or sent again: two answers that agree are about
\* two frames, a cooldown apart, and outside a call no image is held (antigravity.py,
\* visual_semantics.py).
THEOREM TwoMomentsConfirm == Spec => []ConfirmedByTwoMoments
  <1>1. IInv => ConfirmedByTwoMoments
    <2> SUFFICES ASSUME AskInv PROVE ConfirmedByTwoMoments
      BY DEF IInv
    <2>1. step # "asked" => \A f \in files : f[1] # "frame"
      BY DEF AskInv, FramesHeld
    <2> DEFINE valid == ValidOnes(answers)
               n == Len(answers)
    <2>2. n \in Nat /\ valid \in SUBSET (1..n) /\ \A i \in valid : answers[i] \in AnswerRecords
      BY DEF AskInv, Numbers, ValidOnes
    <2>3. ASSUME Agreement(answers) # "INSUFFICIENT_DATA"
          PROVE  \E i, j \in valid :
                   answers[i].frame # answers[j].frame /\ answers[i].at - answers[j].at >= Cooldown
      <3>1. ~(Cardinality(valid) < 2)
        BY <2>3 DEF Agreement
      <3>2. \E i, j \in valid : i < j
        BY <2>2, <3>1, TwoOf
      <3>3. PICK i \in valid, j \in valid : i < j
        BY <3>2
      <3>4. Apart(answers[i], answers[j]) /\ answers[j].status = "VALID"
        BY <3>3 DEF AskInv, AnswersApart, ValidOnes
      <3>5. answers[i].frame # answers[j].frame
        BY <2>2, <3>4 DEF Apart, AnswerRecords
      <3> QED BY <3>4, <3>5 DEF Apart
    <2> QED BY <2>1, <2>3 DEF ConfirmedByTwoMoments
  <1> QED
    BY <1>1, LiveInvariance, PTL

-----------------------------------------------------------------------------
(* The samples.  How many there are of a set of sights is the sum of a     *)
(* function, which the library adds up in an order of its own choosing.     *)
\* A set of numbers with zero and every successor holds them all.
LEMMA SetInduction ==
  ASSUME NEW T \in SUBSET Nat, 0 \in T, \A n \in T : n + 1 \in T
  PROVE  T = Nat
  <1> DEFINE R == OpToRel(<, Nat)
  <1>1. R = {ss \in Nat \X Nat : ss[1] < ss[2]}
    BY DEF OpToRel
  <1>2. IsWellFoundedOn(R, Nat)
    BY NatLessThanWellFounded
  <1> HIDE DEF R
  <1> SUFFICES ASSUME Nat \ T # {} PROVE FALSE
    OBVIOUS
  <1>3. PICK x \in Nat \ T : \A y \in Nat \ T : <<y, x>> \notin R
    BY <1>2, WFMin
  <1>4. x # 0 /\ x - 1 \in Nat /\ x - 1 < x
    OBVIOUS
  <1>5. x - 1 \in T
    <2>1. <<x - 1, x>> \in R
      BY <1>1, <1>4
    <2> QED BY <1>3, <1>4, <2>1
  <1> QED
    BY <1>4, <1>5

\* The member that is added next.
Chosen(s) == CHOOSE x \in s : TRUE
\* What the library's fold computes of the subsets of a set.
Summing(f, S, g) ==
  g = [s \in SUBSET S |-> IF s = {} THEN 0 ELSE f[Chosen(s)] + g[s \ {Chosen(s)}]]
\* The subsets of at most n members.
UpTo(S, n) == {s \in SUBSET S : IsFiniteSet(s) /\ Cardinality(s) <= n}

\* Nothing but the empty set has no member.
LEMMA UpToNone == ASSUME NEW S, NEW s \in UpTo(S, 0) PROVE s = {}
  <1>1. IsFiniteSet(s) /\ Cardinality(s) \in Nat /\ Cardinality(s) <= 0
    BY FS_CardinalityType DEF UpTo
  <1> QED
    BY <1>1, FS_EmptySet

\* Without one of its members a subset has one fewer.
LEMMA OneFewer ==
  ASSUME NEW S, NEW n \in Nat, NEW s \in UpTo(S, n + 1), NEW c \in s
  PROVE  s \ {c} \in UpTo(S, n)
  <1>1. IsFiniteSet(s) /\ Cardinality(s) \in Nat /\ Cardinality(s) <= n + 1
    BY FS_CardinalityType DEF UpTo
  <1>2. IsFiniteSet(s \ {c}) /\ Cardinality(s \ {c}) = Cardinality(s) - 1
    BY <1>1, FS_RemoveElement
  <1> QED
    BY <1>1, <1>2 DEF UpTo

\* A property of the empty subset that passes to a subset from it without its chosen
\* member is one of every subset: T has the sizes up to which it holds, P who has it.
LEMMA SubsetInduction ==
  ASSUME NEW S, IsFiniteSet(S), NEW P, {} \in P,
         \A s \in SUBSET S : s # {} /\ s \ {Chosen(s)} \in P => s \in P
  PROVE  \A s \in SUBSET S : s \in P
  <1> DEFINE T == {n \in Nat : UpTo(S, n) \subseteq P}
  <1>1. 0 \in T
    BY UpToNone
  <1>2. ASSUME NEW n \in T PROVE n + 1 \in T
    <2> SUFFICES ASSUME NEW s \in UpTo(S, n + 1) PROVE s \in P
      OBVIOUS
    <2>1. s \in SUBSET S
      BY DEF UpTo
    <2>2. CASE s = {}
      BY <2>2
    <2>3. CASE s # {}
      <3>1. Chosen(s) \in s
        BY <2>3 DEF Chosen
      <3>2. s \ {Chosen(s)} \in UpTo(S, n)
        BY <3>1, OneFewer
      <3> QED BY <2>1, <2>3, <3>2
    <2> QED BY <2>2, <2>3
  <1>3. T = Nat
    <2>1. T \in SUBSET Nat
      OBVIOUS
    <2> HIDE DEF T
    <2> QED BY <1>1, <1>2, <2>1, SetInduction
  <1>4. Cardinality(S) \in Nat
    BY FS_CardinalityType
  <1>5. \A s \in SUBSET S : s \in UpTo(S, Cardinality(S))
    BY FS_Subset DEF UpTo
  <1> QED
    BY <1>3, <1>4, <1>5

\* There is such a function: it is built up by the number of members.
LEMMA SumsExist ==
  ASSUME NEW S, IsFiniteSet(S), NEW f
  PROVE  \E g : Summing(f, S, g)
  <1> DEFINE body(g, s) == IF s = {} THEN 0 ELSE f[Chosen(s)] + g[s \ {Chosen(s)}]
             T == {n \in Nat : \E g : g = [s \in UpTo(S, n) |-> body(g, s)]}
  <1>1. 0 \in T
    <2> DEFINE z == [s \in UpTo(S, 0) |-> 0]
    <2>1. z = [s \in UpTo(S, 0) |-> body(z, s)]
      BY UpToNone
    <2> HIDE DEF z, body
    <2> QED BY <2>1
  <1>2. ASSUME NEW n \in T PROVE n + 1 \in T
    <2>1. PICK g : g = [s \in UpTo(S, n) |-> body(g, s)]
      OBVIOUS
    <2> DEFINE h == [s \in UpTo(S, n + 1) |-> body(g, s)]
    <2>2. ASSUME NEW s \in UpTo(S, n + 1) PROVE body(g, s) = body(h, s)
      <3>1. CASE s = {}
        BY <3>1
      <3>2. CASE s # {}
        <4> DEFINE r == s \ {Chosen(s)}
        <4>1. r \in UpTo(S, n)
          <5>1. Chosen(s) \in s
            BY <3>2 DEF Chosen
          <5> QED BY <5>1, OneFewer
        <4>2. r \in UpTo(S, n + 1)
          <5>1. n \in Nat
            OBVIOUS
          <5>2. IsFiniteSet(r) /\ Cardinality(r) <= n /\ r \in SUBSET S
            BY <4>1 DEF UpTo
          <5>3. Cardinality(r) \in Nat
            BY <5>2, FS_CardinalityType
          <5> HIDE DEF T, h, body, r
          <5> QED BY <5>1, <5>2, <5>3 DEF UpTo
        <4> HIDE DEF r, body
        <4>3. g[r] = body(g, r)
          BY <2>1, <4>1
        <4>4. h[r] = body(g, r)
          BY <4>2
        <4> HIDE DEF h
        <4> QED BY <3>2, <4>3, <4>4 DEF body, r
      <3> QED BY <3>1, <3>2
    <2>3. h = [s \in UpTo(S, n + 1) |-> body(h, s)]
      <3> HIDE DEF body
      <3> QED BY <2>2
    <2> HIDE DEF h, body
    <2>4. \E k : k = [s \in UpTo(S, n + 1) |-> body(k, s)]
      BY <2>3
    <2>5. n + 1 \in Nat
      OBVIOUS
    <2> QED BY <2>4, <2>5, Zenon
  <1>3. T = Nat
    <2>1. T \in SUBSET Nat
      OBVIOUS
    <2> HIDE DEF T
    <2> QED BY <1>1, <1>2, <2>1, SetInduction
  <1>4. Cardinality(S) \in Nat
    BY FS_CardinalityType
  <1>5. UpTo(S, Cardinality(S)) = SUBSET S
    BY FS_Subset DEF UpTo
  <1>6. \E g : g = [s \in UpTo(S, Cardinality(S)) |-> body(g, s)]
    BY <1>3, <1>4
  <1> QED
    BY <1>5, <1>6 DEF Summing

\* Two of them agree on the subsets they share.
LEMMA SumsAgree ==
  ASSUME NEW S, IsFiniteSet(S), NEW A \in SUBSET S, NEW f,
         NEW g, Summing(f, S, g), NEW h, Summing(f, A, h)
  PROVE  h[A] = g[A]
  <1> DEFINE P == {s \in SUBSET A : h[s] = g[s]}
  <1>1. {} \in P
    BY DEF Summing
  <1>2. ASSUME NEW s \in SUBSET A, s # {}, s \ {Chosen(s)} \in P PROVE s \in P
    <2>1. h[s] = f[Chosen(s)] + h[s \ {Chosen(s)}]
      BY <1>2 DEF Summing
    <2>2. g[s] = f[Chosen(s)] + g[s \ {Chosen(s)}]
      BY <1>2 DEF Summing
    <2> QED BY <1>2, <2>1, <2>2
  <1>3. IsFiniteSet(A)
    BY FS_Subset
  <1> HIDE DEF P
  <1>4. \A s \in SUBSET A : s \in P
    BY <1>1, <1>2, <1>3, SubsetInduction
  <1> QED
    BY <1>4 DEF P

\* So the count of a set is read off any of them.
LEMMA CountIs ==
  ASSUME NEW S, IsFiniteSet(S), NEW A \in SUBSET S, NEW f, NEW g, Summing(f, S, g)
  PROVE  Count(f, A) = g[A]
  <1> DEFINE h == CHOOSE h : Summing(f, A, h)
  <1>1. IsFiniteSet(A)
    BY FS_Subset
  <1>2. Summing(f, A, h)
    BY <1>1, SumsExist
  <1>3. Count(f, A) = h[A]
    BY DEF Count, SumFunctionOnSet, FoldFunctionOnSet, MapThenFoldSet, Summing, Chosen
  <1> HIDE DEF h
  <1> QED
    BY <1>2, <1>3, SumsAgree

\* What the chosen member adds to a count.
LEMMA CountOfChosen ==
  ASSUME NEW S, IsFiniteSet(S), NEW f
  PROVE  /\ Count(f, {}) = 0
         /\ \A A \in SUBSET S : A # {} => Count(f, A) = f[Chosen(A)] + Count(f, A \ {Chosen(A)})
  <1>1. PICK g : Summing(f, S, g)
    BY SumsExist
  <1>2. \A A \in SUBSET S : Count(f, A) = g[A]
    BY <1>1, CountIs
  <1>3. g[{}] = 0 /\ \A A \in SUBSET S : A # {} => g[A] = f[Chosen(A)] + g[A \ {Chosen(A)}]
    BY <1>1 DEF Summing
  <1> QED
    BY <1>2, <1>3

\* The number of samples of a set of sights is a number.
LEMMA CountIsNat ==
  ASSUME NEW S, IsFiniteSet(S), NEW f \in [S -> Nat], NEW A \in SUBSET S
  PROVE  Count(f, A) \in Nat
  <1> DEFINE P == {s \in SUBSET S : Count(f, s) \in Nat}
  <1>1. {} \in P
    BY CountOfChosen
  <1>2. ASSUME NEW s \in SUBSET S, s # {}, s \ {Chosen(s)} \in P PROVE s \in P
    <2>1. Count(f, s) = f[Chosen(s)] + Count(f, s \ {Chosen(s)})
      BY <1>2, CountOfChosen
    <2>2. Chosen(s) \in S
      BY <1>2 DEF Chosen
    <2> QED BY <1>2, <2>1, <2>2
  <1> HIDE DEF P
  <1>3. A \in P
    BY <1>1, <1>2, SubsetInduction
  <1> QED
    BY <1>3 DEF P

\* Whichever member is taken out of a set, the count falls by its own.
LEMMA CountWithout ==
  ASSUME NEW S, IsFiniteSet(S), NEW f \in [S -> Nat], NEW A \in SUBSET S, NEW c \in A
  PROVE  Count(f, A) = f[c] + Count(f, A \ {c})
  <1> DEFINE T == {n \in Nat : \A s \in UpTo(S, n) : \A x \in s : Count(f, s) = f[x] + Count(f, s \ {x})}
  <1>1. 0 \in T
    BY UpToNone
  <1>2. ASSUME NEW n \in T PROVE n + 1 \in T
    <2> SUFFICES ASSUME NEW s \in UpTo(S, n + 1), NEW x \in s
                 PROVE  Count(f, s) = f[x] + Count(f, s \ {x})
      OBVIOUS
    <2> DEFINE k == Chosen(s)
    <2>1. k \in s /\ s \in SUBSET S
      BY DEF Chosen, UpTo
    <2>2. Count(f, s) = f[k] + Count(f, s \ {k})
      BY <2>1, CountOfChosen
    <2>3. CASE x = k
      BY <2>2, <2>3
    <2>4. CASE x # k
      <3>1. Count(f, s \ {k}) = f[x] + Count(f, (s \ {k}) \ {x})
        <4>1. s \ {k} \in UpTo(S, n)
          BY <2>1, OneFewer
        <4> QED BY <2>4, <4>1
      <3>2. Count(f, s \ {x}) = f[k] + Count(f, (s \ {x}) \ {k})
        <4>1. s \ {x} \in UpTo(S, n)
          BY <2>1, OneFewer
        <4> QED BY <2>1, <2>4, <4>1
      <3>3. (s \ {k}) \ {x} = (s \ {x}) \ {k}
        OBVIOUS
      <3>4. f[x] \in Nat /\ f[k] \in Nat /\ Count(f, (s \ {k}) \ {x}) \in Nat
        BY <2>1, CountIsNat
      <3> DEFINE rest == Count(f, (s \ {k}) \ {x})
      <3>5. Count(f, s) = f[k] + (f[x] + rest) /\ f[x] + Count(f, s \ {x}) = f[x] + (f[k] + rest)
        BY <2>2, <3>1, <3>2, <3>3
      <3>6. rest \in Nat
        BY <3>4
      <3> HIDE DEF rest, T
      <3>7. f[k] + (f[x] + rest) = f[x] + (f[k] + rest)
        BY <3>4, <3>6
      <3> QED BY <3>5, <3>7
    <2> QED BY <2>3, <2>4
  <1>3. T = Nat
    <2>1. T \in SUBSET Nat
      OBVIOUS
    <2> HIDE DEF T
    <2> QED BY <1>1, <1>2, <2>1, SetInduction
  <1>4. IsFiniteSet(A) /\ Cardinality(A) \in Nat
    BY FS_Subset, FS_CardinalityType
  <1>5. A \in UpTo(S, Cardinality(A))
    BY <1>4 DEF UpTo
  <1> QED
    BY <1>3, <1>4, <1>5

\* Sets that share nothing are counted one after the other.
LEMMA CountOfBoth ==
  ASSUME NEW S, IsFiniteSet(S), NEW f \in [S -> Nat],
         NEW A \in SUBSET S, NEW B \in SUBSET S, A \cap B = {}
  PROVE  Count(f, A \cup B) = Count(f, A) + Count(f, B)
  <1> DEFINE P == {s \in SUBSET A : Count(f, s \cup B) = Count(f, s) + Count(f, B)}
  <1>1. {} \in P
    <2>1. Count(f, {}) = 0 /\ Count(f, B) \in Nat /\ {} \cup B = B
      BY CountOfChosen, CountIsNat
    <2> QED BY <2>1
  <1>2. ASSUME NEW s \in SUBSET A, s # {}, s \ {Chosen(s)} \in P PROVE s \in P
    <2> DEFINE k == Chosen(s)
    <2>1. k \in s
      BY <1>2 DEF Chosen
    <2>2. Count(f, s) = f[k] + Count(f, s \ {k})
      BY <1>2, CountOfChosen
    <2>3. Count(f, s \cup B) = f[k] + Count(f, (s \cup B) \ {k})
      BY <1>2, <2>1, CountWithout
    <2>4. (s \cup B) \ {k} = (s \ {k}) \cup B
      BY <2>1
    <2>5. Count(f, (s \ {k}) \cup B) = Count(f, s \ {k}) + Count(f, B)
      BY <1>2
    <2>6. f[k] \in Nat /\ Count(f, s \ {k}) \in Nat /\ Count(f, B) \in Nat
      BY <2>1, CountIsNat
    <2> HIDE DEF k, P
    <2>7. Count(f, s \cup B) = f[k] + Count(f, (s \ {k}) \cup B)
      BY <2>3, <2>4
    <2>8. Count(f, s \cup B) = Count(f, s) + Count(f, B)
      BY <2>2, <2>5, <2>6, <2>7
    <2> QED BY <2>8 DEF P
  <1>3. IsFiniteSet(A)
    BY FS_Subset
  <1> HIDE DEF P
  <1>4. A \in P
    BY <1>1, <1>2, <1>3, SubsetInduction
  <1> QED
    BY <1>4 DEF P

\* What has no sample counts for nothing.
LEMMA CountOfNone ==
  ASSUME NEW S, IsFiniteSet(S), NEW f \in [S -> Nat], NEW A \in SUBSET S, \A s \in A : ~(f[s] > 0)
  PROVE  Count(f, A) = 0
  <1> DEFINE P == {s \in SUBSET A : Count(f, s) = 0}
  <1>1. {} \in P
    BY CountOfChosen
  <1>2. ASSUME NEW s \in SUBSET A, s # {}, s \ {Chosen(s)} \in P PROVE s \in P
    <2>1. Count(f, s) = f[Chosen(s)] + Count(f, s \ {Chosen(s)})
      BY <1>2, CountOfChosen
    <2>2. Chosen(s) \in s
      BY <1>2 DEF Chosen
    <2>3. f[Chosen(s)] \in Nat /\ ~(f[Chosen(s)] > 0)
      BY <2>2
    <2> QED BY <1>2, <2>1, <2>3
  <1>3. IsFiniteSet(A)
    BY FS_Subset
  <1> HIDE DEF P
  <1>4. A \in P
    BY <1>1, <1>2, <1>3, SubsetInduction
  <1> QED
    BY <1>4 DEF P

\* The sights of a set that have a sample.
Known(f, A) == {s \in A : f[s] > 0}

\* They are what counts of it.
LEMMA KnownCount ==
  ASSUME NEW f \in [Sights -> Nat], NEW A \in SUBSET Sights
  PROVE  Count(f, Known(f, A)) = Count(f, A) /\ Count(f, A) \in Nat
  <1> DEFINE K == Known(f, A)
             R == A \ K
  <1>1. K \in SUBSET Sights /\ R \in SUBSET Sights /\ K \cap R = {} /\ K \cup R = A
    BY DEF Known
  <1>2. \A s \in R : ~(f[s] > 0)
    BY DEF Known
  <1> HIDE DEF R
  <1>3. Count(f, R) = 0
    BY <1>1, <1>2, SightsAreFew, CountOfNone
  <1> HIDE DEF K
  <1>4. Count(f, K) \in Nat /\ Count(f, A) \in Nat
    BY <1>1, SightsAreFew, CountIsNat
  <1>5. Count(f, A) = Count(f, K) + Count(f, R)
    BY <1>1, SightsAreFew, CountOfBoth
  <1> QED
    BY <1>3, <1>4, <1>5 DEF K

\* What is counted of a part and of the rest is the whole.
LEMMA PartsCount ==
  ASSUME NEW f \in [Sights -> Nat], NEW A \in SUBSET Sights, NEW B \in SUBSET A
  PROVE  Count(f, A) = Count(f, B) + Count(f, A \ B) /\ Count(f, A \ B) \in Nat
  <1> DEFINE R == A \ B
  <1>1. B \in SUBSET Sights /\ R \in SUBSET Sights /\ B \cap R = {} /\ B \cup R = A
    OBVIOUS
  <1> HIDE DEF R
  <1>2. Count(f, R) \in Nat
    BY <1>1, SightsAreFew, CountIsNat
  <1>3. Count(f, A) = Count(f, B) + Count(f, R)
    BY <1>1, SightsAreFew, CountOfBoth
  <1> QED
    BY <1>2, <1>3 DEF R

-----------------------------------------------------------------------------
(* The rates.                                                              *)
\* A rounded share that reaches a limit: the part is the whole but for the rest of the
\* limit and half a step of the rounding.
LEMMA RateReaches ==
  ASSUME NEW part \in Nat, NEW whole \in Nat, NEW limit \in Nat \ {0}, Rate(part, whole) >= limit
  PROVE  whole > 0 /\ 20000 * part >= (2 * limit - 1) * whole
  <1>1. whole # 0
    BY DEF Rate, Unread
  <1> DEFINE h == whole \div 2
             n == 10000 * part + h
             q == n \div whole
  <1>2. h \in Nat /\ 2 * h <= whole
    OBVIOUS
  <1>3. q >= limit
    BY <1>1 DEF Rate
  <1> HIDE DEF h
  <1>4. n \in Nat
    BY <1>2
  <1> HIDE DEF n
  <1>5. q \in Int /\ whole * q <= n
    BY <1>1, <1>4
  <1> HIDE DEF q
  <1>6. whole * limit <= whole * q
    BY <1>1, <1>3, <1>5
  <1>7. whole * limit <= 10000 * part + h
    BY <1>4, <1>5, <1>6 DEF n
  <1>8. (2 * limit - 1) * whole = 2 * (whole * limit) - whole /\ whole * limit \in Nat
    OBVIOUS
  <1> QED
    BY <1>1, <1>2, <1>7, <1>8

\* The captures that failed.
NotCaptured == {s \in Sights : ~s.ok}
\* The rate of the others, at the end of a session.
CapturedRate(bag) ==
  Rate(Count(bag, {s \in Known(bag, Sights) : s.ok}), Max({1, Count(bag, Known(bag, Sights))}))

\* The captures of a session: those that failed are few.
LEMMA CaptureReaches ==
  ASSUME NEW bag \in [Sights -> Nat], CapturedRate(bag) >= 9800
  PROVE  20000 * Count(bag, NotCaptured) <= 401 * Count(bag, Sights)
  <1> DEFINE O == {s \in Sights : s.ok}
             G == {s \in Known(bag, Sights) : s.ok}
             all == Count(bag, Sights)
             good == Count(bag, O)
             bad == Count(bag, NotCaptured)
  <1>1. Rate(Count(bag, G), Max({1, Count(bag, Known(bag, Sights))})) >= 9800
    BY DEF CapturedRate
  <1>2. Sights \in SUBSET Sights /\ O \in SUBSET Sights /\ NotCaptured = Sights \ O
    BY DEF NotCaptured
  <1>3. G = Known(bag, O)
    BY DEF Known
  <1> HIDE DEF O, G
  <1>4. Count(bag, Known(bag, Sights)) = all /\ all \in Nat
    BY <1>2, KnownCount
  <1>5. Count(bag, Known(bag, O)) = good /\ good \in Nat
    BY <1>2, KnownCount
  <1>6. all = good + bad /\ bad \in Nat
    BY <1>2, PartsCount
  <1>7. Rate(good, Max({1, all})) >= 9800
    BY <1>1, <1>3, <1>4, <1>5
  <1> HIDE DEF all, good, bad
  <1>8. Max({1, all}) = IF all >= 1 THEN all ELSE 1
    BY <1>4 DEF Max
  <1>9. 20000 * bad <= 401 * all
    <2>1. CASE all >= 1
      <3>1. Rate(good, all) >= 9800
        BY <1>7, <1>8, <2>1
      <3>2. 20000 * good >= (2 * 9800 - 1) * all
        BY <1>4, <1>5, <3>1, RateReaches
      <3> QED BY <1>4, <1>5, <1>6, <3>2
    <2>2. CASE ~(all >= 1)
      <3>1. Rate(good, 1) >= 9800
        BY <1>7, <1>8, <2>2
      <3>2. 20000 * good >= (2 * 9800 - 1) * 1
        BY <1>5, <3>1, RateReaches
      <3> QED BY <1>4, <1>5, <1>6, <2>2, <3>2
    <2> QED BY <2>1, <2>2
  <1> QED
    BY <1>9 DEF all, bad

\* Those of a set that are not read as what it shows.
Misread(L, truth, predicted) == {s \in L : predicted[s].label \notin NamesOf(truth)}

\* The labels: those that were read as something else are few.
LEMMA LabelReaches ==
  ASSUME NEW bag \in [Sights -> Nat], NEW L \in SUBSET Sights, NEW truth, NEW predicted,
         LabelRate(bag, Known(bag, L), truth, predicted) >= 9500
  PROVE  20000 * Count(bag, Misread(L, truth, predicted)) <= 1001 * Count(bag, L)
  <1> DEFINE named == {s \in Known(bag, L) : truth.label # NoText}
             right == {s \in named : predicted[s].label \in NamesOf(truth)}
             R == L \ Misread(L, truth, predicted)
             M == Misread(L, truth, predicted)
  <1>1. Rate(Count(bag, right), Count(bag, named)) >= 9500
    BY DEF LabelRate
  <1>2. truth.label # NoText
    <2> SUFFICES ASSUME truth.label = NoText PROVE FALSE
      OBVIOUS
    <2>1. named = {} /\ right = {}
      OBVIOUS
    <2> HIDE DEF named, right
    <2>2. Count(bag, {}) = 0
      BY SightsAreFew, CountOfChosen
    <2>3. Rate(0, 0) >= 9500
      BY <1>1, <2>1, <2>2
    <2> QED BY <2>3 DEF Rate, Unread
  <1>3. named = Known(bag, L) /\ right = Known(bag, R)
    BY <1>2 DEF Known, Misread
  <1>4. R \in SUBSET Sights /\ R \in SUBSET L /\ M = L \ R
    BY DEF Misread
  <1> HIDE DEF named, right, R, M
  <1> DEFINE r == Count(bag, R)
             w == Count(bag, L)
             m == Count(bag, M)
  <1>5. Count(bag, named) = w /\ w \in Nat
    BY <1>3, KnownCount
  <1>6. Count(bag, right) = r /\ r \in Nat
    BY <1>3, <1>4, KnownCount
  <1>7. w = r + m /\ m \in Nat
    BY <1>4, PartsCount
  <1>8. Rate(r, w) >= 9500
    BY <1>1, <1>5, <1>6
  <1> HIDE DEF r, w, m
  <1>9. 20000 * r >= (2 * 9500 - 1) * w
    BY <1>5, <1>6, <1>8, RateReaches
  <1>10. 20000 * m <= 1001 * w
    BY <1>5, <1>6, <1>7, <1>9
  <1> QED
    BY <1>10 DEF m, w, M

\* The quests: some were read.
LEMMA QuestReaches ==
  ASSUME NEW bag, NEW L \in SUBSET Sights, NEW truth, NEW predicted,
         QuestRate(bag, L, truth, predicted) >= 9000
  PROVE  \E s \in Sights : predicted[s].quest # NoText
  <1> SUFFICES ASSUME \A s \in Sights : predicted[s].quest = NoText PROVE FALSE
    OBVIOUS
  <1> DEFINE quests == {s \in L : truth.quest # NoText /\ predicted[s].quest # NoText}
             right == {s \in quests : predicted[s].quest = truth.quest}
  <1>1. Rate(Count(bag, right), Count(bag, quests)) >= 9000
    BY DEF QuestRate
  <1>2. quests = {} /\ right = {}
    OBVIOUS
  <1> HIDE DEF quests, right
  <1>3. Count(bag, {}) = 0
    BY SightsAreFew, CountOfChosen
  <1>4. Rate(0, 0) >= 9000
    BY <1>1, <1>2, <1>3
  <1> QED
    BY <1>4 DEF Rate, Unread

-----------------------------------------------------------------------------
(* validate.                                                               *)
\* There is a verdict only when the session is done, and what it says of the samples.
Earned ==
  /\ samples \in [Sights -> Nat]
  /\ readiness.status = "PASSED" => program = "validate" /\ step = "done"
  /\ ReadyIsEarned

\* The backend reads the labels and the quests, whatever the layout.
LEMMA LabelPredicted ==
  ASSUME NEW s, NEW b
  PROVE  /\ Predict(s, b).label = IF s.ok /\ b = "tesseract" THEN s.label ELSE NoText
         /\ b # "tesseract" => Predict(s, b).quest = NoText
  BY DEF Predict, Prediction, NoPrediction

\* So what was read as what remains while the backend does.
LEMMA SamePrediction ==
  ASSUME ocr' = ocr, NEW s
  PROVE  Predict(s, ocr)'.label = Predict(s, ocr).label
  <1>1. Predict(s, ocr)'.label = IF s.ok /\ ocr' = "tesseract" THEN s.label ELSE NoText
    BY DEF Predict, Prediction, NoPrediction
  <1> QED
    BY <1>1, LabelPredicted

\* A verdict that passed was reached.
LEMMA PassedReaches ==
  ASSUME NEW m, NEW truth, NEW fresh, Ready(m, truth, fresh).status = "PASSED"
  PROVE  Passes(m)
  BY DEF Ready, Verdict

\* What a verdict at the end of the session says.
LEMMA FinishEarns ==
  ASSUME Earned, Finish
  PROVE  Earned'
  <1>1. program = "validate" /\ step' = "done" /\ samples' = samples /\ ocr' = ocr /\ program' = program
    BY DEF Finish
  <1>2. samples \in [Sights -> Nat]
    BY DEF Earned
  <1> DEFINE predicted == [s \in Sights |-> Predict(s, ocr)]
  <1>3. PICK truth \in Truths :
          readiness' = Ready(Evaluate(samples, truth, predicted, TRUE), truth, TRUE)
    BY DEF Finish
  <1> SUFFICES ASSUME readiness'.status = "PASSED" PROVE ReadyIsEarned'
    BY <1>1, <1>2 DEF Earned, ReadyIsEarned
  <1> DEFINE m == Evaluate(samples, truth, predicted, TRUE)
             L == {s \in Sights : s.shows \in truth.of}
             labelled == {s \in Known(samples, Sights) : s.shows \in truth.of}
  <1>4. Passes(m)
    BY <1>3, PassedReaches
  <1>5. readiness'.fresh = TRUE /\ readiness'.of = truth.of /\ readiness'.names = NamesOf(truth)
    BY <1>3 DEF Ready
  <1>6. /\ m.count = Count(samples, Known(samples, Sights))
        /\ m.capture = CapturedRate(samples)
        /\ m.label = LabelRate(samples, labelled, truth, predicted)
        /\ m.quest = QuestRate(samples, labelled, truth, predicted)
    BY DEF Evaluate, CaptureRate, CapturedRate, Known
  <1>7. m.count >= MinSamples /\ m.capture >= 9800 /\ m.label >= 9500 /\ m.quest >= 9000
    <2> HIDE DEF m
    <2> QED BY <1>4 DEF Passes
  <1>8. L \in SUBSET Sights /\ labelled = Known(samples, L) /\ labelled \in SUBSET Sights
    BY DEF Known
  <1>9. \A s \in Sights : predicted[s] = Predict(s, ocr)
    OBVIOUS
  <1> HIDE DEF m, predicted
  <1>10. Count(samples, Sights) >= MinSamples
    <2>1. Sights \in SUBSET Sights
      OBVIOUS
    <2>2. Count(samples, Known(samples, Sights)) = Count(samples, Sights)
      BY <1>2, <2>1, KnownCount
    <2> QED BY <1>6, <1>7, <2>2
  <1>11. 20000 * Count(samples, NotCaptured) <= 401 * Count(samples, Sights)
    <2> HIDE DEF L, labelled
    <2>1. CapturedRate(samples) >= 9800
      BY <1>6, <1>7
    <2> QED BY <1>2, <2>1, CaptureReaches
  <1>12. 20000 * Count(samples, Misread(L, truth, predicted)) <= 1001 * Count(samples, L)
    <2> HIDE DEF L, labelled
    <2> QED BY <1>2, <1>6, <1>7, <1>8, LabelReaches
  <1>13. ocr = "tesseract"
    <2>1. PICK s \in Sights : predicted[s].quest # NoText
      <3> HIDE DEF labelled
      <3> QED BY <1>6, <1>7, <1>8, QuestReaches
    <2>2. Predict(s, ocr).quest # NoText
      BY <1>9, <2>1
    <2> QED BY <2>2, LabelPredicted
  <1> HIDE DEF labelled
  <1> DEFINE M == {s \in L : Predict(s, ocr)'.label \notin readiness'.names}
  <1>14. Misread(L, truth, predicted) = M
    BY <1>1, <1>5, <1>9, SamePrediction DEF Misread
  <1>15. 20000 * Count(samples, M) <= 1001 * Count(samples, L)
    <2> HIDE DEF L, M
    <2> QED BY <1>12, <1>14
  <1>16. L = {s \in Sights : s.shows \in readiness'.of}
    BY <1>5
  <1> HIDE DEF L
  <1> QED
    BY <1>1, <1>5, <1>10, <1>11, <1>13, <1>15, <1>16 DEF ReadyIsEarned, NotCaptured

\* A verdict over what was kept never passes: nothing is known of its captures.
LEMMA LaterIsNotPassed ==
  ASSUME Reevaluate PROVE readiness'.status # "PASSED"
  <1> SUFFICES ASSUME readiness'.status = "PASSED" PROVE FALSE
    OBVIOUS
  <1>1. PICK truth \in Truths, predicted \in {[s \in Sights |-> Suggested(Predict(s, ocr))]} :
          readiness' = Ready(Evaluate(samples, truth, predicted, FALSE), truth, FALSE)
    BY DEF Reevaluate
  <1> DEFINE m == Evaluate(samples, truth, predicted, FALSE)
  <1>2. m.capture = Unread
    BY DEF Evaluate, CaptureRate
  <1>3. Passes(m)
    BY <1>1, PassedReaches
  <1> HIDE DEF m
  <1>4. m.capture >= 9800
    BY <1>3 DEF Passes
  <1> QED
    BY <1>2, <1>4 DEF Unread

\* What does not touch the verdict leaves it earned.
LEMMA StillEarned ==
  ASSUME Earned, readiness' = readiness, samples' = samples,
         program = "validate" /\ step = "done" => ocr' = ocr /\ program' = program /\ step' = step
  PROVE  Earned'
  <1>1. CASE readiness.status # "PASSED"
    BY <1>1 DEF Earned, ReadyIsEarned
  <1>2. CASE readiness.status = "PASSED"
    <2>1. ocr' = ocr /\ program' = program /\ step' = step
      BY <1>2 DEF Earned
    <2> DEFINE L == {s \in Sights : s.shows \in readiness.of}
               M == {s \in L : Predict(s, ocr).label \notin readiness.names}
               N == {s \in L : Predict(s, ocr)'.label \notin readiness.names}
    <2>2. M = N
      BY <2>1, SamePrediction
    <2>3. /\ readiness.fresh /\ ocr = "tesseract"
          /\ Count(samples, Sights) >= MinSamples
          /\ 20000 * Count(samples, M) <= 1001 * Count(samples, L)
          /\ 20000 * Count(samples, NotCaptured) <= 401 * Count(samples, Sights)
      BY <1>2 DEF Earned, ReadyIsEarned, NotCaptured
    <2>4. 20000 * Count(samples, N) <= 1001 * Count(samples, L)
      <3> HIDE DEF L, M, N
      <3> QED BY <2>2, <2>3
    <2> HIDE DEF M
    <2>5. ReadyIsEarned'
      BY <2>1, <2>3, <2>4 DEF ReadyIsEarned, NotCaptured
    <2> QED BY <2>1, <2>5 DEF Earned
  <1> QED
    BY <1>1, <1>2

\* Every step leaves the verdict earned.
LEMMA StepEarns == ASSUME Earned, [Next]_vars PROVE Earned'
  <1>1. CASE TakeSample
    <2>1. readiness' = readiness /\ step' = step /\ step = "sampling"
      BY <1>1 DEF TakeSample
    <2>2. readiness.status # "PASSED"
      BY <2>1 DEF Earned
    <2>3. PICK s \in Sights : samples' = [samples EXCEPT ![s] = @ + 1]
      BY <1>1 DEF TakeSample
    <2>4. samples' \in [Sights -> Nat]
      BY <2>3 DEF Earned
    <2> QED BY <2>1, <2>2, <2>4 DEF Earned, ReadyIsEarned
  <1>2. CASE Finish
    BY <1>2, FinishEarns
  <1>3. CASE Reevaluate
    <2>1. readiness'.status # "PASSED" /\ samples' = samples
      BY <1>3, LaterIsNotPassed DEF Reevaluate
    <2> QED BY <2>1 DEF Earned, ReadyIsEarned
  <1>4. CASE StartValidation
    <2>1. readiness' = readiness /\ samples' = samples /\ step = "start"
      BY <1>4 DEF StartValidation
    <2> QED BY <2>1, StillEarned
  <1>5. ASSUME ~(TakeSample \/ Finish \/ Reevaluate \/ StartValidation) PROVE Earned'
    <2>1. UNCHANGED validating /\ program' = program /\ (program = "validate" => step' = step)
      BY <1>5 DEF Next, vars, TellCondition, TryFirst, TrySecond, LookAt, Ask, Leave, Answer,
         AnswerGarbled, CloseStore, PassTime, validating
    <2> QED BY <2>1, StillEarned DEF validating
  <1> QED
    BY <1>1, <1>2, <1>3, <1>4, <1>5

\* Whatever is sampled and whoever labels it: the vision passes only at the end of the
\* session that took the samples, by the backend that reads, with enough samples, few of
\* them failed and few of what was labelled read as something else; the rounding of the
\* rates is in the numbers (benchmark.py, readiness.py, validate_real_vision.py).
THEOREM ReadinessIsEarned == Spec => []ReadyIsEarned
  <1>1. Init => Earned
    BY DEF Init, Earned, ReadyIsEarned, NotReady
  <1>2. Earned /\ [Next]_vars => Earned'
    BY StepEarns
  <1>3. Earned => ReadyIsEarned
    BY DEF Earned
  <1> QED
    BY <1>1, <1>2, <1>3, PTL DEF Spec
===============================================================================
