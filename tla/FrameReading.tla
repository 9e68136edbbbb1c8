------------------------------- MODULE FrameReading --------------------------------
(***************************************************************************)
(* hybrid_vision/ and what real_vision/ reads with it: what has changed    *)
(* since the frame before, what is therefore read again, and what the      *)
(* label of the map and the gauges are read as.  Ratios, scores and        *)
(* confidences are in hundredths; a text is a model of itself, of which    *)
(* matters how long it is and which texts it lies within.                  *)
(***************************************************************************)
EXTENDS Integers, Sequences, SequencesExt, FiniteSetsExt

CONSTANTS Length,  \* of each text, in characters after normalisation
          Within   \* pairs of texts, the first of which lies within the second

NoText == ""
Unread == -1

Distance(a, b) == IF a < b THEN b - a ELSE a - b
InHundredths(n) == Min({100, Max({0, n})})

-----------------------------------------------------------------------------
(* FrameChangeDetector and VisionScheduler.                                  *)
\* A picture: how bright it is as a whole and in the region of the label, what the
\* perceptual hash sees of it, and how full and how certain its bar comes out.
Picture(whole, label, hash, bar) == [whole |-> whole, label |-> label, hash |-> hash, bar |-> bar]
NoPicture == Picture(Unread, Unread, NoText, <<0, 0>>)

\* VisionProfile.resolved_rois, migrate_legacy and resolve_pixel_rois_for: the regions
\* a profile has, its own over its base's, and the old ones only for want of others.
VisionProfile(own, base, legacy) == [own |-> own, base |-> base, legacy |-> legacy]
RoisOf(p) == IF p.own \cup p.base = {} THEN p.legacy ELSE p.own \cup p.base

\* detect: against the frame before it and no other; the first is all change.
ChangeThreshold == 5
FrameScore(previous, picture) ==
  LET apart == Distance(previous.whole, picture.whole)
  IN  IF previous.hash = picture.hash THEN apart ELSE Max({apart, 50})
DetectChange(previous, picture, rois) ==
  LET first == previous = NoPicture
      score == IF first THEN 100 ELSE FrameScore(previous, picture)
  IN  [changed |-> score >= ChangeThreshold, score |-> score,
       label |-> IF "map_label" \notin rois THEN Unread
                 ELSE IF first THEN 100 ELSE Distance(previous.label, picture.label)]

\* _roi_changed: a region that was not compared counts as the whole frame.
LabelChanged(change) == (IF change.label = Unread THEN change.score ELSE change.label) >= ChangeThreshold

\* VisionScheduler.plan, as trace_event_driven_vision.py asks for it.
PlannedTasks(change, rois) ==
  (IF "hp" \in rois THEN {"COLOR_GEOMETRY"} ELSE {})
  \cup (IF "map_label" \in rois /\ LabelChanged(change) THEN {"TEMPLATE", "OCR"} ELSE {})

-----------------------------------------------------------------------------
(* The label of the map.                                                     *)
\* MapleVisualTemplateLibrary.discriminate: the best of several templates, if it is
\* good enough and far enough ahead of the next.
TemplateThreshold == 60
TemplateMargin == 5
Discriminate(scores) ==
  LET ahead == {t \in DOMAIN scores : \A o \in DOMAIN scores \ {t} : scores[t] >= scores[o] + TemplateMargin}
  IN  IF \E t \in ahead : scores[t] >= TemplateThreshold
      THEN CHOOSE t \in ahead : scores[t] >= TemplateThreshold ELSE NoText

\* resolve_name: how well one name fits what was read.  A text cut short lies within
\* the name and fits it as well as the name itself would.
Fit(name, observed) ==
  IF name = observed \/ <<observed, name>> \in Within THEN 100
  ELSE IF <<name, observed>> \in Within THEN InHundredths((100 * Length[name]) \div Length[observed]) ELSE 0
BestFit(candidate, observed) == Max({Fit(n, observed) : n \in candidate.names})

\* KnowledgeGuidedResolver.resolve_name: the first of the best candidates, in their
\* order; nothing for no evidence, for weak evidence and for strangers.
MinEvidence == 30
Resolution(id, confidence) == [id |-> id, confidence |-> confidence]
ResolveName(observed, confidence, candidates) ==
  LET best(i) == BestFit(candidates[i], observed)
      chosen == {i \in DOMAIN candidates :
                   /\ best(i) > 0
                   /\ \A j \in DOMAIN candidates : best(j) < best(i) \/ (best(j) = best(i) /\ i <= j)}
  IN  IF observed = NoText THEN Resolution(NoText, 0)
      ELSE IF confidence < MinEvidence \/ chosen = {} THEN Resolution(NoText, confidence)
      ELSE LET i == CHOOSE k \in chosen : TRUE IN Resolution(candidates[i].id, (confidence * best(i)) \div 100)

-----------------------------------------------------------------------------
(* The gauges.                                                               *)
\* HpMpNumericExtractor._read_candidates: what the six attempts read as "cur/max".
Parseable(tries) == SelectSeq(tries, LAMBDA t : t[2] > 0 /\ t[1] <= 2 * t[2])

\* _read_ratio: the maximum most of them agree on, the larger one of two equals, and
\* the greatest value read with it.
ReadRatio(tries) ==
  LET read == Parseable(tries)
      votes(m) == Len(SelectSeq(read, LAMBDA t : t[2] = m))
      maxima == {read[i][2] : i \in DOMAIN read}
      best == CHOOSE m \in maxima : \A o \in maxima : votes(o) < votes(m) \/ (votes(o) = votes(m) /\ o <= m)
      value == Max({read[i][1] : i \in {k \in DOMAIN read : read[k][2] = best}})
  IN  IF read = <<>> THEN [ratio |-> Unread, confidence |-> 0]
      ELSE [ratio |-> InHundredths((100 * value) \div best), confidence |-> (100 * votes(best)) \div Len(read)]

\* HpMpGeometryExtractor.extract: a bar found empty with little certainty is no bar.
ReadBar(bar) == IF bar[1] = 0 /\ bar[2] < 30 THEN Unread ELSE bar[1]

\* _parse_hp_mp_ratio: a fraction, else a percentage, of which one is taken for all.
ParseRatio(text) ==
  CASE text.kind = "fraction" /\ text.of > 0 -> InHundredths((100 * text.n) \div text.of)
    [] text.kind = "percent" -> IF text.n > 1 THEN InHundredths(text.n) ELSE InHundredths(100 * text.n)
    [] OTHER -> Unread
=============================================================================
