----------------------------- MODULE CompanionRuntime -----------------------------
(***************************************************************************)
(* companion_runtime/: every observation is appended to the history, the   *)
(* whole history reduced to the present, and a snapshot of what it means   *)
(* built and put into the session.  Observations come from raw evidence,   *)
(* from a parsed screen or from candidates of a visual model; they may     *)
(* come late, come twice, and carry what nothing is known of.              *)
(***************************************************************************)
EXTENDS ContextReference

CONSTANTS
  Inputs,      \* raw observations: sets of evidence as sequences
  Screens,     \* parsed screens
  Sightings,   \* candidates of a visual model
  MaxHistory,  \* bound: observations processed
  MaxTime,     \* bound: the clock
  Delays       \* how late an observation may be processed

\* Evidence and candidates come in lists and with numbers for confidences.
ASSUME CompanionConstants ==
  /\ MaxHistory \in Nat /\ MaxTime \in Nat /\ Delays \subseteq Nat
  /\ \A e \in Inputs \cup Sightings :
       /\ Len(e) \in Nat /\ DOMAIN e = 1..Len(e)
       /\ \A i \in DOMAIN e : e[i].confidence \in Int
  /\ \A screen \in Screens :
       /\ screen.confidence \in Int
       /\ \A values \in {screen.map, screen.entities, screen.quests} :
            Len(values) \in Nat /\ DOMAIN values = 1..Len(values)

VARIABLES
  clock,    \* the time process_observation is called with
  history,  \* ObservationHistory
  state,    \* last_semantic_state
  context,  \* last_context
  refs,     \* last_planning_references
  session   \* CompanionSession

companionVars == <<clock, history, state, context, refs, session>>

NoState == [observation |-> 0, at |-> 0, location |-> {}, refs |-> {}, status |-> NoStatus,
            unresolved |-> {}, stale |-> {}, conflicts |-> {}, unknown |-> 0,
            unknowns |-> {}, confidence |-> 0]
NoContext == [type |-> "none", relations |-> {}, entities |-> {}, confidence |-> 0, uncertain |-> {}]
NoSnapshot == [observation |-> 0, confidence |-> 0, gaps |-> 0, uncertain |-> {}, life |-> {}]

CompanionInit ==
  /\ clock = 0 /\ history = <<>>
  /\ state = NoState /\ context = NoContext /\ refs = {}
  /\ session = [current |-> NoSnapshot, count |-> 0, ids |-> {}, now |-> 0]

-----------------------------------------------------------------------------
\* from_screen_observation: the map, the entities and the quests of a screen,
\* each with the confidence of the whole; the values on it, if it has any.
FromScreen(screen) ==
  LET Read(type, value) == Evidence(type, value, screen.confidence)
      All(type, values) == [i \in DOMAIN values |-> Read(type, values[i])]
  IN  [evidence |-> All("map", screen.map) \o All("entity", screen.entities)
                      \o All("quest", screen.quests),
       status |-> <<screen.hp, screen.mp>>]

\* from_visual_semantic_candidates: HP and MP become the status, when they are
\* within bounds, and are no evidence; what is no map is some text.  The rest keep
\* their places, of which only the order counts.
Gauge(candidates, type) ==
  LET of == SelectSeq(candidates, LAMBDA c : c.type = type /\ c.value \in 0..100)
  IN  IF of = <<>> THEN NoGauge ELSE Last(of).value

FromCandidates(candidates) ==
  LET kept == {i \in DOMAIN candidates : candidates[i].type \notin {"HP", "MP"}}
  IN  [evidence |-> [i \in kept |->
                       Evidence(IF candidates[i].type = "MAP" THEN "map" ELSE "ui_text",
                                candidates[i].value, candidates[i].confidence)],
       status |-> <<Gauge(candidates, "HP"), Gauge(candidates, "MP")>>]

-----------------------------------------------------------------------------
\* _build_snapshot: no more confident than its weakest part.
Snapshot(s, c, rs) ==
  [observation |-> s.observation,
   confidence |-> MinOf({s.confidence, c.confidence} \cup {r.confidence : r \in rs}),
   gaps |-> Cardinality({r \in rs : r.type = "INFORMATION_GAP"})
            + (IF s.unresolved = {} THEN 0 ELSE 1),
   uncertain |-> c.uncertain,
   life |-> {<<r.id, r.life>> : r \in s.refs}]

\* CompanionSessionStore.record
Record(snapshot, s) ==
  [current |-> snapshot, count |-> session.count + 1,
   ids |-> session.ids \cup {s.observation}, now |-> clock]

\* process_observation
Process(id, at, input) ==
  /\ Len(history) < MaxHistory
  /\ \E h \in {Append(history, Entry(id, at, input.evidence, input.status))} :
     \E s \in {Reduce(h, clock)} : \E c \in {Reason(s)} : \E rs \in {Generate(s, c)} :
       /\ history' = h /\ state' = s /\ context' = c /\ refs' = rs
       /\ session' = Record(Snapshot(s, c, rs), s)
  /\ UNCHANGED clock

\* An observation made some time ago gets its number, or again that of the last.
ProcessObservation(input) ==
  \E delay \in Delays, again \in BOOLEAN :
    /\ delay <= clock
    /\ again => history # <<>>
    /\ Process(Len(history) + (IF again THEN 0 ELSE 1), clock - delay, input)

ObserveEvidence == \E e \in Inputs : ProcessObservation([evidence |-> e, status |-> NoStatus])
ObserveScreen == \E screen \in Screens : ProcessObservation(FromScreen(screen))
ObserveCandidates == \E candidates \in Sightings : ProcessObservation(FromCandidates(candidates))

Tick ==
  /\ clock < MaxTime
  /\ clock' = clock + 1
  /\ UNCHANGED <<history, state, context, refs, session>>

CompanionNext == ObserveEvidence \/ ObserveScreen \/ ObserveCandidates \/ Tick

CompanionSpec == CompanionInit /\ [][CompanionNext]_companionVars

-----------------------------------------------------------------------------
\* What of the present the latest observation itself shows.
ShownNow(h) ==
  LET latest == Latest(h).id
  IN  {At(h, p).id : p \in {q \in Seen(h) : h[q[1]].id = latest /\ At(h, q).resolved}}

\* No number and no time twice: then the order of arrival is all there is to it.
Distinct(h) ==
  \A i, j \in DOMAIN h : h[i].id = h[j].id \/ h[i].at = h[j].at => i = j

(* Whatever came late or twice: what is told rests on what the latest      *)
(* observation shows.  Nothing expired supports a reference, and what is   *)
(* lost does so only as history; a conflict is told of and nothing chosen; *)
(* an item is called unconfirmed only when it is not seen in possession;   *)
(* a location that is told of is visible, or another map is; a location    *)
(* that is in view is the location, unless numbers or times repeat; and    *)
(* nothing is more certain than the weakest it rests on                    *)
(* (context_reasoning/, planning_reference/, companion_runtime/).          *)
ReferencesGrounded ==
  LET shown == ShownNow(history)
  IN
  history # <<>> =>
    /\ \A r \in refs : \A e \in r.entities :
         /\ e.life # "EXPIRED"
         /\ e.life = "LOST" => e.historical
         /\ e.life = "VISIBLE" => e.id \in shown
         /\ r.confidence <= e.confidence
    /\ session.current.confidence <= MinOf({state.confidence, context.confidence}
                                           \cup {r.confidence : r \in refs})
    /\ state.conflicts # {} <=> \E r \in refs : r.type = "CONFLICT_NOTICE"
    /\ Distinct(history) /\ ~LocationConflict(history) =>
         \A m \in References(history, session.now) : m.kind = "location" /\ m.life = "VISIBLE" =>
           IdsOf(state.location) = {m.id}
    /\ LocationConflict(history) => \A r \in refs : r.type # "KNOWN_LOCATION" \/ r.about = {}
    /\ \A r \in refs : r.type = "KNOWN_LOCATION" =>
         \E m \in Of(state.refs, "VISIBLE") : m.type = "map"
    /\ \A r \in refs : r.type = "MISSING_REQUIREMENT" =>
         ~\E x \in Of(state.refs, "VISIBLE") : x.kind = "inventory" /\ x.id \in r.about

(* As long as no number and no time is used twice, an entity comes into    *)
(* view only with an observation that shows it, and one that comes late    *)
(* changes neither what the snapshot is about nor brings anything into     *)
(* view; used twice or not, the time of what is told never goes back, and  *)
(* what was a conflict of names stays one however much is seen after it    *)
(* (game_state/temporal.py).                                               *)
SeenAgainToReturn ==
  [][history # <<>> /\ history' # history =>
       LET new == Last(history')
           shows == {new.pieces[i].id : i \in DOMAIN new.pieces}
           appears == IdsOf(Of(state'.refs, "VISIBLE")) \ IdsOf(Of(state.refs, "VISIBLE"))
       IN  /\ Distinct(history') => appears \subseteq shows
           /\ Distinct(history') /\ new.at < Latest(history).at =>
                appears = {} /\ state'.observation = state.observation
           /\ state'.at >= state.at
           /\ \A p \in state.conflicts : At(history, p).conflict => p \in state'.conflicts]_companionVars
=============================================================================
