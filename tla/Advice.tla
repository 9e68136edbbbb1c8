---------------------------------- MODULE Advice ----------------------------------
(***************************************************************************)
(* One companion as the demonstration console composes it: it looks, looks *)
(* again, reasons about one of the two, advises, hears what the user says  *)
(* of the advice, and remembers.  History and answers outlast a round;     *)
(* what was reasoned, decided and remembered is of the round.              *)
(***************************************************************************)
EXTENDS MemoryGraph

CONSTANTS
  Observations,   \* what the collector may be shown
  Npcs, Monsters, \* names the knowledge provider has
  Goals, Preventions, Qualities,
  Actions,        \* FeedbackAction
  Experiences, Failures,
  Looks, Answers  \* bounds: observations and answers of a behaviour

\* The lists' limits are numbers, the stores finite and their confidences numbers; a
\* map without a name is NoPlace.
ASSUME AdviceConstants ==
  /\ Limit \in Nat /\ LastSnapshots \in Nat
  /\ \A o \in Observations : o.confidence \in Int /\ o.map \notin {NoGoal, ""}
  /\ IsFiniteSet(Experiences) /\ IsFiniteSet(Failures)
  /\ \A x \in Experiences \cup Failures : x.confidence \in Int

VARIABLES
  history,    \* EnvironmentHistory.snapshots
  timeline,   \* EnvironmentHistory.timeline, as the set of its events
  moment,     \* what was interpreted: its state, opportunities, risk and reference
  decision,   \* DecisionReference
  memory,     \* PreferenceMemory
  aligned,    \* HumanAlignedDecisionReference
  remembered  \* RelevantMemoryReference and SemanticMemoryReference
adviceVars == <<history, timeline, moment, decision, memory, aligned, remembered>>

None == {}

AdviceInit ==
  /\ history = <<>> /\ timeline = {} /\ memory = <<>>
  /\ moment = None /\ decision = None /\ aligned = None /\ remembered = None

\* EnvironmentCollector.collect, EnvironmentHistoryManager.append, and the events
\* of the transition from the state before.
Look(o) ==
  /\ Len(history) < Looks /\ moment = None
  /\ \E s \in {Collect(o)} :
       /\ history' = Append(history, s)
       /\ timeline' = IF history = <<>> THEN timeline
                      ELSE timeline \cup Events(Transition(Last(history), s))
  /\ UNCHANGED <<moment, decision, memory, aligned, remembered>>

\* The reasoner, the detector of opportunities, the analyzer of risks and the
\* environment aware planner, of one of the last two states.
ReasonAbout(k, goal) ==
  /\ moment = None
  /\ LET s == history[k]
         opportunities == Opportunities(s, history, s.entities \cap Npcs, s.entities \cap Monsters)
     IN  moment' = {[state |-> s, goal |-> goal, risk |-> Risk(s), opportunities |-> opportunities,
                     prediction |-> Predict(history),
                     reference |-> EnvironmentReference(opportunities, Risk(s), goal)]}
  /\ UNCHANGED <<history, timeline, decision, memory, aligned, remembered>>

\* DecisionReferenceBuilder.build
Decide(prevention, quality) ==
  /\ decision = None
  /\ \E m \in moment : decision' = {BuildDecision(m.reference, prevention, quality, m.goal)}
  /\ UNCHANGED <<history, timeline, moment, memory, aligned, remembered>>

\* HumanAlignmentAligner.align, with an answer or without.
Answer(option, action) ==
  /\ Len(memory) < Answers /\ aligned = None
  /\ \E d \in decision :
       /\ option \in {o.id : o \in d.recommended \cup d.alternatives}
       /\ memory' = Process(memory, option, action)
       /\ aligned' = {Align(d, memory')}
  /\ UNCHANGED <<history, timeline, moment, decision, remembered>>

NoAnswer ==
  /\ aligned = None
  /\ \E d \in decision : aligned' = {Align(d, memory)}
  /\ UNCHANGED <<history, timeline, moment, decision, memory, remembered>>

\* MemoryConsolidator to MemoryRetriever, with an index of their own.
Nodes(d) == Consolidate(Experiences, Failures, history, d, memory)

Recall(nodes, relevant, query) ==
  [reference |-> MemoryReference(relevant, query),
   count |-> Cardinality(nodes), verdict |-> GraphVerdict(nodes, AutoLink(nodes)),
   strong |-> Summarize(Associate(nodes)).strong,
   semantic |-> SemanticReference(Associate(nodes))]

Remember ==
  /\ aligned # None /\ remembered = None
  /\ \E m \in moment, d \in decision :
     \E action \in IF d.recommended = {} THEN {""} ELSE {o.action : o \in d.recommended} :
     \E query \in {QueryContext(m.goal, m.state.location, action)}, nodes \in {Nodes(d)} :
     \E relevant \in Relevant(AddMany({}, nodes), query) :
       remembered' = {Recall(nodes, relevant, query)}
  /\ UNCHANGED <<history, timeline, moment, decision, memory, aligned>>

\* The next round starts with a context of its own.
NextRound ==
  /\ remembered # None
  /\ Len(history) < Looks \/ Len(memory) < Answers
  /\ moment' = None /\ decision' = None /\ aligned' = None /\ remembered' = None
  /\ UNCHANGED <<history, timeline, memory>>

AdviceNext ==
  \/ \E o \in Observations : Look(o)
  \/ \E k \in {Len(history) - 1, Len(history)} \cap DOMAIN history, goal \in Goals : ReasonAbout(k, goal)
  \/ \E prevention \in Preventions, quality \in Qualities : Decide(prevention, quality)
  \/ \E d \in decision : \E o \in d.recommended \cup d.alternatives :
     \E action \in Actions : Answer(o.id, action)
  \/ NoAnswer
  \/ Remember
  \/ NextRound

AdviceSpec == AdviceInit /\ [][AdviceNext]_adviceVars

-----------------------------------------------------------------------------
\* However a place is reasoned about, and whatever was answered before: danger is
\* never taken for LOW risk; with a goal to block nothing is recommended and all
\* that is preferred is an alternative the user took; what is both rejected and
\* preferred is an alternative the user also took; and the reasoner contradicts
\* itself only of a dangerous place it sees clearly.
AdviceConsistent ==
  \A m \in moment :
    /\ ReasoningIssues(m.opportunities, m.risk) # {} =>
         m.state.location \in Dangerous /\ m.state.confidence >= 70
    /\ \A d \in decision :
         /\ m.risk = "HIGH" => d.level # "LOW"
         /\ m.risk = "HIGH" /\ m.goal # NoGoal => d.recommended = {}
         /\ \A a \in aligned :
              /\ m.risk = "HIGH" /\ m.goal # NoGoal =>
                   {o.id : o \in a.preferred} \subseteq Accepted(memory)
              /\ AlignmentIssues(a) \subseteq {o.id : o \in d.alternatives} \cap Accepted(memory)

\* The last snapshots, and the place a memory of a place is of.
Recent ==
  {history[i] : i \in (Len(history) - Lowest({LastSnapshots, Len(history)}) + 1)..Len(history)}
PlaceOf(n) == CHOOSE x \in {p[2] : p \in {q \in n.context : q[1] = "location"}} : TRUE

\* What is remembered is of now: a memory of a place is of one of the last
\* snapshots and no other; as long as there is room nothing is left out; if one place
\* is remembered, then so is the one we are at, unless it was seen less clearly; and
\* the hints of a decision are failures on record.
MemoryOfNow ==
  \A r \in remembered :
    /\ {PlaceOf(n) : n \in r.reference.places} \subseteq {s.location : s \in Recent}
    /\ Cardinality(r.reference.relevant) = Lowest({Limit, r.count})
    /\ \A n \in r.reference.places, s \in Recent, m \in moment :
         s.location = m.state.location /\ s.location # NoPlace /\ s.confidence >= n.confidence =>
           \E x \in r.reference.places : PlaceOf(x) = m.state.location
    /\ r.semantic.hints \subseteq {<<"fail", f.id>> : f \in Failures}
=============================================================================
