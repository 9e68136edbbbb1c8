-------------------------------- MODULE ActionChain --------------------------------
(***************************************************************************)
(* From a look at the screen to what became of an action, as the demo      *)
(* session calls the parts one after the other: what is seen is bound to   *)
(* what is known and laid over the context, of the goals that follow one   *)
(* is taken, a way is found with the planner of the round before, actions  *)
(* are proposed, and each of them is put to the safety gate and to the     *)
(* execution contract and verified by the look that comes after it.        *)
(***************************************************************************)
EXTENDS Verification, SafetyContracts

CONSTANTS Base,        \* the resolution graph
          Store,       \* the spatial maps
          Worlds,      \* graphs of maps, as imported
          Frames,      \* what a screenshot may show
          Agents,      \* what the agent holds of itself: another moment than the screen's
          GateInputs,  \* policies, permissions, sessions and budgets of the contract
          Elapsed,     \* seconds an action may have taken
          OcrConfidence,
          NamesInOrder

Nav == INSTANCE Navigation

\* No connection is imported without both of its ends (map_relation.py), and what
\* is read of a screen or recognized on it has a confidence.
ASSUME NamedEnds == \A w \in Worlds : \A c \in w.connections : Nav!NoMap \notin {c.source, c.target}
ASSUME Confidences == OcrConfidence \in Int /\ \A f \in Frames : f.confidence \in Int

\* The names that are sorted are listed, those of all that is connected among them.
ASSUME MapsAreListed ==
  /\ NamesInOrder \in Seq({NamesInOrder[i] : i \in DOMAIN NamesInOrder})
  /\ \A w \in Worlds : \A c \in w.connections : {c.source, c.target} \subseteq {NamesInOrder[i] : i \in DOMAIN NamesInOrder}

VARIABLES phase, doubts, screen, before, reflex, fused, goals, world, edges, route, actions, at,
          expected, gate, contract, late, missed, outcome, recovery

chain == <<doubts, screen, before, reflex, fused, goals>>
way == <<world, edges, route>>
verdicts == <<expected, gate, contract, late, missed, outcome, recovery>>
vars == <<phase, chain, way, actions, at, verdicts>>

-----------------------------------------------------------------------------
\* What the screenshot shows, through the text on it.
Screen(f) == Extract(Base, Parse(f, Recognize(ShownText(f), OcrConfidence)))

\* The same moment as perception/ has it; what the agent holds of itself; what is
\* known of where it thinks it is; the quests and goals there; all of it fused.
Perceived(f) ==
  Bind(Base, Capture(f.map, f.npcs \cup f.monsters \cup f.items,
                     IF f.ui = {} THEN NoName ELSE CHOOSE u \in f.ui : TRUE, f.confidence))
ContextOf(a) == BuildContext(a.state, a.prediction, a.risk, a.goal, a.mind)
KnownThere(context) == Retrieve(Base, context.location, context.entities)
QuestsAround(seen, context) == PlanQuests(Base, KnownThere(context), seen, context)
FusedWith(a, seen, context, plan) == Fuse(seen, KnownThere(context), context, plan, a.mind)

\* What the validators on the way are not content with; nobody stops for it.
Doubt(part, is) == IF is THEN {part} ELSE {}
DoubtsOfSight(f, seen, state) ==
  Doubt("perception", PerceptionVerdict([confidence |-> f.confidence], seen) # "VALID")
  \cup Doubt("vision", ScreenIssues(Parse(f, Recognize(ShownText(f), OcrConfidence))) # {})
  \cup Doubt("game state", GameStateIssues(state) # {})
DoubtsOfMind(a, seen, context, plan) ==
  Doubt("context", ContextVerdict(context) # "VALID") \cup Doubt("knowledge", KnowledgeVerdict(Base) # "VALID")
  \cup Doubt("quests", QuestIssues(Base, plan) # {})
  \cup Doubt("fusion", FusionVerdict(FusedWith(a, seen, context, plan)) # "VALID")
DoubtsOfWay(here, around, planned) ==
  Doubt("world", Nav!WorldIssues(here) # {}) \cup Doubt("space", Nav!SpatialIssues(around) # {})
  \cup Doubt("navigation", Nav!NavigationVerdict(planned) # "VALID")

NoRoute == [start |-> NoName, target |-> NoName, kind |-> "UNKNOWN", steps |-> <<>>, cost |-> 0, confidence |-> 0]
NoLook == Extract(Base, Parse([confidence |-> 0], Recognize({}, 0)))
NoReflex == Reflex(Thresholds(40, 20), 0, NoGauge, NoGauge, FALSE, {}, {})

NoContract == [reference |-> [blocked |-> {}, contract |-> FALSE, runtime |-> FALSE], issues |-> {}]

Init ==
  /\ phase = "look" /\ doubts = {} /\ screen = NoLook /\ before = NoLook /\ reflex = NoReflex
  /\ fused = 0 /\ goals = {} /\ world = (CHOOSE w \in Worlds : TRUE) /\ edges = {} /\ route = NoRoute
  /\ actions = <<>> /\ at = 0
  /\ expected = {} /\ gate = "NONE" /\ contract = NoContract /\ late = FALSE /\ missed = {}
  /\ outcome = "NOT_EVALUATED" /\ recovery = "NONE"

\* One look, one thought: the first of the goals recommended is one of them.
Perceive ==
  /\ phase = "look" /\ phase' = "feel"
  /\ \E f \in Frames, a \in Agents :
       \E seen \in {Perceived(f)}, context \in {ContextOf(a)} :
         \E plan \in {QuestsAround(seen, context)} :
           /\ goals' \in (IF plan.recommended = {} THEN {{}} ELSE {{g} : g \in plan.recommended})
           /\ fused' = FusedWith(a, seen, context, plan).fused
           /\ screen' = Screen(f)
           /\ doubts' = DoubtsOfSight(f, seen, Screen(f)) \cup DoubtsOfMind(a, seen, context, plan)
  /\ UNCHANGED <<before, reflex, way, actions, at, verdicts>>

\* The reflex is told of the gauges, and by another channel of a death.
ReflexOf(state, signal) == Reflex(Thresholds(40, 20), fused, state.player.hp, state.player.mp, signal, {}, {})

Feel ==
  /\ phase = "feel" /\ phase' = "route"
  /\ \E signal \in BOOLEAN : reflex' = ReflexOf(screen, signal)
  /\ doubts' = doubts \cup Doubt("reflex", ReflexIssues(reflex') # {})
  /\ UNCHANGED <<screen, before, fused, goals, way, actions, at, verdicts>>

\* The ways on are of the world as known now; the planner is that of every round.
WorldAround(w) ==
  Nav!WorldReference(w, screen.map.name, screen.confidence, [npcs |-> {}, quests |-> screen.quests.available])
SpaceAround(w) == Nav!SpatialReference(Store, WorldAround(w))

FindWay ==
  /\ phase = "route" /\ phase' = "propose"
  /\ world' \in Worlds
  /\ \E here \in {WorldAround(world')}, around \in {SpaceAround(world')} :
       \E target \in here.known \cup {g.target : g \in goals} :
         /\ edges' = Nav!GraphFor(edges, Nav!TargetKind(target, around, here), here)
         /\ route' = Nav!PlanRoute(edges, here.map, target, around, here)
         /\ doubts' = doubts \cup DoubtsOfWay(here, around, route')
  /\ UNCHANGED <<screen, before, reflex, fused, goals, actions, at, verdicts>>

ProposeActions ==
  /\ phase = "propose" /\ phase' = "gate"
  /\ \E hint \in {NoName} \cup MonstersIn(screen) :
       \E behavior \in {PlanBehavior(goals, route, reflex.events, hint)} :
         /\ actions' = Propose(behavior, route)
         /\ doubts' = doubts \cup Doubt("behavior", BehaviorIssues(behavior) # {})
                             \cup Doubt("proposals", ProposalsVerdict(actions') # "VALID")
  /\ at' = 1
  /\ UNCHANGED <<screen, before, reflex, fused, goals, way, verdicts>>

\* What is expected is built with it; the contract may yet be handed what was
\* expected of the action before.
AskGate ==
  /\ phase = "gate" /\ phase' = "contract"
  /\ gate' = GateDecision(actions[at], screen, reflex)
  /\ expected' \in {{Expect(actions[at], route, goals)}, expected}
  /\ UNCHANGED <<chain, way, actions, at, contract, late, missed, outcome, recovery>>

AskContract ==
  /\ phase = "contract" /\ phase' = "asked"
  /\ \E in \in GateInputs :
       LET valid == ProposalVerdict(actions[at]) = "VALID"
       IN  contract' = [reference |-> GateReference(in, actions[at], valid, gate, expected),
                        issues |-> ModeIssues(in.policy)]
  /\ UNCHANGED <<chain, way, actions, at, expected, gate, late, missed, outcome, recovery>>

\* The contract's reference has nobody who would execute by it.
NobodyExecutes ==
  /\ phase = "asked" /\ phase' = "verify" /\ contract' = NoContract
  /\ UNCHANGED <<chain, way, actions, at, expected, gate, late, missed, outcome, recovery>>

\* A detector is told of what one sees oneself.
Hints(was, is) == IF Shown(is.player.hp) /\ is.player.hp < was.player.hp THEN {"hp decreased"} ELSE {}

\* One may have missed the look before the action, or the one after it.
Unless(which, look) == IF which \in missed' THEN {} ELSE {look}

JudgeAction(seconds) ==
  LET expectation == Expect(actions[at], route, goals)
      failure == FailureOf(actions[at].type, gate, outcome', Hints(screen, screen'))
  IN  /\ late' = (seconds > expectation.timeout)
      /\ outcome' = Verify(expectation, Unless("before", screen), Unless("after", screen'),
                            gate, reflex', seconds)
      /\ recovery' = RecoveryOf(failure)
      /\ doubts' = doubts \cup Doubt("outcome", OutcomeVerdict(outcome') # "VALID")
                          \cup Doubt("recovery", RecoveryVerdict(failure) # "VALID")

\* An action that is blocked is not taken, and there is nothing new to see.
VerifyBlocked ==
  /\ phase = "verify" /\ gate = "BLOCKED" /\ phase' = "judged"
  /\ before' = screen /\ missed' = {} /\ UNCHANGED <<screen, reflex>>
  /\ JudgeAction(0)
  /\ UNCHANGED <<fused, goals, way, actions, at, expected, gate, contract>>

\* Else there is a look after it, and before the next.
VerifyAction ==
  /\ phase = "verify" /\ gate # "BLOCKED" /\ phase' = "judged"
  /\ before' = screen
  /\ missed' \in SUBSET {"before", "after"}
  /\ \E f \in Frames, signal \in BOOLEAN, seconds \in Elapsed :
       /\ screen' = Screen(f) /\ reflex' = ReflexOf(screen', signal)
       /\ JudgeAction(seconds)
  /\ UNCHANGED <<fused, goals, way, actions, at, expected, gate, contract>>

NextAction ==
  /\ phase = "judged" /\ at < Len(actions)
  /\ phase' = "gate" /\ at' = at + 1 /\ before' = NoLook
  /\ doubts' = doubts \ {"outcome", "recovery"}
  /\ gate' = "NONE" /\ late' = FALSE /\ missed' = {} /\ outcome' = "NOT_EVALUATED" /\ recovery' = "NONE"
  /\ UNCHANGED <<screen, reflex, fused, goals, way, actions, expected, contract>>

NextRound ==
  /\ phase = "judged" /\ at = Len(actions)
  /\ phase' = "look" /\ doubts' = {} /\ at' = 0 /\ actions' = <<>>
  /\ screen' = NoLook /\ before' = NoLook /\ reflex' = NoReflex /\ fused' = 0 /\ goals' = {}
  /\ route' = NoRoute /\ expected' = {}
  /\ gate' = "NONE" /\ late' = FALSE /\ missed' = {} /\ outcome' = "NOT_EVALUATED" /\ recovery' = "NONE"
  /\ UNCHANGED <<world, edges, contract>>

Next ==
  \/ Perceive \/ Feel \/ FindWay \/ ProposeActions \/ AskGate \/ AskContract \/ NobodyExecutes
  \/ VerifyBlocked \/ VerifyAction \/ NextAction \/ NextRound
Spec == Init /\ [][Next]_vars

-----------------------------------------------------------------------------
\* The way to another map leads from where the screen shows us to the target, from
\* map to map by connections of the world as it is known now, whatever world the
\* planner was asked about before; there is one if there can be one, and none is
\* shorter (navigation/planner.py, route_graph.py).
Within(w, map) ==
  LET reach[n \in 0..Len(NamesInOrder)] ==
        IF n = 0 THEN {map} ELSE reach[n - 1] \cup UNION {Nav!Reachable(w, m) : m \in reach[n - 1]}
  IN  reach

RouteFollowsTheMap ==
  route.kind = "MAP" /\ world.connections # {} =>
    LET near == Within(world, route.start)
        steps == route.steps
    IN  IF route.target \in near[Len(NamesInOrder)] /\ route.target # route.start
        THEN /\ steps # <<>> /\ steps[1].from = route.start /\ Last(steps).to = route.target
             /\ \A i \in DOMAIN steps : steps[i].to \in Nav!Reachable(world, steps[i].from)
             /\ \A i \in 2..Len(steps) : steps[i].from = steps[i - 1].to
             /\ route.target \notin near[Len(steps) - 1]
        ELSE Len(steps) <= 1 /\ \A i \in DOMAIN steps : steps[i].to = route.start

\* An action is taken for done only if both looks were there and show what it was
\* for: the map or the target reached by a way that was found; the person still in
\* sight, other quests under way than before and the goal's among them; the monster
\* no longer in sight.  Never with the player dead, nor what the gate has blocked.  A
\* look that was missed leaves it open.  A death that is seen is a failure whatever
\* else is met, and then the gate lets nothing more of the round through.
\* What the gate blocked is given up, and nothing else unless for a death
\* (action_verification/verifier.py, safety_gate/rules.py, recovery/planner.py).
DoneOnlyIfSeen ==
  /\ phase = "judged" =>
       LET action == actions[at]
       IN  /\ outcome = "SUCCESS" =>
                /\ missed = {} /\ gate # "BLOCKED" /\ reflex.state # "DEATH" /\ screen.confidence >= 30
                /\ action.type \in {"NAVIGATE", "INTERACT", "COMBAT"}
                /\ action.type = "NAVIGATE" =>
                     \/ Seen(screen, action.target)
                     \/ action.target = screen.map.name /\ "navigation" \notin doubts
                /\ action.type = "INTERACT" =>
                     /\ Seen(screen, action.target) /\ screen.quests.active # before.quests.active
                     /\ QuestsOf(goals) # {} => QuestsOf(goals) \cap screen.quests.active # {}
                /\ action.type = "COMBAT" =>
                     /\ ~Seen(screen, action.target)
                     /\ Cardinality(MonstersIn(before)) # Cardinality(MonstersIn(screen))
           /\ gate # "BLOCKED" /\ reflex.state = "DEATH" /\ "after" \notin missed => outcome = "FAILED"
           /\ gate # "BLOCKED" /\ missed # {} => outcome \in {"FAILED", "INCONCLUSIVE"}
           /\ outcome = "FAILED" => "after" \notin missed
           /\ outcome = "TIMEOUT" => late
           /\ gate = "BLOCKED" => recovery = "ABORT"
           /\ recovery = "ABORT" => gate = "BLOCKED" \/ reflex.state = "DEATH"
           /\ recovery \in {"RETRY", "REPLAN", "ABORT"} => outcome # "SUCCESS"
  /\ phase \in {"contract", "asked", "verify"} /\ reflex.state = "DEATH" => gate = "BLOCKED"

\* Nothing is eligible for execution under a policy that keeps its rules, and
\* under one that does not, only what this look's gate allowed, with what is expected of this
\* very action (safety_vnext/policy.py, validator.py).
NothingRunsYet ==
  phase = "asked" /\ contract.reference.contract =>
    /\ contract.issues # {}
    /\ gate = "ALLOW" /\ reflex.state # "DEATH"
    /\ \A e \in expected : e.action = actions[at] \/ "outcome" \in contract.issues
=============================================================================
