------------------------------- MODULE Verification -------------------------------
(***************************************************************************)
(* action_verification/ and recovery/: what an action is expected to lead  *)
(* to, what the looks before and after it show of that, what that makes of *)
(* the action, and what one then had better do.                            *)
(***************************************************************************)
EXTENDS Proposals

\* ExpectedOutcomeReference: what a look after the action is to show, and the
\* changes between the looks.
Expected(action, map, visible, absent, quests, changes, timeout) ==
  [action |-> action, map |-> map, visible |-> visible, absent |-> absent,
   quests |-> quests, changes |-> changes, timeout |-> timeout]

\* OutcomeTimeoutPolicy.timeout_for, in seconds
TimeoutFor(type, crossing) ==
  CASE type = "NAVIGATE" -> IF crossing THEN 60 ELSE 20
    [] type \in {"INTERACT", "WAIT"} -> 15
    [] type \in {"COMBAT", "COLLECT"} -> 30
    [] type \in {"VERIFY", "OBSERVE"} -> 10

\* ActionExpectationBuilder.build
ChangeOf ==
  [INTERACT |-> "QUEST_PROGRESS_CHANGED", COMBAT |-> "MONSTER_COUNT_CHANGED", COLLECT |-> "ITEM_CHANGED",
   VERIFY |-> "OBSERVATION_VALID", WAIT |-> "OBSERVATION_CONTINUES", OBSERVE |-> "OBSERVATION_OBTAINED"]

\* The quest of the goal pursued, if it is of one.
QuestsOf(goals) == {g.quest : g \in goals} \ {NoName}

Expect(action, route, goals) ==
  LET crossing == action.type = "NAVIGATE" /\ route.steps # <<>> /\ route.steps[1].type = "PORTAL"
      there == IF crossing THEN route.target ELSE NoName
      change == IF action.type # "NAVIGATE" THEN ChangeOf[action.type]
                ELSE IF crossing THEN "MAP_CHANGED" ELSE "TARGET_VISIBLE"
  IN  Expected(action, there, action.type = "INTERACT" \/ (action.type = "NAVIGATE" /\ ~crossing),
               action.type = "COMBAT", IF action.type = "INTERACT" THEN QuestsOf(goals) ELSE {},
               {change}, TimeoutFor(action.type, crossing))

\* GameStateComparator.compare; entities are taken by their name, and monsters of
\* one name are one.
MonstersIn(state) == {n \in DOMAIN state.entities : state.entities[n] = "MONSTER"}
Seen(state, name) == name \in DOMAIN state.entities

\* The evidence: what can be asked of it here, by its type; of a target if there is one.
Compare(before, after, target) ==
  LET all == [MAP_CHANGED |-> before.map.name # after.map.name,
              MONSTER_COUNT_CHANGED |-> Cardinality(MonstersIn(before)) # Cardinality(MonstersIn(after)),
              QUEST_PROGRESS_CHANGED |-> before.quests.active # after.quests.active,
              COMBAT_STATE_CHANGED |-> before.combat # after.combat,
              TARGET_VISIBLE |-> Seen(after, target),
              TARGET_DISAPPEARED |-> Seen(before, target) /\ ~Seen(after, target)]
  IN  [e \in {x \in DOMAIN all : target = NoName => x \notin {"TARGET_VISIBLE", "TARGET_DISAPPEARED"}} |-> all[e]]

\* _evaluate_conditions: a change no evidence is of is neither met nor missed.
Asked(name, wanted, met) == IF wanted THEN {<<name, met>>} ELSE {}
Conditions(expectation, after, evidence) ==
  LET target == expectation.action.target
      asked == Asked("map", expectation.map # NoName, after.map.name = expectation.map)
               \cup Asked("visible", expectation.visible, Seen(after, target))
               \cup Asked("absent", expectation.absent, ~Seen(after, target))
               \cup Asked("quests", expectation.quests # {}, expectation.quests \cap after.quests.active # {})
               \cup {<<c, evidence[c]>> : c \in expectation.changes \cap DOMAIN evidence}
  IN  [matched |-> {a[1] : a \in {x \in asked : x[2]}}, unmatched |-> {a[1] : a \in {x \in asked : ~x[2]}},
       unknown |-> expectation.changes \ DOMAIN evidence]

\* ActionOutcomeVerifier.verify, of a look that tells something.
AllMatched(c) == c.matched # {} /\ c.unmatched \cup c.unknown = {}
\* (A slip: what is missed does not count as long as something is met.)
JudgeByMatches(c, elapsed, timeout) ==
  CASE elapsed > timeout /\ c.matched = {} -> "TIMEOUT"
    [] c.matched # {} -> "SUCCESS"
    [] OTHER -> IF c.unmatched # {} /\ c.unknown = {} THEN "FAILED" ELSE "INCONCLUSIVE"

Judge(c, elapsed, timeout) ==
  CASE elapsed > timeout /\ ~AllMatched(c) -> "TIMEOUT"
    [] AllMatched(c) -> "SUCCESS"
    [] OTHER -> IF c.matched # {} THEN "PARTIAL_SUCCESS"
                ELSE IF c.unmatched # {} /\ c.unknown = {} THEN "FAILED" ELSE "INCONCLUSIVE"

\* The whole of it; there may be no look before and none after (empty sets), and
\* a death is not told of without the one after.
Verify(expectation, befores, afters, gate, reflex, elapsed) ==
  IF gate = "BLOCKED" THEN "BLOCKED"
  ELSE IF afters = {} THEN "INCONCLUSIVE"
  ELSE IF reflex.state = "DEATH" THEN "FAILED"
  ELSE LET after == CHOOSE s \in afters : TRUE
           before == CHOOSE s \in befores : TRUE
       IN  IF after.confidence < 30 \/ befores = {} THEN "INCONCLUSIVE"
           ELSE Judge(Conditions(expectation, after, Compare(before, after, expectation.action.target)),
                      elapsed, expectation.timeout)

\* ActionOutcomeValidator.validate: of what was blocked there is no evidence, and what
\* is not conclusive is not of much confidence.
OutcomeVerdict(status) == IF status \in {"INCONCLUSIVE", "BLOCKED"} THEN "WARNING" ELSE "VALID"

-----------------------------------------------------------------------------
\* FailureDetector.detect, with the outcome at hand; a partial success is a failure
\* in combat only.
FailureHinted(type, hints) ==
  CASE "timeout" \in hints -> "NAVIGATION_TIMEOUT"
    [] "timeout" \notin hints /\ type = "INTERACT" /\ "npc missing" \in hints -> "STATE_MISMATCH"
    [] "timeout" \notin hints /\ type = "COMBAT" /\ "hp decreased" \in hints -> "COMBAT_FAILURE"
    [] OTHER -> "UNKNOWN"

FailureOf(type, gate, status, hints) ==
  LET failed == status = "FAILED" \/ (status = "PARTIAL_SUCCESS" /\ type = "COMBAT")
  IN  CASE "BLOCKED" \in {gate, status} -> "SAFETY_BLOCKED"
        [] gate # "BLOCKED" /\ status = "TIMEOUT" ->
             IF type = "NAVIGATE" THEN "NAVIGATION_TIMEOUT" ELSE "ACTION_TIMEOUT"
        [] gate # "BLOCKED" /\ failed ->
             IF type = "INTERACT" THEN "STATE_MISMATCH"
             ELSE IF type = "COMBAT" THEN "COMBAT_FAILURE" ELSE "OUTCOME_MISMATCH"
        [] OTHER -> FailureHinted(type, hints)

\* RecoveryPlanner.plan
RecoveryOf(failure) ==
  CASE failure \in {"NAVIGATION_TIMEOUT", "ACTION_TIMEOUT"} -> "RETRY"
    [] failure \in {"STATE_MISMATCH", "OUTCOME_MISMATCH"} -> "REPLAN"
    [] failure = "SAFETY_BLOCKED" -> "ABORT"
    [] failure \in {"COMBAT_FAILURE", "UNKNOWN"} -> "WAIT_OBSERVATION"

\* RecoveryValidator.validate
RecoveryVerdict(failure) == IF failure = "UNKNOWN" THEN "WARNING" ELSE "VALID"
=============================================================================
