------------------------------- MODULE AgentLoop -------------------------------
(***************************************************************************)
(* agent/loop.py: one synchronous round observe - context - goal - quest   *)
(* plan - plan - validate - execute - wait - reflect, with the goals of    *)
(* goal/ it selects among and the executor of executor/ it hands gated     *)
(* steps to.  Every stage may raise, and every publication may find the    *)
(* bus full: nothing is dispatched while the round holds the event loop.   *)
(***************************************************************************)
EXTENDS Naturals, FiniteSets, FiniteSetsExt

CONSTANTS
  Goal,      \* goal ids, numbered from the one the selector prefers
  QuestGoal, \* those that resolve to a quest
  RetryMax,  \* AgentLoop.retry_max
  MaxRoom,   \* bound: free places on the bus when a call begins
  MaxSteps   \* bound: steps of a plan

ASSUME LoopAssumption ==
  /\ Goal \subseteq Nat \ {0} /\ IsFiniteSet(Goal) /\ QuestGoal \subseteq Goal
  /\ RetryMax \in Nat /\ MaxRoom \in Nat /\ MaxSteps \in Nat

VARIABLES
  loop,       \* _state
  pc,         \* where the call of run_once is; "out" between calls
  err,        \* last_error is set
  outcome,    \* how the last call ended
  room,       \* free places on the bus
  attempt,    \* failed attempts of the planner in this round
  goal,       \* status of every goal the provider knows
  active,     \* _active_goal_id, 0 for None
  sel,        \* the goal selected in this round, 0 for None
  made,       \* last_context, last_plan, last_execution: of which round
  questPlan,  \* the goal last_quest_plan is for, 0 for None
  validation, \* quest_plan_validation
  announced,  \* history: the goal of the last GOAL_CHANGED on the bus
  missed      \* history: a GOAL_CHANGED after that was lost

vars == <<loop, pc, err, outcome, room, attempt, goal, active, sel, made,
          questPlan, validation, announced, missed>>

Made == {"context", "plan", "execution"}

\* _TRANSITION_TABLE: from which states each state may be entered.
EnteredFrom ==
  [OBSERVING |-> {"IDLE"}, CONTEXT_READY |-> {"OBSERVING"},
   PLANNING |-> {"CONTEXT_READY"}, VALIDATING |-> {"PLANNING"},
   WAITING |-> {"VALIDATING"}, REFLECTING |-> {"WAITING"},
   IDLE |-> {"REFLECTING", "ERROR"},
   ERROR |-> {"OBSERVING", "CONTEXT_READY", "PLANNING", "VALIDATING",
              "WAITING", "REFLECTING"}]

Init ==
  /\ loop = "IDLE" /\ pc = "out" /\ err = FALSE /\ outcome = "none"
  /\ room = MaxRoom /\ attempt = 0
  /\ goal \in [Goal -> {"absent", "CREATED", "PAUSED"}]
  /\ active = 0 /\ sel = 0
  /\ made = [x \in Made |-> "none"]
  /\ questPlan = 0 /\ validation = "none"
  /\ announced = 0 /\ missed = FALSE

\* A stage that publishes up to n events: all of them, or up to the one that
\* finds the queue full.
Published(n) == room >= n /\ room' = room - n
Refused(n) == room < n /\ room' = 0

Raise == pc' = "handler"
Go(next) == pc' = next

-----------------------------------------------------------------------------
\* run_once is called; others have used the bus since the last call.
RunOnce ==
  /\ pc = "out"
  /\ pc' = "observe" /\ err' = FALSE /\ attempt' = 0 /\ sel' = 0
  /\ room' \in 0..MaxRoom
  /\ made' = [x \in Made |-> IF made[x] = "this" THEN "old" ELSE made[x]]
  /\ outcome' = "none"
  /\ UNCHANGED <<loop, goal, active, questPlan, validation, announced, missed>>

\* Up to CONTEXT_READY: the first event, the context builder, the second.
Observe ==
  /\ pc = "observe"
  /\ \/ loop \notin EnteredFrom.OBSERVING /\ Raise /\ UNCHANGED <<loop, room, made>>
     \/ /\ loop \in EnteredFrom.OBSERVING
        /\ \/ Refused(1) /\ loop' = "OBSERVING" /\ Raise /\ UNCHANGED made
           \/ Published(1) /\ loop' = "CONTEXT_READY" /\ Raise /\ UNCHANGED made
           \/ /\ room >= 1 /\ loop' = "CONTEXT_READY"
              /\ made' = [made EXCEPT !.context = "this"]
              /\ \/ Refused(2) /\ Raise
                 \/ Published(2) /\ Go("goals")
  /\ UNCHANGED <<err, outcome, attempt, goal, active, sel, questPlan, validation,
                 announced, missed>>

\* RuleBasedGoalSelector.  (A slip: every goal is eligible.)
EveryGoal == {g \in Goal : goal[g] # "absent"}
Eligible == {g \in Goal : goal[g] \in {"CREATED", "ACTIVE"}}

\* The selected goal is activated, then announced: GOAL_SELECTED always,
\* GOAL_CHANGED when it is not the goal that was active before.  (A slip: the
\* previous goal is asked for after the activation.)
ChangedFromItself(g) == FALSE
Changed(g) == active # g

Activate(g) ==
  /\ goal' = [goal EXCEPT ![g] = "ACTIVE"]
  /\ active' = g
  /\ sel' = g
  /\ LET n == IF Changed(g) THEN 2 ELSE 1
     IN  \/ Published(n) /\ (Go("quest") \/ Raise)
         \/ Refused(n) /\ Raise
  /\ announced' = IF Changed(g) /\ room >= 2 THEN g ELSE announced
  /\ missed' = IF Changed(g) THEN room < 2 ELSE missed

\* The provider may raise, and after the announcement the replay's write may.
SelectGoal ==
  /\ pc = "goals"
  /\ \/ /\ Eligible # {}
        /\ Activate(Min(Eligible))
     \/ /\ Eligible = {} /\ sel' = 0 /\ (Go("quest") \/ Raise)
        /\ UNCHANGED <<goal, active, room, announced, missed>>
     \/ Raise /\ UNCHANGED <<goal, active, sel, room, announced, missed>>
  /\ UNCHANGED <<loop, err, outcome, attempt, made, questPlan, validation>>

\* _run_quest_planning: a failure, a full bus among them, is recorded and
\* announced, and the round goes on unless that announcement is refused too.
\* (A slip: the previous round's verdict is not cleared.)
QuestUncleared ==
  /\ pc = "quest"
  /\ \/ /\ sel \notin QuestGoal /\ Go("plan")
        /\ UNCHANGED <<questPlan, validation, room>>
     \/ /\ sel \in QuestGoal /\ Published(2) /\ Go("plan")
        /\ questPlan' = sel /\ validation' = "ok"
  /\ UNCHANGED <<loop, err, outcome, attempt, goal, active, sel, made, announced, missed>>

PlanQuest ==
  /\ pc = "quest"
  /\ \/ /\ validation' = "none"
        /\ (sel \notin QuestGoal /\ Go("plan")) \/ Raise
        /\ UNCHANGED <<questPlan, room>>
     \/ /\ sel \in QuestGoal /\ Published(2)
        /\ questPlan' = sel /\ validation' = "ok"
        /\ Go("plan") \/ Raise
     \/ /\ sel \in QuestGoal
        /\ questPlan' = 0 /\ validation' = "failed"
        /\ \/ Published(1) /\ (Go("plan") \/ Raise)
           \/ Refused(1) /\ Raise
  /\ UNCHANGED <<loop, err, outcome, attempt, goal, active, sel, made, announced, missed>>

\* _plan_with_retry: one attempt.  (A slip: after the last retry the count
\* begins anew.)
RecountedAttempt == attempt' = (attempt + 1) % (RetryMax + 1)
FailedAttempt == attempt' = attempt + 1

Plan ==
  /\ pc = "plan"
  /\ \/ /\ FailedAttempt
        /\ IF attempt' > RetryMax THEN Raise ELSE Go("plan")
        /\ loop' = "PLANNING"
        /\ UNCHANGED <<room, made>>
     \/ Refused(1) /\ loop' = "PLANNING" /\ Raise /\ UNCHANGED <<made, attempt>>
     \/ /\ room >= 1 /\ loop' = "VALIDATING"
        /\ made' = [made EXCEPT !.plan = "this"]
        /\ \/ Refused(2) /\ Raise
           \/ Published(2) /\ Go("execute")
        /\ UNCHANGED attempt
  /\ UNCHANGED <<err, outcome, goal, active, sel, questPlan, validation, announced, missed>>

\* _run_execution: two events for every step, whether the gate blocks it, the
\* executor runs it or the executor fails; the results are kept at the end.
Execute ==
  /\ pc = "execute"
  /\ \E steps \in 0..MaxSteps :
       \/ /\ Published(2 * steps) /\ (Go("finish") \/ Raise)
          /\ made' = [made EXCEPT !.execution = IF steps = 0 THEN "none" ELSE "this"]
       \/ Refused(2 * steps) /\ Raise /\ UNCHANGED made
  /\ UNCHANGED <<loop, err, outcome, attempt, goal, active, sel, questPlan, validation,
                 announced, missed>>

\* WAITING, REFLECTING, IDLE; then the replay, whose write may raise.
Finish ==
  /\ pc = "finish"
  /\ loop' = "IDLE"
  /\ \/ pc' = "out" /\ outcome' = "returned"
     \/ Raise /\ UNCHANGED outcome
  /\ UNCHANGED <<err, room, attempt, goal, active, sel, made, questPlan, validation,
                 announced, missed>>

\* The except clause.  From IDLE its own transition is illegal and raises, so
\* the error is neither kept nor published.  (A slip: it keeps the error
\* before the transition.)
HandlerKeepsFirst ==
  /\ pc = "handler"
  /\ pc' = "out" /\ outcome' = "raised" /\ err' = TRUE
  /\ loop' = IF loop \in EnteredFrom.ERROR THEN "ERROR" ELSE loop
  /\ room' = IF room > 0 THEN room - 1 ELSE room
  /\ UNCHANGED <<attempt, goal, active, sel, made, questPlan, validation, announced, missed>>

Handler ==
  /\ pc = "handler"
  /\ pc' = "out" /\ outcome' = "raised"
  /\ IF loop \in EnteredFrom.ERROR \cup {"ERROR"}
     THEN /\ loop' = "ERROR" /\ err' = TRUE
          /\ room' = IF room > 0 THEN room - 1 ELSE room
     ELSE UNCHANGED <<loop, err, room>>
  /\ UNCHANGED <<attempt, goal, active, sel, made, questPlan, validation, announced, missed>>

-----------------------------------------------------------------------------
ResetLoop ==
  /\ pc = "out" /\ loop \in EnteredFrom.IDLE
  /\ loop' = "IDLE" /\ err' = FALSE
  /\ UNCHANGED <<pc, outcome, room, attempt, goal, active, sel, made, questPlan,
                 validation, announced, missed>>

\* mark_goal_completed: the status is saved whether or not the bus takes the
\* event.
MarkGoalCompleted(g) ==
  /\ pc = "out" /\ active = g /\ goal[g] = "ACTIVE"
  /\ goal' = [goal EXCEPT ![g] = "COMPLETED"]
  /\ room' \in 0..MaxRoom
  /\ UNCHANGED <<loop, pc, err, outcome, attempt, active, sel, made, questPlan,
                 validation, announced, missed>>

\* The provider is given a new goal, which may rank before the active one.
NewGoal(g) ==
  /\ pc = "out" /\ goal[g] = "absent"
  /\ goal' = [goal EXCEPT ![g] = "CREATED"]
  /\ UNCHANGED <<loop, pc, err, outcome, room, attempt, active, sel, made, questPlan,
                 validation, announced, missed>>

Round == Observe \/ SelectGoal \/ PlanQuest \/ Plan \/ Execute \/ Finish \/ Handler

Next ==
  \/ RunOnce \/ Round \/ ResetLoop
  \/ \E g \in Goal : MarkGoalCompleted(g) \/ NewGoal(g)

\* A call runs on; nobody has to call.
Spec == Init /\ [][Next]_vars /\ WF_vars(Round)

-----------------------------------------------------------------------------
TypeOK ==
  /\ loop \in DOMAIN EnteredFrom
  /\ pc \in {"out", "observe", "goals", "quest", "plan", "execute", "finish", "handler"}
  /\ err \in BOOLEAN /\ outcome \in {"none", "returned", "raised"}
  /\ room \in 0..MaxRoom /\ attempt \in 0..(RetryMax + 1)
  /\ goal \in [Goal -> {"absent", "CREATED", "ACTIVE", "PAUSED", "COMPLETED"}]
  /\ {active, sel, announced} \subseteq Goal \cup {0}
  /\ questPlan \in QuestGoal \cup {0}
  /\ made \in [Made -> {"none", "old", "this"}]
  /\ validation \in {"none", "ok", "failed"} /\ missed \in BOOLEAN

\* Wherever a call failed, the loop is left in IDLE or ERROR, never between,
\* and it is in ERROR exactly when last_error says why (run_once, reset).
Settled == pc = "out" => loop \in {"IDLE", "ERROR"} /\ (loop = "ERROR" <=> err)

\* A round that returns leaves results of that round: context and plan, no
\* execution of an earlier round's plan, and a quest plan marked valid only if
\* it is for the goal just selected, although all survive from round to round.
ReturnedIsCoherent ==
  outcome = "returned" =>
    /\ made.context = "this" /\ made.plan = "this" /\ made.execution # "old"
    /\ validation = "ok" => sel # 0 /\ questPlan = sel

\* Whoever follows GOAL_CHANGED knows the active goal, except from a refused
\* event to the next change (the loop compares with the goal of the round
\* before, so it does not announce a second time).
ChangesAnnounced == announced = active \/ missed

\* A goal goes from CREATED through ACTIVE to COMPLETED, only the active goal
\* is completed, and no later round takes it up again.
GoalLifeCycle ==
  [][\A g \in Goal : goal'[g] # goal[g] =>
       \/ <<goal[g], goal'[g]>> \in {<<"absent", "CREATED">>, <<"CREATED", "ACTIVE">>}
       \/ goal[g] = "ACTIVE" /\ goal'[g] = "COMPLETED" /\ active = g]_vars

\* Every call of run_once ends, even if the planner never succeeds.
CallReturns == pc # "out" ~> pc = "out"
=============================================================================
