----------------------------- MODULE LoopProofs -----------------------------
(***************************************************************************)
(* Theorems of AgentLoop for every set of goals, every number of retries   *)
(* and every room on the bus.  The inductive invariant says what a round   *)
(* has established by the time it comes to each of its stages: the state   *)
(* of the loop, no error yet, the results of this round, and a quest plan  *)
(* that is either not marked valid or for the goal selected.  And theorems *)
(* of CompanionRuntime, whose names are none of the loop's, for every      *)
(* knowledge of the game, every sequence of observations and all their     *)
(* delays: what is told is what the whole history says at that time.       *)
(***************************************************************************)
EXTENDS AgentLoop, CompanionRuntime, FiniteSetTheorems, SequenceTheorems, WellFoundedInduction,
        TLAPS

\* The state of the loop at each stage; the handler may find it in any.
StateAt ==
  /\ pc = "observe" => loop \in {"IDLE", "ERROR"}
  /\ pc \in {"goals", "quest"} => loop = "CONTEXT_READY"
  /\ pc = "plan" => loop \in {"CONTEXT_READY", "PLANNING"}
  /\ pc \in {"execute", "finish"} => loop = "VALIDATING"

\* Within a call nothing has been reported yet, neither an error nor an end.
NothingReported == pc # "out" => ~err /\ outcome = "none"

\* The retries are counted from the beginning of the round.
Counted ==
  /\ pc \in {"observe", "goals", "quest"} => attempt = 0
  /\ pc = "plan" => attempt <= RetryMax

\* Results of this round, stage by stage.
Fresh ==
  /\ pc \in {"goals", "quest", "plan", "execute", "finish"} => made.context = "this"
  /\ pc \in {"execute", "finish"} => made.plan = "this"
  /\ pc = "finish" => made.execution # "old"

\* From the end of quest planning on, a plan marked valid is for this goal.
QuestOfGoal ==
  pc \in {"plan", "execute", "finish"} =>
    (validation = "ok" => sel # 0 /\ questPlan = sel)

IInv ==
  /\ TypeOK
  /\ StateAt
  /\ NothingReported
  /\ Counted
  /\ Fresh
  /\ QuestOfGoal
  /\ Settled
  /\ ReturnedIsCoherent
  /\ ChangesAnnounced

-----------------------------------------------------------------------------
\* The goal the selector prefers is one of those it chooses from: every
\* nonempty set of numbers has a least one.
LEMMA LeastIsMember ==
  ASSUME NEW S \in SUBSET Nat, S # {}
  PROVE  Min(S) \in S
  <1> DEFINE R == OpToRel(<, Nat)
  <1>1. R = {ss \in Nat \X Nat : ss[1] < ss[2]}
    BY DEF OpToRel
  <1>2. IsWellFoundedOn(R, Nat)
    BY NatLessThanWellFounded
  <1> HIDE DEF R
  <1>3. PICK x \in S : \A y \in S : <<y, x>> \notin R
    BY <1>2, WFMin
  <1>4. \A y \in S : x <= y
    <2> TAKE y \in S
    <2>1. x \in Nat /\ y \in Nat
      OBVIOUS
    <2>2. y < x => <<y, x>> \in R
      BY <1>1, <2>1
    <2> QED BY <1>3, <2>1, <2>2
  <1> QED
    BY <1>4 DEF Min

\* The goal that is selected is one that may be taken up.
LEMMA SelectedIsEligible ==
  ASSUME Eligible # {}
  PROVE  Min(Eligible) \in Goal /\ goal[Min(Eligible)] \in {"CREATED", "ACTIVE"}
  <1>1. Eligible \in SUBSET Nat
    BY LoopAssumption DEF Eligible
  <1>2. Min(Eligible) \in Eligible
    BY <1>1, LeastIsMember
  <1> QED
    BY <1>2 DEF Eligible

\* Publications leave the room within its bounds.
LEMMA RoomKept ==
  ASSUME room \in 0..MaxRoom, NEW n \in Nat, Published(n) \/ Refused(n)
  PROVE  room' \in 0..MaxRoom
  BY LoopAssumption DEF Published, Refused

-----------------------------------------------------------------------------
\* At first the loop is IDLE and has done nothing: the invariant holds.
THEOREM LoopInit == Init => IInv
  <1> SUFFICES ASSUME Init PROVE IInv
    OBVIOUS
  <1>1. TypeOK
    <2>1. room \in 0..MaxRoom /\ attempt \in 0..(RetryMax + 1)
      BY LoopAssumption DEF Init
    <2>2. goal \in [Goal -> {"absent", "CREATED", "ACTIVE", "PAUSED", "COMPLETED"}]
      BY DEF Init
    <2>3. made \in [Made -> {"none", "old", "this"}]
      BY DEF Init
    <2>4. loop \in DOMAIN EnteredFrom /\ err \in BOOLEAN /\ missed \in BOOLEAN
      BY DEF Init, EnteredFrom
    <2> QED BY <2>1, <2>2, <2>3, <2>4 DEF Init, TypeOK
  <1> QED
    BY <1>1
    DEF Init, IInv, StateAt, NothingReported, Counted, Fresh, QuestOfGoal, Settled,
        ReturnedIsCoherent, ChangesAnnounced

\* The beginning of a round keeps the invariant;
LEMMA RunOnceStep ==
  ASSUME IInv, RunOnce PROVE IInv'
  <1> USE DEF IInv
  <1>1. made' \in [Made -> {"none", "old", "this"}]
    BY DEF RunOnce, TypeOK
  <1>2. room' \in 0..MaxRoom /\ attempt' \in 0..(RetryMax + 1)
    BY LoopAssumption DEF RunOnce
  <1>3. err' \in BOOLEAN
    BY DEF RunOnce
  <1>4. TypeOK'
    BY <1>1, <1>2, <1>3 DEF RunOnce, TypeOK
  <1> QED
    BY <1>4, LoopAssumption
    DEF RunOnce, StateAt, NothingReported, Counted, Fresh, QuestOfGoal, Settled,
        ReturnedIsCoherent, ChangesAnnounced

\* so do the context,
LEMMA ObserveStep ==
  ASSUME IInv, Observe PROVE IInv'
  <1> USE DEF IInv
  <1>1. /\ made' \in [Made -> {"none", "old", "this"}]
        /\ pc' = "goals" => made'.context = "this"
    BY DEF Observe, TypeOK, Made, Raise, Go
  <1>2. room' \in 0..MaxRoom
    BY RoomKept DEF Observe, TypeOK
  <1>3. loop' \in DOMAIN EnteredFrom
    BY DEF Observe, TypeOK, EnteredFrom
  <1>4. TypeOK'
    BY <1>1, <1>2, <1>3 DEF Observe, TypeOK, Raise, Go
  <1> QED
    BY <1>1, <1>4
    DEF Observe, Raise, Go, StateAt, NothingReported, Counted, Fresh, QuestOfGoal, Settled,
        ReturnedIsCoherent, ChangesAnnounced

\* the activation of a goal, announced or not,
LEMMA ActivateStep ==
  ASSUME IInv, pc = "goals", NEW g \in Goal, Activate(g),
         UNCHANGED <<loop, err, outcome, attempt, made, questPlan, validation>>
  PROVE  IInv'
  <1> USE DEF IInv
  <1>1. goal' \in [Goal -> {"absent", "CREATED", "ACTIVE", "PAUSED", "COMPLETED"}]
    BY DEF Activate, TypeOK
  <1>2. room' \in 0..MaxRoom
    BY RoomKept DEF Activate, TypeOK
  <1>3. pc' \in {"quest", "handler"}
    BY DEF Activate, Raise, Go
  <1>4. missed' \in BOOLEAN /\ announced' \in Goal \cup {0} /\ ChangesAnnounced'
    <2>1. CASE active = g
      BY <2>1 DEF Activate, Changed, TypeOK, ChangesAnnounced
    <2>2. CASE active # g /\ room >= 2
      BY <2>2 DEF Activate, Changed, TypeOK, ChangesAnnounced
    <2>3. CASE active # g /\ ~(room >= 2)
      <3>1. room < 2
        BY <2>3 DEF TypeOK
      <3>2. missed' = TRUE /\ announced' = announced
        BY <2>3, <3>1, Zenon DEF Activate, Changed
      <3> QED BY <3>2 DEF TypeOK, ChangesAnnounced
    <2> QED BY <2>1, <2>2, <2>3
  <1>5. TypeOK'
    BY <1>1, <1>2, <1>3, <1>4 DEF Activate, TypeOK
  <1> QED
    BY <1>3, <1>4, <1>5
    DEF StateAt, NothingReported, Counted, Fresh, QuestOfGoal, Settled, ReturnedIsCoherent

\* its selection,
LEMMA SelectGoalStep ==
  ASSUME IInv, SelectGoal PROVE IInv'
  <1>1. CASE Eligible # {} /\ Activate(Min(Eligible))
    BY <1>1, SelectedIsEligible, ActivateStep DEF SelectGoal
  <1>2. CASE ~(Eligible # {} /\ Activate(Min(Eligible)))
    <2>1. /\ pc' \in {"quest", "handler"} /\ sel' \in {0, sel}
          /\ UNCHANGED <<goal, active, room, announced, missed, loop, err, outcome, attempt,
                         made, questPlan, validation>>
      BY <1>2 DEF SelectGoal, Raise, Go
    <2> QED
      BY <1>2, <2>1
      DEF SelectGoal, IInv, TypeOK, StateAt, NothingReported, Counted, Fresh, QuestOfGoal,
          Settled, ReturnedIsCoherent, ChangesAnnounced
  <1> QED
    BY <1>1, <1>2

\* the quest plan,
LEMMA PlanQuestStep ==
  ASSUME IInv, PlanQuest PROVE IInv'
  <1> USE DEF IInv
  <1>1. room' \in 0..MaxRoom
    BY RoomKept DEF PlanQuest, TypeOK
  <1>2. pc' \in {"plan", "handler"}
    BY DEF PlanQuest, Raise, Go
  <1>3. /\ questPlan' \in QuestGoal \cup {0} /\ validation' \in {"none", "ok", "failed"}
        /\ validation' = "ok" => sel # 0 /\ questPlan' = sel
    BY LoopAssumption DEF PlanQuest, TypeOK
  <1>4. TypeOK'
    BY <1>1, <1>2, <1>3 DEF PlanQuest, TypeOK
  <1>5. Counted'
    BY <1>2, LoopAssumption DEF PlanQuest, Counted
  <1> QED
    BY <1>2, <1>3, <1>4, <1>5
    DEF PlanQuest, StateAt, NothingReported, Fresh, QuestOfGoal, Settled,
        ReturnedIsCoherent, ChangesAnnounced

\* the plan and its validation,
LEMMA PlanStep ==
  ASSUME IInv, Plan PROVE IInv'
  <1> USE DEF IInv
  <1>1. room' \in 0..MaxRoom
    BY RoomKept DEF Plan, TypeOK
  <1>2. /\ attempt' \in 0..(RetryMax + 1)
        /\ pc' = "plan" => attempt' <= RetryMax /\ loop' = "PLANNING"
        /\ pc' = "execute" => loop' = "VALIDATING" /\ made'.plan = "this"
        /\ pc' \in {"plan", "execute", "handler"}
    BY LoopAssumption DEF Plan, FailedAttempt, TypeOK, Counted, Made, Raise, Go
  <1>3. made' \in [Made -> {"none", "old", "this"}] /\ made'.context = made.context
    BY DEF Plan, TypeOK, Made
  <1>4. loop' \in DOMAIN EnteredFrom
    BY DEF Plan, EnteredFrom
  <1>5. TypeOK'
    BY <1>1, <1>2, <1>3, <1>4 DEF Plan, TypeOK
  <1> QED
    BY <1>2, <1>3, <1>5
    DEF Plan, StateAt, NothingReported, Counted, Fresh, QuestOfGoal, Settled,
        ReturnedIsCoherent, ChangesAnnounced

\* its execution with retries,
LEMMA ExecuteStep ==
  ASSUME IInv, Execute PROVE IInv'
  <1> USE DEF IInv
  <1>1. PICK steps \in 0..MaxSteps :
          \/ /\ Published(2 * steps) /\ (Go("finish") \/ Raise)
             /\ made' = [made EXCEPT !.execution = IF steps = 0 THEN "none" ELSE "this"]
          \/ Refused(2 * steps) /\ Raise /\ UNCHANGED made
    BY DEF Execute
  <1>2. 2 * steps \in Nat
    BY LoopAssumption
  <1>3. room' \in 0..MaxRoom
    BY <1>1, <1>2, RoomKept DEF TypeOK
  <1>4. /\ made' \in [Made -> {"none", "old", "this"}] /\ made'.context = made.context
        /\ made'.plan = made.plan /\ pc' \in {"finish", "handler"}
        /\ pc' = "finish" => made'.execution # "old"
    BY <1>1 DEF TypeOK, Made, Raise, Go
  <1>5. TypeOK'
    BY <1>3, <1>4 DEF Execute, TypeOK
  <1> QED
    BY <1>4, <1>5
    DEF Execute, StateAt, NothingReported, Counted, Fresh, QuestOfGoal, Settled,
        ReturnedIsCoherent, ChangesAnnounced

\* the end of the round,
LEMMA FinishStep ==
  ASSUME IInv, Finish PROVE IInv'
  <1>1. loop' \in DOMAIN EnteredFrom
    BY DEF Finish, EnteredFrom
  <1> QED
    BY <1>1
    DEF Finish, Raise, IInv, TypeOK, StateAt, NothingReported, Counted, Fresh, QuestOfGoal,
        Settled, ReturnedIsCoherent, ChangesAnnounced

\* Every state but IDLE may pass to ERROR.
LEMMA HandlerStep ==
  ASSUME IInv, Handler PROVE IInv'
  <1> USE DEF IInv
  <1>1. loop' \in {"IDLE", "ERROR"} /\ (loop' = "ERROR" <=> err') /\ err' \in BOOLEAN
    <2>1. err = FALSE
      BY DEF Handler, NothingReported, TypeOK
    <2>2. CASE loop = "IDLE"
      BY <2>1, <2>2 DEF Handler, EnteredFrom
    <2>3. CASE loop # "IDLE"
      BY <2>1, <2>3 DEF Handler, TypeOK, EnteredFrom
    <2> QED BY <2>2, <2>3
  <1>2. room' \in 0..MaxRoom
    BY LoopAssumption DEF Handler, TypeOK
  <1>3. loop' \in DOMAIN EnteredFrom
    BY <1>1 DEF EnteredFrom
  <1>4. TypeOK'
    BY <1>1, <1>2, <1>3 DEF Handler, TypeOK
  <1> QED
    BY <1>1, <1>4
    DEF Handler, StateAt, NothingReported, Counted, Fresh, QuestOfGoal, Settled,
        ReturnedIsCoherent, ChangesAnnounced

\* a reset,
LEMMA ResetStep ==
  ASSUME IInv, ResetLoop PROVE IInv'
  <1>1. loop' \in DOMAIN EnteredFrom /\ err' \in BOOLEAN
    BY DEF ResetLoop, EnteredFrom
  <1> QED
    BY <1>1
    DEF ResetLoop, IInv, TypeOK, StateAt, NothingReported, Counted, Fresh, QuestOfGoal,
        Settled, ReturnedIsCoherent, ChangesAnnounced

\* and goals that come or are completed meanwhile.
LEMMA GoalsStep ==
  ASSUME IInv, NEW g \in Goal, MarkGoalCompleted(g) \/ NewGoal(g) PROVE IInv'
  <1>1. goal' \in [Goal -> {"absent", "CREATED", "ACTIVE", "PAUSED", "COMPLETED"}]
    BY DEF MarkGoalCompleted, NewGoal, IInv, TypeOK
  <1> QED
    BY <1>1
    DEF MarkGoalCompleted, NewGoal, IInv, TypeOK, StateAt, NothingReported, Counted, Fresh,
        QuestOfGoal, Settled, ReturnedIsCoherent, ChangesAnnounced

\* Together: every step.
LEMMA LoopStep == IInv /\ [Next]_vars => IInv'
  <1> SUFFICES ASSUME IInv, [Next]_vars PROVE IInv'
    OBVIOUS
  <1>1. CASE RunOnce
    BY <1>1, RunOnceStep
  <1>2. CASE Round
    BY <1>2, ObserveStep, SelectGoalStep, PlanQuestStep, PlanStep, ExecuteStep, FinishStep,
       HandlerStep DEF Round
  <1>3. CASE ResetLoop
    BY <1>3, ResetStep
  <1>4. CASE \E g \in Goal : MarkGoalCompleted(g) \/ NewGoal(g)
    BY <1>4, GoalsStep
  <1>5. CASE UNCHANGED vars
    BY <1>5
    DEF vars, IInv, TypeOK, StateAt, NothingReported, Counted, Fresh, QuestOfGoal, Settled,
        ReturnedIsCoherent, ChangesAnnounced
  <1> QED
    BY <1>1, <1>2, <1>3, <1>4, <1>5 DEF Next

-----------------------------------------------------------------------------
(* The inductive invariant of the round, stage by stage.                    *)
THEOREM LoopInvariance == Spec => []IInv
  <1> QED BY LoopInit, LoopStep, PTL DEF Spec

(* Type correctness: the planner is never tried more than retry_max + 1     *)
(* times, and what is kept of goals and plans is of the goals there are.    *)
THEOREM LoopTypes == Spec => []TypeOK
  <1>1. IInv => TypeOK BY DEF IInv
  <1> QED BY <1>1, LoopInvariance, PTL

(* After every call, however it failed, the loop is in IDLE or ERROR, and   *)
(* in ERROR exactly when the error is kept (agent/loop.py, run_once).       *)
THEOREM LoopSettles == Spec => []Settled
  <1>1. IInv => Settled BY DEF IInv
  <1> QED BY <1>1, LoopInvariance, PTL

(* A round that returns left results of that round, whatever earlier        *)
(* rounds left behind (agent/loop.py, last_context to last_quest_plan).     *)
THEOREM ReturnsCoherent == Spec => []ReturnedIsCoherent
  <1>1. IInv => ReturnedIsCoherent BY DEF IInv
  <1> QED BY <1>1, LoopInvariance, PTL

(* Only a refused GOAL_CHANGED keeps its followers from the active goal     *)
(* (agent/loop.py, _select_goal).                                           *)
THEOREM ChangesAreAnnounced == Spec => []ChangesAnnounced
  <1>1. IInv => ChangesAnnounced BY DEF IInv
  <1> QED BY <1>1, LoopInvariance, PTL

\* What a step may do to the status of one goal.
LifeOf(g) ==
  goal'[g] # goal[g] =>
    \/ <<goal[g], goal'[g]>> \in {<<"absent", "CREATED">>, <<"CREATED", "ACTIVE">>}
    \/ goal[g] = "ACTIVE" /\ goal'[g] = "COMPLETED" /\ active = g

\* Every step moves a goal along its life cycle or leaves it.
LEMMA LifeStep ==
  ASSUME IInv, [Next]_vars, NEW g \in Goal
  PROVE  LifeOf(g)
  <1>1. goal \in [Goal -> {"absent", "CREATED", "ACTIVE", "PAUSED", "COMPLETED"}]
    BY DEF IInv, TypeOK
  <1>2. CASE UNCHANGED goal
    BY <1>2 DEF LifeOf
  <1>3. CASE SelectGoal /\ Eligible # {} /\ Activate(Min(Eligible))
    BY <1>1, <1>3, SelectedIsEligible DEF Activate, LifeOf
  <1>4. CASE \E h \in Goal : MarkGoalCompleted(h) \/ NewGoal(h)
    BY <1>1, <1>4 DEF MarkGoalCompleted, NewGoal, LifeOf
  <1>5. \/ UNCHANGED goal
        \/ SelectGoal /\ Eligible # {} /\ Activate(Min(Eligible))
        \/ \E h \in Goal : MarkGoalCompleted(h) \/ NewGoal(h)
    BY DEF Next, vars, RunOnce, Round, ResetLoop, Observe, SelectGoal, PlanQuest, Plan,
           Execute, Finish, Handler
  <1> QED
    BY <1>2, <1>3, <1>4, <1>5

(* A goal's life has one direction: no round takes up a completed goal      *)
(* again, and only the active one is completed (goal/, agent/loop.py).      *)
THEOREM GoalsLiveOnce == Spec => GoalLifeCycle
  <1>1. IInv /\ [Next]_vars => [\A g \in Goal : LifeOf(g)]_vars
    BY LifeStep
  <1>2. [\A g \in Goal : LifeOf(g)]_vars <=>
        [\A g \in Goal : goal'[g] # goal[g] =>
           \/ <<goal[g], goal'[g]>> \in {<<"absent", "CREATED">>, <<"CREATED", "ACTIVE">>}
           \/ goal[g] = "ACTIVE" /\ goal'[g] = "COMPLETED" /\ active = g]_vars
    BY DEF LifeOf
  <1> QED
    BY <1>1, <1>2, LoopInvariance, PTL DEF Spec, GoalLifeCycle

-----------------------------------------------------------------------------
\* A set of numbers that has zero and with each its successor has them all.
LEMMA SetInduction ==
  ASSUME NEW T \in SUBSET Nat, 0 \in T, \A n \in T : n + 1 \in T
  PROVE  T = Nat
  <1> DEFINE R == OpToRel(<, Nat)
  <1>1. R = {ss \in Nat \X Nat : ss[1] < ss[2]}
    BY DEF OpToRel
  <1>2. IsWellFoundedOn(R, Nat)
    BY NatLessThanWellFounded
  <1> HIDE DEF R
  <1> SUFFICES ASSUME Nat \ T # {} PROVE FALSE
    OBVIOUS
  <1>3. PICK x \in Nat \ T : \A y \in Nat \ T : <<y, x>> \notin R
    BY <1>2, WFMin
  <1>4. x # 0 /\ x - 1 \in Nat /\ x - 1 < x
    OBVIOUS
  <1>5. x - 1 \in T
    <2>1. <<x - 1, x>> \in R
      BY <1>1, <1>4
    <2> QED BY <1>3, <1>4, <2>1
  <1> QED
    BY <1>4, <1>5

\* R is a total order of D, as a set of pairs.
TotalOrder(D, R) ==
  /\ \A x, y \in D : <<x, y>> \in R \/ <<y, x>> \in R
  /\ \A x, y, z \in D : <<x, y>> \in R /\ <<y, z>> \in R => <<x, z>> \in R

\* A finite set that is not empty has a greatest element under a total order.
LEMMA GreatestExists ==
  ASSUME NEW D, NEW R, TotalOrder(D, R), NEW S \in SUBSET D, IsFiniteSet(S), S # {}
  PROVE  \E m \in S : \A x \in S : <<x, m>> \in R
<1> DEFINE Has(U) == \E m \in U : \A x \in U : <<x, m>> \in R
           T == {n \in Nat : \A U \in SUBSET D : IsFiniteSet(U) /\ Cardinality(U) = n + 1 => Has(U)}
<1>0. /\ \A x, y \in D : <<x, y>> \in R \/ <<y, x>> \in R
      /\ \A x, y, z \in D : <<x, y>> \in R /\ <<y, z>> \in R => <<x, z>> \in R
  BY DEF TotalOrder
<1>1. 0 \in T
  <2> SUFFICES ASSUME NEW U \in SUBSET D, IsFiniteSet(U), Cardinality(U) = 1 PROVE Has(U)
    OBVIOUS
  <2>1. PICK x : U = {x} BY FS_Singleton
  <2> QED BY <1>0, <2>1
<1>2. ASSUME NEW n \in T PROVE n + 1 \in T
  <2> SUFFICES ASSUME NEW U \in SUBSET D, IsFiniteSet(U), Cardinality(U) = n + 2 PROVE Has(U)
    OBVIOUS
  <2>1. U # {} BY FS_EmptySet
  <2>2. PICK x : x \in U BY <2>1
  <2>3. IsFiniteSet(U \ {x}) /\ Cardinality(U \ {x}) = n + 1 BY <2>2, FS_RemoveElement
  <2>4. U \ {x} \in SUBSET D OBVIOUS
  <2>5. Has(U \ {x}) BY <1>2, <2>3, <2>4
  <2>6. PICK m \in U \ {x} : \A y \in U \ {x} : <<y, m>> \in R BY <2>5
  <2>7. x \in D /\ m \in D BY <2>2
  <2>8. CASE <<x, m>> \in R BY <1>0, <2>6, <2>7, <2>8
  <2>9. CASE <<m, x>> \in R
    <3>1. \A y \in U : <<y, x>> \in R BY <1>0, <2>6, <2>7, <2>9
    <3> QED BY <2>2, <3>1
  <2> QED BY <1>0, <2>7, <2>8, <2>9
<1>3. T = Nat
  <2>1. T \in SUBSET Nat OBVIOUS
  <2> HIDE DEF T
  <2> QED BY <1>1, <1>2, <2>1, SetInduction
<1>4. Cardinality(S) \in Nat /\ Cardinality(S) # 0 BY FS_CardinalityType, FS_EmptySet
<1>5. Cardinality(S) - 1 \in T BY <1>3, <1>4
<1>6. Has(S) BY <1>4, <1>5
<1> QED BY <1>6

\* MinOf of a finite set of numbers is the least of them, and Max the greatest.
LEMMA MinIsLeast ==
  ASSUME NEW S \in SUBSET Int, IsFiniteSet(S), S # {}
  PROVE  MinOf(S) \in S /\ MinOf(S) \in Int /\ \A x \in S : MinOf(S) <= x
<1> DEFINE R == {p \in Int \X Int : p[1] >= p[2]}
<1>1. \A x, y \in Int : <<x, y>> \in R <=> x >= y OBVIOUS
<1>2. TotalOrder(Int, R)
  <2>1. \A x, y \in Int : <<x, y>> \in R \/ <<y, x>> \in R OBVIOUS
  <2>2. ASSUME NEW x \in Int, NEW y \in Int, NEW z \in Int, <<x, y>> \in R, <<y, z>> \in R
        PROVE  <<x, z>> \in R
    BY <2>2
  <2> QED BY <2>1, <2>2 DEF TotalOrder
<1> HIDE DEF R
<1>4. \E m \in S : \A x \in S : <<x, m>> \in R BY <1>2, GreatestExists, Zenon
<1>5. \E m \in S : \A x \in S : m <= x BY <1>1, <1>4
<1> QED BY <1>5 DEF MinOf

\* And Max is the greatest of them.
LEMMA MaxIsGreatest ==
  ASSUME NEW S \in SUBSET Int, IsFiniteSet(S), S # {}
  PROVE  Max(S) \in S /\ Max(S) \in Int /\ \A x \in S : Max(S) >= x
<1> DEFINE R == {p \in Int \X Int : p[1] <= p[2]}
<1>1. \A x, y \in Int : <<x, y>> \in R <=> x <= y OBVIOUS
<1>2. TotalOrder(Int, R)
  <2>1. \A x, y \in Int : <<x, y>> \in R \/ <<y, x>> \in R OBVIOUS
  <2>2. ASSUME NEW x \in Int, NEW y \in Int, NEW z \in Int, <<x, y>> \in R, <<y, z>> \in R
        PROVE  <<x, z>> \in R
    BY <2>2
  <2> QED BY <2>1, <2>2 DEF TotalOrder
<1> HIDE DEF R
<1>4. \E m \in S : \A x \in S : <<x, m>> \in R BY <1>2, GreatestExists, Zenon
<1>5. \E m \in S : \A x \in S : m >= x BY <1>1, <1>4
<1> QED BY <1>5 DEF Max

-----------------------------------------------------------------------------
\* The sum of a function on a finite set, by its subsets: zero of the empty one, and
\* of another a member's value and the sum of the rest.
Chosen(s) == CHOOSE x \in s : TRUE

\* The function FoldFunction chooses: every choice of the order gives one.
Summing(f, S, g) ==
  g = [s \in SUBSET S |-> IF s = {} THEN 0 ELSE f[Chosen(s)] + g[s \ {Chosen(s)}]]

\* The subsets of at most n members.
UpTo(S, n) == {s \in SUBSET S : IsFiniteSet(s) /\ Cardinality(s) <= n}

\* Without a chosen member a subset has one member fewer.
LEMMA OneLess ==
  ASSUME NEW S, NEW n \in Nat, NEW s \in UpTo(S, n + 1), s # {}
  PROVE  Chosen(s) \in s /\ s \ {Chosen(s)} \in UpTo(S, n)
<1>1. Chosen(s) \in s BY DEF Chosen
<1>2. IsFiniteSet(s) /\ Cardinality(s) \in Nat /\ Cardinality(s) <= n + 1
  BY FS_CardinalityType DEF UpTo
<1>3. IsFiniteSet(s \ {Chosen(s)}) /\ Cardinality(s \ {Chosen(s)}) = Cardinality(s) - 1
  BY <1>1, <1>2, FS_RemoveElement
<1> QED BY <1>1, <1>2, <1>3 DEF UpTo

\* There is such a function: it is built up by the number of members.
LEMMA SumsExist ==
  ASSUME NEW S, IsFiniteSet(S), NEW f
  PROVE  \E g : Summing(f, S, g)
<1> DEFINE body(g, s) == IF s = {} THEN 0 ELSE f[Chosen(s)] + g[s \ {Chosen(s)}]
           T == {n \in Nat : \E g : g = [s \in UpTo(S, n) |-> body(g, s)]}
<1>1. 0 \in T
  <2>1. \A s \in UpTo(S, 0) : s = {}
    <3> SUFFICES ASSUME NEW s \in UpTo(S, 0) PROVE s = {} OBVIOUS
    <3>1. IsFiniteSet(s) /\ Cardinality(s) \in Nat /\ Cardinality(s) <= 0
      BY FS_CardinalityType DEF UpTo
    <3> QED BY <3>1, FS_EmptySet
  <2> DEFINE z == [s \in UpTo(S, 0) |-> 0]
  <2>2. z = [s \in UpTo(S, 0) |-> body(z, s)] BY <2>1
  <2> HIDE DEF z, body
  <2> QED BY <2>2
<1>2. ASSUME NEW n \in T PROVE n + 1 \in T
  <2>1. PICK g : g = [s \in UpTo(S, n) |-> body(g, s)] OBVIOUS
  <2> DEFINE h == [s \in UpTo(S, n + 1) |-> body(g, s)]
  <2>2. ASSUME NEW s \in UpTo(S, n + 1) PROVE body(g, s) = body(h, s)
    <3>1. CASE s = {} BY <3>1
    <3>2. CASE s # {}
      <4>1. s \ {Chosen(s)} \in UpTo(S, n) BY <3>2, OneLess
      <4>2. s \ {Chosen(s)} \in UpTo(S, n + 1)
        <5>1. n \in Nat OBVIOUS
        <5> HIDE DEF T, h, body
        <5>2. IsFiniteSet(s \ {Chosen(s)}) /\ Cardinality(s \ {Chosen(s)}) <= n
              /\ s \ {Chosen(s)} \in SUBSET S
          BY <4>1 DEF UpTo
        <5>3. Cardinality(s \ {Chosen(s)}) \in Nat BY <5>2, FS_CardinalityType
        <5> QED BY <5>1, <5>2, <5>3 DEF UpTo
      <4>3. g[s \ {Chosen(s)}] = body(g, s \ {Chosen(s)})
        <5> HIDE DEF body
        <5> QED BY <2>1, <4>1
      <4>4. h[s \ {Chosen(s)}] = body(g, s \ {Chosen(s)})
        <5> HIDE DEF body
        <5> QED BY <4>2
      <4> HIDE DEF h
      <4> QED BY <3>2, <4>3, <4>4
    <3> QED BY <3>1, <3>2
  <2>3. h = [s \in UpTo(S, n + 1) |-> body(h, s)]
    <3> HIDE DEF body
    <3> QED BY <2>2
  <2> HIDE DEF h, body
  <2>4. \E k : k = [s \in UpTo(S, n + 1) |-> body(k, s)] BY <2>3
  <2>5. n + 1 \in Nat OBVIOUS
  <2> QED BY <2>4, <2>5, Zenon
<1>3. T = Nat
  <2>1. T \in SUBSET Nat OBVIOUS
  <2> HIDE DEF T
  <2> QED BY <1>1, <1>2, <2>1, SetInduction
<1>4. Cardinality(S) \in Nat BY FS_CardinalityType
<1>5. UpTo(S, Cardinality(S)) = SUBSET S BY FS_Subset DEF UpTo
<1>6. \E g : g = [s \in UpTo(S, Cardinality(S)) |-> body(g, s)] BY <1>3, <1>4
<1> QED BY <1>5, <1>6 DEF Summing

\* The sum of numbers is a number, of positive ones a positive one.
LEMMA SumsAreTyped ==
  ASSUME NEW S, IsFiniteSet(S), NEW f, \A x \in S : f[x] \in Int, NEW g, Summing(f, S, g)
  PROVE  /\ g[S] \in Int
         /\ (\A x \in S : f[x] > 0) /\ S # {} => g[S] > 0
<1> DEFINE T == {n \in Nat : \A s \in UpTo(S, n) :
                   /\ g[s] \in Int
                   /\ (\A x \in S : f[x] > 0) => g[s] >= 0 /\ (s # {} => g[s] > 0)}
<1>1. 0 \in T
  <2> SUFFICES ASSUME NEW s \in UpTo(S, 0) PROVE g[s] = 0 /\ s = {} OBVIOUS
  <2>1. IsFiniteSet(s) /\ Cardinality(s) \in Nat /\ Cardinality(s) <= 0
    BY FS_CardinalityType DEF UpTo
  <2>2. s = {} BY <2>1, FS_EmptySet
  <2> QED BY <2>2 DEF Summing
<1>2. ASSUME NEW n \in T PROVE n + 1 \in T
  <2> SUFFICES ASSUME NEW s \in UpTo(S, n + 1)
               PROVE  /\ g[s] \in Int
                      /\ (\A x \in S : f[x] > 0) => g[s] >= 0 /\ (s # {} => g[s] > 0)
    OBVIOUS
  <2>1. s \in SUBSET S BY DEF UpTo
  <2>2. CASE s = {} BY <2>1, <2>2 DEF Summing
  <2>3. CASE s # {}
    <3>1. Chosen(s) \in s /\ s \ {Chosen(s)} \in UpTo(S, n) BY <2>3, OneLess
    <3>2. g[s] = f[Chosen(s)] + g[s \ {Chosen(s)}] BY <2>1, <2>3 DEF Summing
    <3>3. /\ g[s \ {Chosen(s)}] \in Int
          /\ (\A x \in S : f[x] > 0) => g[s \ {Chosen(s)}] >= 0
      BY <3>1
    <3>4. f[Chosen(s)] \in Int /\ Chosen(s) \in S BY <2>1, <3>1
    <3> QED BY <3>2, <3>3, <3>4
  <2> QED BY <2>2, <2>3
<1>3. T = Nat
  <2>1. T \in SUBSET Nat OBVIOUS
  <2> HIDE DEF T
  <2> QED BY <1>1, <1>2, <2>1, SetInduction
<1>4. Cardinality(S) \in Nat BY FS_CardinalityType
<1>5. S \in UpTo(S, Cardinality(S)) BY <1>4 DEF UpTo
<1> QED BY <1>3, <1>4, <1>5

\* And so is what SumFunction gives.
LEMMA SumIsNumber ==
  ASSUME NEW S, IsFiniteSet(S), NEW f, DOMAIN f = S, \A x \in S : f[x] \in Int
  PROVE  /\ SumFunction(f) \in Int
         /\ (\A x \in S : f[x] > 0) /\ S # {} => SumFunction(f) > 0
<1> DEFINE g == CHOOSE g : Summing(f, S, g)
<1>1. Summing(f, S, g) BY SumsExist
<1>2. SumFunction(f) = g[S]
  BY DEF SumFunction, SumFunctionOnSet, FoldFunctionOnSet, MapThenFoldSet, Summing, Chosen
<1> HIDE DEF g
<1> QED BY <1>1, <1>2, SumsAreTyped

-----------------------------------------------------------------------------
\* What the three adapters make of what they are given.
Given ==
  {[evidence |-> e, status |-> NoStatus] : e \in Inputs}
  \cup {FromScreen(screen) : screen \in Screens}
  \cup {FromCandidates(candidates) : candidates \in Sightings}

\* Every entry process_observation may append.
Entries == {Entry(id, at, input.evidence, input.status) : id \in Int, at \in Int, input \in Given}

\* Evidence and pieces of it have places, finitely many, and numbers for confidences.
Placed(list) ==
  /\ IsFiniteSet(DOMAIN list) /\ DOMAIN list \subseteq Nat
  /\ \A i \in DOMAIN list : list[i].confidence \in Int

\* An entry of a history, and a history, as far as reduction relies on them.
EntryOK(e) == e.at \in Int /\ e.id \in Int /\ Placed(e.pieces)

\* Every entry is one, and they come in a list.
HistoryOK(h) ==
  /\ Len(h) \in Nat /\ DOMAIN h = 1..Len(h)
  /\ \A i \in DOMAIN h : EntryOK(h[i])

\* The nodes the graphs are built of are finitely many.
LEMMA KnownAreFinite ==
  /\ IsFiniteSet(ToSet(Known)) /\ \A e \in ToSet(Known) : e.confidence \in Int
<1>1. IsFiniteSet(DOMAIN Known) BY FS_Interval, KnownEntities
<1> DEFINE f == [i \in DOMAIN Known |-> Known[i]]
<1>2. f \in Surjection(DOMAIN Known, ToSet(Known)) BY DEF Surjection, ToSet
<1>3. IsFiniteSet(ToSet(Known)) BY <1>1, <1>2, FS_Surjection
<1> QED BY <1>3, KnownEntities DEF ToSet

\* EvidenceResolver.resolve: whatever comes of a piece of evidence, its confidence is
\* a number.
LEMMA PieceIsNumbered ==
  ASSUME NEW e, e.confidence \in Int
  PROVE  Piece(e).confidence \in Int
<1> DEFINE r == Resolve(Known, e)
           best == Best(Known, e.value)
<1>1. Piece(e).confidence = IF r.resolved THEN r.confidence ELSE e.confidence BY DEF Piece
<1>2. IsFiniteSet(best) /\ best \subseteq ToSet(Known)
  <2>1. best \in SUBSET ToSet(Known) BY DEF Best, Candidates
  <2> QED BY <2>1, KnownAreFinite, FS_Subset
<1>3. Cardinality(best) \in Nat /\ (Cardinality(best) = 0 <=> best = {})
  BY <1>2, FS_CardinalityType, FS_EmptySet
<1>4. CASE best = {}
  <2>1. r = Unresolved
    <3>1. Cardinality(best) = 0 BY <1>3, <1>4
    <3> QED BY <1>4, <3>1 DEF Resolve
  <2> HIDE DEF r
  <2> QED BY <1>1, <2>1 DEF Unresolved
<1>5. CASE best # {} /\ Cardinality(best) > 1
  <2>1. r = [Unresolved EXCEPT !.conflict = TRUE]
    <3> HIDE DEF best
    <3>1. Cardinality(best) # 1 BY <1>3, <1>5
    <3> QED BY <1>5, <3>1 DEF Resolve, best
  <2> QED BY <1>1, <2>1 DEF Unresolved
<1>6. CASE best # {} /\ Cardinality(best) = 1
  <2>1. r = Selected(CHOOSE x \in best : TRUE, e)
    <3>1. ~(Cardinality(best) > 1) BY <1>6
    <3> QED BY <1>6, <3>1 DEF Resolve
  <2> DEFINE score == MatchScore(CHOOSE x \in best : TRUE, e.value)
  <2>2. r.confidence = (e.confidence * score) \div 100 BY <2>1 DEF Selected
  <2>3. score = 100 \/ score = 95 \/ score = 0 BY DEF MatchScore
  <2> HIDE DEF r, score
  <2>4. r.confidence \in Int BY <2>2, <2>3
  <2> QED BY <1>1, <2>4
<1>7. best = {} \/ Cardinality(best) = 1 \/ Cardinality(best) > 1
  <2> HIDE DEF best
  <2> QED BY <1>3
<1> QED BY <1>4, <1>5, <1>6, <1>7

\* The adapters: evidence, a screen and candidates all give evidence in places.
LEMMA EvidenceIsPlaced ==
  ASSUME NEW input \in Given
  PROVE  Placed(input.evidence)
<1>1. CASE input \in {[evidence |-> e, status |-> NoStatus] : e \in Inputs}
  <2>1. PICK e \in Inputs : input.evidence = e BY <1>1
  <2>2. Len(e) \in Nat /\ DOMAIN e = 1..Len(e) /\ \A i \in DOMAIN e : e[i].confidence \in Int
    BY CompanionConstants
  <2>3. IsFiniteSet(DOMAIN e) BY <2>2, FS_Interval
  <2> QED BY <2>1, <2>2, <2>3 DEF Placed
<1>2. CASE input \in {FromCandidates(candidates) : candidates \in Sightings}
  <2>1. PICK candidates \in Sightings : input = FromCandidates(candidates) BY <1>2
  <2>2. /\ Len(candidates) \in Nat /\ DOMAIN candidates = 1..Len(candidates)
        /\ \A i \in DOMAIN candidates : candidates[i].confidence \in Int
    BY CompanionConstants
  <2> DEFINE kept == {i \in DOMAIN candidates : candidates[i].type \notin {"HP", "MP"}}
             list == [i \in kept |->
                       Evidence(IF candidates[i].type = "MAP" THEN "map" ELSE "ui_text",
                                candidates[i].value, candidates[i].confidence)]
  <2>3. input.evidence = list BY <2>1 DEF FromCandidates
  <2>4. IsFiniteSet(DOMAIN candidates) BY <2>2, FS_Interval
  <2>5. kept \in SUBSET DOMAIN candidates OBVIOUS
  <2>6. IsFiniteSet(kept) BY <2>4, <2>5, FS_Subset
  <2>7. kept \subseteq Nat BY <2>2
  <2>8. \A i \in kept : list[i].confidence \in Int BY <2>2 DEF Evidence
  <2>9. DOMAIN list = kept OBVIOUS
  <2> HIDE DEF list, kept
  <2> QED BY <2>3, <2>6, <2>7, <2>8, <2>9 DEF Placed
<1>3. CASE input \in {FromScreen(screen) : screen \in Screens}
  <2>1. PICK screen \in Screens : input = FromScreen(screen) BY <1>3
  <2> DEFINE R(type, values) == [i \in DOMAIN values |-> Evidence(type, values[i], screen.confidence)]
             a == R("map", screen.map)
             b == R("entity", screen.entities)
             c == R("quest", screen.quests)
             S == {a[i] : i \in DOMAIN a} \cup {b[i] : i \in DOMAIN b} \cup {c[i] : i \in DOMAIN c}
  <2>2. input.evidence = a \o b \o c BY <2>1 DEF FromScreen
  <2>3. a \in Seq(S) /\ b \in Seq(S) /\ c \in Seq(S)
    <3>1. \A values \in {screen.map, screen.entities, screen.quests} :
            Len(values) \in Nat /\ DOMAIN values = 1..Len(values)
      BY CompanionConstants
    <3>2. a \in Seq(S)
      <4>1. Len(screen.map) \in Nat /\ DOMAIN screen.map = 1..Len(screen.map) BY <3>1
      <4>2. \A i \in DOMAIN screen.map : a[i] \in S OBVIOUS
      <4>3. a = [i \in 1..Len(screen.map) |-> a[i]] BY <4>1
      <4> HIDE DEF a, S
      <4> QED BY <4>1, <4>2, <4>3
    <3>3. b \in Seq(S)
      <4>1. Len(screen.entities) \in Nat /\ DOMAIN screen.entities = 1..Len(screen.entities) BY <3>1
      <4>2. \A i \in DOMAIN screen.entities : b[i] \in S OBVIOUS
      <4>3. b = [i \in 1..Len(screen.entities) |-> b[i]] BY <4>1
      <4> HIDE DEF b, S
      <4> QED BY <4>1, <4>2, <4>3
    <3>4. c \in Seq(S)
      <4>1. Len(screen.quests) \in Nat /\ DOMAIN screen.quests = 1..Len(screen.quests) BY <3>1
      <4>2. \A i \in DOMAIN screen.quests : c[i] \in S OBVIOUS
      <4>3. c = [i \in 1..Len(screen.quests) |-> c[i]] BY <4>1
      <4> HIDE DEF c, S
      <4> QED BY <4>1, <4>2, <4>3
    <3> QED BY <3>2, <3>3, <3>4
  <2>4. \A x \in S : x.confidence \in Int
    <3>1. screen.confidence \in Int BY CompanionConstants
    <3>2. /\ \A i \in DOMAIN a : a[i].confidence = screen.confidence
          /\ \A i \in DOMAIN b : b[i].confidence = screen.confidence
          /\ \A i \in DOMAIN c : c[i].confidence = screen.confidence
      BY DEF Evidence
    <3> HIDE DEF a, b, c
    <3> QED BY <3>1, <3>2
  <2> HIDE DEF a, b, c, S
  <2>5. input.evidence \in Seq(S) BY <2>2, <2>3, ConcatProperties
  <2>6. Len(input.evidence) \in Nat /\ DOMAIN input.evidence = 1..Len(input.evidence)
        /\ \A i \in DOMAIN input.evidence : input.evidence[i] \in S
    BY <2>5, LenProperties, ElementOfSeq
  <2>7. IsFiniteSet(DOMAIN input.evidence) BY <2>6, FS_Interval
  <2> QED BY <2>4, <2>6, <2>7 DEF Placed
<1> QED BY <1>1, <1>2, <1>3 DEF Given

\* What process_observation appends is an entry.
LEMMA EntriesAreOK ==
  ASSUME NEW e \in Entries
  PROVE  EntryOK(e)
<1>1. PICK id \in Int, at \in Int, input \in Given : e = Entry(id, at, input.evidence, input.status)
  BY DEF Entries
<1>2. Placed(input.evidence) BY EvidenceIsPlaced
<1>3. e.at = at /\ e.id = id /\ e.pieces = [i \in DOMAIN input.evidence |-> Piece(input.evidence[i])]
  BY <1>1 DEF Entry
<1>4. \A i \in DOMAIN input.evidence : Piece(input.evidence[i]).confidence \in Int
  BY <1>2, PieceIsNumbered DEF Placed
<1> QED BY <1>2, <1>3, <1>4 DEF EntryOK, Placed

\* And what it appends to is a history.
LEMMA HistoriesAreOK ==
  ASSUME NEW h \in Seq(Entries)
  PROVE  HistoryOK(h)
BY LenProperties, ElementOfSeq, EntriesAreOK DEF HistoryOK

-----------------------------------------------------------------------------
\* The places of a history: of an entry and within it.
Spots(h) == (DOMAIN h) \X Nat

\* ObservationHistory.ordered_entries is an order of the places of any history.
LEMMA OrderIsTotal ==
  ASSUME NEW h, HistoryOK(h)
  PROVE  /\ \A p, q \in Spots(h) : NotAfter(h, p, q) \/ NotAfter(h, q, p)
         /\ \A p, q, r \in Spots(h) : NotAfter(h, p, q) /\ NotAfter(h, q, r) => NotAfter(h, p, r)
         /\ \A p, q \in Spots(h) : NotAfter(h, p, q) /\ NotAfter(h, q, p) => p = q
<1>1. ASSUME NEW p \in Spots(h)
      PROVE  /\ h[p[1]].at \in Int /\ h[p[1]].id \in Int /\ p[1] \in Int /\ p[2] \in Int
             /\ \A q \in Spots(h) : p[1] = q[1] /\ p[2] = q[2] => p = q
  BY DEF HistoryOK, EntryOK, Spots
<1>2. \A p, q \in Spots(h) : NotAfter(h, p, q) \/ NotAfter(h, q, p)
  BY <1>1 DEF NotAfter, Before
<1>3. ASSUME NEW p \in Spots(h), NEW q \in Spots(h), NEW r \in Spots(h),
             NotAfter(h, p, q), NotAfter(h, q, r)
      PROVE  NotAfter(h, p, r)
  <2>1. CASE p = q \/ q = r BY <1>3, <2>1
  <2>2. CASE Before(h, p, q) /\ Before(h, q, r)
    <3>1. Before(h, p, r) BY <1>1, <2>2 DEF Before
    <3> QED BY <3>1 DEF NotAfter
  <2> QED BY <1>3, <2>1, <2>2 DEF NotAfter
<1>4. ASSUME NEW p \in Spots(h), NEW q \in Spots(h), NotAfter(h, p, q), NotAfter(h, q, p)
      PROVE  p = q
  BY <1>1, <1>4 DEF NotAfter, Before
<1> QED BY <1>2, <1>3, <1>4

\* Of finitely many places one is the newest.
LEMMA NewestIs ==
  ASSUME NEW h, HistoryOK(h), NEW S \in SUBSET Spots(h), IsFiniteSet(S), S # {}
  PROVE  Newest(h, S) \in S /\ \A q \in S : NotAfter(h, q, Newest(h, S))
<1> DEFINE D == Spots(h)
           R == {pq \in D \X D : NotAfter(h, pq[1], pq[2])}
<1>1. \A p, q \in D : <<p, q>> \in R <=> NotAfter(h, p, q) OBVIOUS
<1> HIDE DEF R
<1>2. TotalOrder(D, R)
  <2>1. \A p, q \in D : <<p, q>> \in R \/ <<q, p>> \in R BY <1>1, OrderIsTotal
  <2>2. ASSUME NEW p \in D, NEW q \in D, NEW r \in D, <<p, q>> \in R, <<q, r>> \in R
        PROVE  <<p, r>> \in R
    BY <1>1, <2>2, OrderIsTotal
  <2> QED BY <2>1, <2>2 DEF TotalOrder
<1>3. \E m \in S : \A x \in S : <<x, m>> \in R BY <1>2, GreatestExists, Zenon
<1>4. \E m \in S : \A x \in S : NotAfter(h, x, m) BY <1>1, <1>3
<1> QED BY <1>4 DEF Newest

\* ObservationHistory.latest: nothing is of a later time.
LEMMA LatestIs ==
  ASSUME NEW h, HistoryOK(h), Len(h) # 0
  PROVE  /\ LatestIndex(h) \in DOMAIN h
         /\ Latest(h) = h[LatestIndex(h)]
         /\ \A i \in DOMAIN h : h[i].at <= Latest(h).at
         /\ \A i \in DOMAIN h : NotAfter(h, <<i, 0>>, <<LatestIndex(h), 0>>)
<1> DEFINE S == {<<i, 0>> : i \in DOMAIN h}
           f == [i \in DOMAIN h |-> <<i, 0>>]
<1>1. IsFiniteSet(S)
  <2>1. IsFiniteSet(DOMAIN h) BY FS_Interval DEF HistoryOK
  <2>2. f \in Surjection(DOMAIN h, S) BY DEF Surjection
  <2> QED BY <2>1, <2>2, FS_Surjection
<1>2. S \in SUBSET Spots(h) /\ S # {}
  <2>1. \A i \in DOMAIN h : <<i, 0>> \in Spots(h) BY DEF Spots
  <2>2. 1 \in DOMAIN h BY DEF HistoryOK
  <2> QED BY <2>1, <2>2
<1>3. \A i \in DOMAIN h : <<i, 0>> \in S OBVIOUS
<1>4. \A p \in S : p[1] \in DOMAIN h /\ p = <<p[1], 0>> OBVIOUS
<1>5. LatestIndex(h) = Newest(h, S)[1] BY DEF LatestIndex
<1> HIDE DEF S
<1>6. Newest(h, S) \in S /\ \A q \in S : NotAfter(h, q, Newest(h, S)) BY <1>1, <1>2, NewestIs
<1>7. LatestIndex(h) \in DOMAIN h /\ \A i \in DOMAIN h : NotAfter(h, <<i, 0>>, <<LatestIndex(h), 0>>)
  BY <1>3, <1>4, <1>5, <1>6
<1>8. ASSUME NEW i \in DOMAIN h PROVE h[i].at <= h[LatestIndex(h)].at
  <2>1. h[i].at \in Int /\ h[LatestIndex(h)].at \in Int BY <1>7 DEF HistoryOK, EntryOK
  <2>2. i = LatestIndex(h) \/ Before(h, <<i, 0>>, <<LatestIndex(h), 0>>) BY <1>7 DEF NotAfter
  <2>3. h[i].at < h[LatestIndex(h)].at \/ h[i].at = h[LatestIndex(h)].at BY <2>2 DEF Before
  <2> QED BY <2>1, <2>3
<1> QED BY <1>7, <1>8 DEF Latest

\* Everything ever seen has its place, and there are finitely many.
LEMMA SeenIs ==
  ASSUME NEW h, HistoryOK(h)
  PROVE  /\ Seen(h) \in SUBSET Spots(h) /\ IsFiniteSet(Seen(h))
         /\ \A p \in Seen(h) : /\ p[1] \in DOMAIN h /\ p[2] \in DOMAIN h[p[1]].pieces
                               /\ At(h, p).confidence \in Int
         /\ \A i \in DOMAIN h : \A j \in DOMAIN h[i].pieces : <<i, j>> \in Seen(h)
<1> DEFINE f == [i \in DOMAIN h |-> {i} \X DOMAIN h[i].pieces]
           S == {f[i] : i \in DOMAIN h}
<1>1. Seen(h) = UNION S BY DEF Seen
<1>2. \A p \in Seen(h) : p[1] \in DOMAIN h /\ p[2] \in DOMAIN h[p[1]].pieces /\ p = <<p[1], p[2]>>
  BY DEF Seen
<1>3. \A i \in DOMAIN h : \A j \in DOMAIN h[i].pieces : <<i, j>> \in Seen(h)
  <2> SUFFICES ASSUME NEW i \in DOMAIN h, NEW j \in DOMAIN h[i].pieces PROVE <<i, j>> \in Seen(h)
    OBVIOUS
  <2>1. <<i, j>> \in {i} \X DOMAIN h[i].pieces OBVIOUS
  <2> QED BY <2>1 DEF Seen
<1>4. IsFiniteSet(S)
  <2>1. IsFiniteSet(DOMAIN h) BY FS_Interval DEF HistoryOK
  <2>2. f \in Surjection(DOMAIN h, S) BY DEF Surjection
  <2> QED BY <2>1, <2>2, FS_Surjection
<1>5. \A T \in S : IsFiniteSet(T)
  <2> SUFFICES ASSUME NEW i \in DOMAIN h PROVE IsFiniteSet({i} \X DOMAIN h[i].pieces) OBVIOUS
  <2>1. IsFiniteSet(DOMAIN h[i].pieces) BY DEF HistoryOK, EntryOK, Placed
  <2>2. IsFiniteSet({i}) BY FS_Singleton
  <2> QED BY <2>1, <2>2, FS_Product
<1>6. IsFiniteSet(Seen(h))
  <2> HIDE DEF S
  <2> QED BY <1>1, <1>4, <1>5, FS_UNION
<1>7. Seen(h) \in SUBSET Spots(h)
  <2> SUFFICES ASSUME NEW p \in Seen(h) PROVE p \in Spots(h) OBVIOUS
  <2>1. p[1] \in DOMAIN h /\ p[2] \in DOMAIN h[p[1]].pieces /\ p = <<p[1], p[2]>> BY <1>2
  <2>2. p[2] \in Nat BY <2>1 DEF HistoryOK, EntryOK, Placed
  <2> QED BY <2>1, <2>2 DEF Spots
<1>8. ASSUME NEW p \in Seen(h) PROVE At(h, p).confidence \in Int
  BY <1>2 DEF At, HistoryOK, EntryOK, Placed
<1> QED BY <1>2, <1>3, <1>6, <1>7, <1>8

\* The newest of what selects an entity selects it, nothing that does is of a later
\* time, and when neither numbers nor times repeat nothing comes after it in the order.
LEMMA NewestOfIs ==
  ASSUME NEW h, HistoryOK(h), NEW id, Selecting(h, id) # {}
  PROVE  /\ NewestOf(h, id) \in Selecting(h, id)
         /\ \A q \in Selecting(h, id) : h[q[1]].at <= h[NewestOf(h, id)[1]].at
         /\ Distinct(h) => \A q \in Selecting(h, id) : NotAfter(h, q, NewestOf(h, id))
<1> DEFINE of == Selecting(h, id)
           Key(p) == <<h[p[1]].at, h[p[1]].id, p[2]>>
           last == Newest(h, of)
           same == {p \in of : Key(p) = Key(last)}
<1>1. of \in SUBSET Spots(h) /\ IsFiniteSet(of)
  <2>1. of \in SUBSET Seen(h) BY DEF Selecting
  <2> QED BY <2>1, SeenIs, FS_Subset
<1>2. last \in of /\ \A q \in of : NotAfter(h, q, last)
  <2>1. of # {} OBVIOUS
  <2> HIDE DEF of
  <2>2. Newest(h, of) \in of /\ \A q \in of : NotAfter(h, q, Newest(h, of)) BY <1>1, <2>1, NewestIs
  <2> QED BY <2>2
<1>3. \E p \in same : \A q \in same : p[1] <= q[1]
  <2> DEFINE I == {p[1] : p \in same}
             f == [p \in same |-> p[1]]
  <2>1. IsFiniteSet(same)
    <3>1. same \in SUBSET of OBVIOUS
    <3> HIDE DEF same, of
    <3> QED BY <1>1, <3>1, FS_Subset
  <2>2. IsFiniteSet(I)
    <3>1. f \in Surjection(same, I) BY DEF Surjection
    <3> HIDE DEF same, f, I
    <3> QED BY <2>1, <3>1, FS_Surjection
  <2>3. I \in SUBSET Int /\ I # {}
    <3>1. \A p \in same : p[1] \in Int BY <1>1 DEF Spots, HistoryOK
    <3>2. last \in same BY <1>2
    <3> HIDE DEF same
    <3> QED BY <3>1, <3>2
  <2>4. MinOf(I) \in I /\ \A x \in I : MinOf(I) <= x
    <3> HIDE DEF I
    <3> QED BY <2>2, <2>3, MinIsLeast
  <2> HIDE DEF same
  <2> QED BY <2>4
<1>4. NewestOf(h, id) = CHOOSE p \in same : \A q \in same : p[1] <= q[1] BY DEF NewestOf
<1>5. NewestOf(h, id) \in same
  <2> HIDE DEF same
  <2> QED BY <1>3, <1>4
<1>6. h[NewestOf(h, id)[1]].at = h[last[1]].at /\ NewestOf(h, id) \in of BY <1>5
<1>7. ASSUME NEW q \in of PROVE h[q[1]].at <= h[last[1]].at
  <2>1. h[q[1]].at \in Int /\ h[last[1]].at \in Int BY <1>1, <1>2 DEF Spots, HistoryOK, EntryOK
  <2>2. q = last \/ Before(h, q, last) BY <1>2 DEF NotAfter
  <2>3. h[q[1]].at < h[last[1]].at \/ h[q[1]].at = h[last[1]].at BY <2>2 DEF Before
  <2> QED BY <2>1, <2>3
<1>8. ASSUME Distinct(h) PROVE NewestOf(h, id) = last
  <2>1. NewestOf(h, id) \in Spots(h) /\ last \in Spots(h) BY <1>1, <1>2, <1>6
  <2>2. NewestOf(h, id)[2] = last[2] BY <1>5
  <2>3. NewestOf(h, id)[1] = last[1] BY <1>6, <1>8, <2>1 DEF Distinct, Spots
  <2> HIDE DEF last
  <2> QED BY <2>1, <2>2, <2>3 DEF Spots
<1>9. Distinct(h) => \A q \in of : NotAfter(h, q, NewestOf(h, id))
  <2> HIDE DEF last, of
  <2> QED BY <1>2, <1>8
<1> QED BY <1>6, <1>7, <1>9

-----------------------------------------------------------------------------
\* Older evidence weighs less, never nothing.
LEMMA WeightIsPositive ==
  ASSUME NEW t \in Int, NEW at \in Int
  PROVE  Weight(t, at) \in Int /\ Weight(t, at) > 0 /\ Age(t, at) \in Nat
BY TemporalConstants DEF Weight, Age

\* The confidence of an entity is a number: some evidence selects it.
LEMMA AggregateIsNumber ==
  ASSUME NEW h, HistoryOK(h), NEW t \in Int, NEW id, Selecting(h, id) # {}
  PROVE  Aggregate(h, t, id) \in Int
<1> DEFINE of == Selecting(h, id)
           Wt(p) == Weight(t, h[p[1]].at)
           f == [p \in of |-> Wt(p) * At(h, p).confidence]
           g == [p \in of |-> Wt(p)]
<1>1. of \in SUBSET Seen(h) BY DEF Selecting
<1>2. IsFiniteSet(of) BY <1>1, SeenIs, FS_Subset
<1>3. ASSUME NEW p \in of PROVE Wt(p) \in Int /\ Wt(p) > 0 /\ At(h, p).confidence \in Int
  <2>1. p \in Seen(h) BY <1>1
  <2>2. p[1] \in DOMAIN h /\ At(h, p).confidence \in Int BY <2>1, SeenIs
  <2>3. h[p[1]].at \in Int BY <2>2 DEF HistoryOK, EntryOK
  <2> QED BY <2>2, <2>3, WeightIsPositive
<1>4. SumFunction(f) \in Int
  <2>1. DOMAIN f = of OBVIOUS
  <2>2. \A p \in of : f[p] \in Int BY <1>3
  <2> HIDE DEF f, of
  <2> QED BY <1>2, <2>1, <2>2, SumIsNumber
<1>5. SumFunction(g) \in Int /\ SumFunction(g) > 0
  <2>1. DOMAIN g = of /\ of # {} OBVIOUS
  <2>2. \A p \in of : g[p] \in Int /\ g[p] > 0 BY <1>3
  <2> HIDE DEF g, of
  <2> QED BY <1>2, <2>1, <2>2, SumIsNumber
<1>6. Aggregate(h, t, id) = SumFunction(f) \div SumFunction(g) BY DEF Aggregate
<1> QED
  <2> HIDE DEF f, g
  <2> QED BY <1>4, <1>5, <1>6

\* Each entity a history selects has one reference, made of its newest evidence.
LEMMA ReferencesAre ==
  ASSUME NEW h, HistoryOK(h), NEW t \in Int
  PROVE  /\ IsFiniteSet(References(h, t))
         /\ \A r \in References(h, t) :
              /\ Selecting(h, r.id) # {} /\ r = Reference(h, t, NewestOf(h, r.id))
              /\ r.confidence \in Int /\ r.seen \in Int
<1> DEFINE Told(id) == Reference(h, t, NewestOf(h, id))
           chosen == {p \in Seen(h) : At(h, p).resolved}
           f == [p \in chosen |-> Told(At(h, p).id)]
<1>1. References(h, t) = {Told(At(h, p).id) : p \in chosen} BY DEF References, SelectedIds
<1>2. IsFiniteSet(References(h, t))
  <2>1. chosen \in SUBSET Seen(h) OBVIOUS
  <2>2. IsFiniteSet(chosen)
    <3> HIDE DEF chosen
    <3> QED BY <2>1, SeenIs, FS_Subset
  <2>3. f \in Surjection(chosen, References(h, t)) BY <1>1 DEF Surjection
  <2> HIDE DEF f, chosen
  <2> QED BY <2>2, <2>3, FS_Surjection
<1>3. ASSUME NEW r \in References(h, t)
      PROVE  /\ Selecting(h, r.id) # {} /\ r = Told(r.id)
             /\ r.confidence \in Int /\ r.seen \in Int
  <2>1. PICK p \in chosen : r = Told(At(h, p).id) BY <1>1
  <2> DEFINE id == At(h, p).id
  <2>2. Selecting(h, id) # {} BY DEF Selecting
  <2>3. NewestOf(h, id) \in Selecting(h, id) BY <2>2, NewestOfIs
  <2>4. r.id = id BY <2>1, <2>3 DEF Reference, Selecting
  <2>5. r.confidence = Aggregate(h, t, id) BY <2>1, <2>4 DEF Reference
  <2>6. r.seen = h[NewestOf(h, id)[1]].at BY <2>1 DEF Reference
  <2>7. NewestOf(h, id)[1] \in DOMAIN h BY <2>3, SeenIs DEF Selecting
  <2>8. r.seen \in Int BY <2>6, <2>7 DEF HistoryOK, EntryOK
  <2> QED BY <2>1, <2>2, <2>4, <2>5, <2>8, AggregateIsNumber
<1> QED BY <1>2, <1>3

\* A reference that is visible is of what the latest observation shows, and has not
\* been out of sight for long.
LEMMA VisibleIs ==
  ASSUME NEW h, HistoryOK(h), NEW t \in Int, NEW r \in References(h, t), r.life = "VISIBLE"
  PROVE  LET n == NewestOf(h, r.id)
         IN  /\ h[n[1]].id = Latest(h).id /\ r.id \in ShownNow(h)
             /\ Age(t, h[n[1]].at) <= Stale /\ Age(t, h[n[1]].at) < Expiry
<1> DEFINE n == NewestOf(h, r.id)
<1>1. r = Reference(h, t, n) /\ Selecting(h, r.id) # {} BY ReferencesAre
<1>2. n \in Selecting(h, r.id) BY <1>1, NewestOfIs
<1>3. Lifecycle(h, t, n) = "VISIBLE" BY <1>1 DEF Reference
<1> HIDE DEF n
<1>4. n[1] \in DOMAIN h BY <1>2, SeenIs DEF Selecting
<1>5. Age(t, h[n[1]].at) \in Nat BY <1>4, WeightIsPositive DEF HistoryOK, EntryOK
<1>6. /\ h[n[1]].id = Latest(h).id
      /\ Age(t, h[n[1]].at) <= Stale /\ Age(t, h[n[1]].at) < Expiry
  <2> DEFINE age == Age(t, h[n[1]].at)
  <2>1. Expiry \in Nat BY TemporalConstants
  <2>2. age >= Expiry <=> ~(age < Expiry)
    <3>1. age \in Nat BY <1>5
    <3> HIDE DEF age
    <3> QED BY <2>1, <3>1
  <2>3. age < Expiry BY <1>3, <2>2 DEF Lifecycle
  <2> QED BY <1>3, <2>2, <2>3 DEF Lifecycle
<1>7. r.id \in ShownNow(h) BY <1>2, <1>6 DEF ShownNow, Selecting
<1> QED BY <1>6, <1>7 DEF n

\* And one is visible, when that is so.
LEMMA VisibleWhen ==
  ASSUME NEW h, HistoryOK(h), NEW t \in Int, NEW n \in Seen(h),
         h[n[1]].id = Latest(h).id, Age(t, h[n[1]].at) <= Stale
  PROVE  Lifecycle(h, t, n) = "VISIBLE"
<1>1. n[1] \in DOMAIN h BY SeenIs
<1>2. Age(t, h[n[1]].at) \in Nat BY <1>1, WeightIsPositive DEF HistoryOK, EntryOK
<1> DEFINE age == Age(t, h[n[1]].at)
<1>3. age < Expiry /\ ~(age >= Expiry)
  <2>1. Expiry \in Nat /\ Expiry > 1 BY TemporalConstants
  <2> HIDE DEF age
  <2> QED BY <1>2, <2>1 DEF age, Stale
<1> QED BY <1>3 DEF Lifecycle

-----------------------------------------------------------------------------
\* Finitely many things, each with a number for its confidence.
Valued(S) == IsFiniteSet(S) /\ \A x \in S : x.confidence \in Int

\* Finitely many numbers.
Numbers(S) == IsFiniteSet(S) /\ S \subseteq Int

\* A function on a finite set has finitely many values.
LEMMA ImageIsFinite ==
  ASSUME NEW S, IsFiniteSet(S), NEW f
  PROVE  IsFiniteSet({f[x] : x \in S})
<1> DEFINE g == [x \in S |-> f[x]]
<1>1. g \in Surjection(S, {f[x] : x \in S}) BY DEF Surjection
<1> HIDE DEF g
<1> QED BY <1>1, FS_Surjection

\* The confidences of finitely many things are finitely many numbers.
LEMMA ValuesAre ==
  ASSUME NEW S, Valued(S)
  PROVE  Numbers({x.confidence : x \in S})
<1> DEFINE f == [x \in S |-> x.confidence]
<1>1. IsFiniteSet({f[x] : x \in S})
  <2> HIDE DEF f
  <2> QED BY ImageIsFinite DEF Valued
<1>2. {f[x] : x \in S} = {x.confidence : x \in S} OBVIOUS
<1> QED BY <1>1, <1>2 DEF Valued, Numbers

\* Parts of them are such things,
LEMMA ValuedParts ==
  ASSUME NEW S, Valued(S), NEW T \in SUBSET S
  PROVE  Valued(T)
BY FS_Subset DEF Valued

\* and so are two sets of them together,
LEMMA ValuedJoin ==
  ASSUME NEW S, NEW T, Valued(S), Valued(T)
  PROVE  Valued(S \cup T)
BY FS_Union DEF Valued

\* as are two sets of numbers.
LEMMA NumbersJoin ==
  ASSUME NEW S, NEW T, Numbers(S), Numbers(T)
  PROVE  Numbers(S \cup T)
BY FS_Union DEF Numbers

\* One number is a set of them.
LEMMA OneNumber ==
  ASSUME NEW n \in Int
  PROVE  Numbers({n})
BY FS_Singleton DEF Numbers

\* The relations of the graph are finitely many, with confidences.
LEMMA RelationsAreValued == Valued(Relations)
BY ContextConstants DEF Valued

\* What the graph is asked for it answers with nodes of the list.
LEMMA FoundAreKnown ==
  ASSUME NEW type, NEW key
  PROVE  Find(Known, type, key) \subseteq ToSet(Known)
BY DEF Find, ToSet

\* The confidence of a node is a number, zero when there is none.
LEMMA NodeIsNumbered ==
  ASSUME NEW type, NEW id
  PROVE  Max(NodeConfidence(type, id)) \in Int
<1> DEFINE S == Find(Known, type, id)
<1>1. Valued(ToSet(Known)) BY KnownAreFinite DEF Valued
<1>2. Valued(S) BY <1>1, FoundAreKnown, ValuedParts
<1>3. Numbers({x.confidence : x \in S})
  <2> HIDE DEF S
  <2> QED BY <1>2, ValuesAre
<1>4. Numbers({0}) BY OneNumber
<1>5. Numbers({0} \cup {x.confidence : x \in S}) BY <1>3, <1>4, NumbersJoin
<1>6. NodeConfidence(type, id) = {0} \cup {x.confidence : x \in S} BY DEF NodeConfidence
<1> HIDE DEF S
<1>7. NodeConfidence(type, id) # {} BY <1>6
<1> QED BY <1>5, <1>6, <1>7, MaxIsGreatest DEF Numbers

\* What a context takes from the state is finite and has confidences,
LEMMA FromStateIsValued ==
  ASSUME NEW S, Valued(S), NEW historical
  PROVE  Valued({FromState(r, historical) : r \in S})
<1> DEFINE f == [r \in S |-> FromState(r, historical)]
<1>1. IsFiniteSet({f[r] : r \in S})
  <2> HIDE DEF f
  <2> QED BY ImageIsFinite DEF Valued
<1>2. {f[r] : r \in S} = {FromState(r, historical) : r \in S} OBVIOUS
<1>3. \A r \in S : FromState(r, historical).confidence \in Int BY DEF FromState, Valued
<1> QED BY <1>1, <1>2, <1>3 DEF Valued

\* and so has what it takes from the graph.
LEMMA FromGraphIsValued ==
  ASSUME NEW S, IsFiniteSet(S), NEW type
  PROVE  /\ Valued({FromGraph(type, r.to) : r \in S})
         /\ Numbers({Max(NodeConfidence(type, r.to)) : r \in S})
<1> DEFINE f == [r \in S |-> FromGraph(type, r.to)]
           g == [r \in S |-> Max(NodeConfidence(type, r.to))]
<1>1. IsFiniteSet({f[r] : r \in S}) /\ IsFiniteSet({g[r] : r \in S})
  <2> HIDE DEF f, g
  <2> QED BY ImageIsFinite
<1>2. {f[r] : r \in S} = {FromGraph(type, r.to) : r \in S} OBVIOUS
<1>3. {g[r] : r \in S} = {Max(NodeConfidence(type, r.to)) : r \in S} OBVIOUS
<1>4. \A r \in S : FromGraph(type, r.to).confidence \in Int BY NodeIsNumbered DEF FromGraph
<1>5. \A r \in S : Max(NodeConfidence(type, r.to)) \in Int BY NodeIsNumbered
<1>6. Valued({FromGraph(type, r.to) : r \in S}) BY <1>1, <1>2, <1>4 DEF Valued
<1>7. Numbers({Max(NodeConfidence(type, r.to)) : r \in S}) BY <1>1, <1>3, <1>5 DEF Numbers
<1> QED BY <1>6, <1>7

-----------------------------------------------------------------------------
\* The present: of the entities and of what is unknown, finitely many.
StateOK(s) == s.confidence \in Int /\ Valued(s.refs) /\ Valued(s.unknowns)

\* The location, and all the present refers to, are references of the history.
LEMMA LocationIsReferenced ==
  ASSUME NEW h, NEW t
  PROVE  /\ Reduce(h, t).location \subseteq References(h, t)
         /\ Reduce(h, t).refs \subseteq References(h, t)
<1>1. LatestLocation(h, References(h, t)) \subseteq References(h, t) BY DEF LatestLocation
<1> QED BY <1>1 DEF Reduce

\* StateReducer.reduce makes such a present of any history.
LEMMA ReducedIsOK ==
  ASSUME NEW h, HistoryOK(h), NEW t \in Int
  PROVE  StateOK(Reduce(h, t))
<1> DEFINE s == Reduce(h, t)
<1>1. Valued(s.refs)
  <2>1. Valued(References(h, t)) BY ReferencesAre DEF Valued
  <2> QED BY <2>1, LocationIsReferenced, ValuedParts
<1>2. Valued(s.unknowns)
  <2> DEFINE of == {q \in Unknown(h) : \A r \in Unknown(h) :
                      At(h, r).type = At(h, q).type => q[2] <= r[2]}
             f == [p \in of |-> [type |-> At(h, p).type, confidence |-> At(h, p).confidence]]
  <2>1. of \in SUBSET Seen(h) BY DEF Unknown
  <2>2. IsFiniteSet(of)
    <3> HIDE DEF of
    <3> QED BY <2>1, SeenIs, FS_Subset
  <2>3. IsFiniteSet({f[p] : p \in of})
    <3> HIDE DEF f, of
    <3> QED BY <2>2, ImageIsFinite
  <2>4. UnknownTypes(h) = {f[p] : p \in of} BY DEF UnknownTypes
  <2>5. \A p \in of : f[p].confidence \in Int
    <3> SUFFICES ASSUME NEW p \in of PROVE At(h, p).confidence \in Int OBVIOUS
    <3>1. p \in Seen(h) BY <2>1
    <3> QED BY <3>1, SeenIs
  <2> HIDE DEF f, of
  <2>6. Valued(UnknownTypes(h)) BY <2>3, <2>4, <2>5 DEF Valued
  <2>7. Valued({ContestedLocation})
    <3>1. IsFiniteSet({ContestedLocation}) BY FS_Singleton
    <3>2. ContestedLocation.confidence \in Int BY DEF ContestedLocation
    <3> QED BY <3>1, <3>2 DEF Valued
  <2>8. Valued({})
    <3>1. IsFiniteSet({}) BY FS_EmptySet
    <3> QED BY <3>1 DEF Valued
  <2>9. Valued(IF LocationConflict(h) THEN {ContestedLocation} ELSE {}) BY <2>7, <2>8
  <2>10. s.unknowns = UnknownTypes(h) \cup (IF LocationConflict(h) THEN {ContestedLocation} ELSE {})
    BY DEF Reduce
  <2> QED BY <2>6, <2>9, <2>10, ValuedJoin
<1>3. s.confidence \in Int
  <2> DEFINE seen == Seen(h)
             f == [p \in seen |-> At(h, p).confidence]
  <2>1. s.confidence = IF seen = {} THEN 0 ELSE SumFunction(f) \div Cardinality(seen)
    BY DEF Reduce
  <2>2. DOMAIN f = seen /\ IsFiniteSet(seen) /\ \A p \in seen : f[p] \in Int BY SeenIs
  <2> HIDE DEF f, seen
  <2>3. SumFunction(f) \in Int BY <2>2, SumIsNumber
  <2>4. Cardinality(seen) \in Nat /\ (seen # {} => Cardinality(seen) # 0)
    BY <2>2, FS_CardinalityType, FS_EmptySet
  <2> HIDE DEF s
  <2> QED BY <2>1, <2>3, <2>4
<1> QED BY <1>1, <1>2, <1>3 DEF StateOK

-----------------------------------------------------------------------------
\* What a context tells of: what is visible, as it is; what the graph adds, whose
\* presence is unknown; and what is lost, as history.
Supported(s, e) ==
  \/ \E r \in s.refs : r.life = "VISIBLE" /\ e = FromState(r, FALSE)
  \/ e.life = "UNKNOWN"
  \/ e.life = "LOST" /\ e.historical

\* A context: finitely many entities, all of them supported, and relations.
ContextOK(s, c) ==
  /\ c.confidence \in Int /\ c.relations \subseteq Relations
  /\ Valued(c.entities) /\ \A e \in c.entities : Supported(s, e)

\* A candidate for it, likewise.
CandidateOK(s, c) ==
  /\ c.relations \subseteq Relations
  /\ Numbers(c.values)
  /\ Valued(c.entities) /\ \A e \in c.entities : Supported(s, e)

\* What a candidate takes from the visible is supported.
LEMMA VisibleIsSupported ==
  ASSUME NEW s, NEW S \in SUBSET Of(s.refs, "VISIBLE"), Valued(s.refs)
  PROVE  /\ Valued(S) /\ Valued({FromState(r, FALSE) : r \in S})
         /\ \A e \in {FromState(r, FALSE) : r \in S} : Supported(s, e)
<1>1. S \in SUBSET s.refs BY DEF Of
<1>2. Valued(S) BY <1>1, ValuedParts
<1>3. \A e \in {FromState(r, FALSE) : r \in S} : Supported(s, e) BY DEF Of, Supported
<1> QED BY <1>2, <1>3, FromStateIsValued

\* _quest_candidate
LEMMA QuestCandidateIsOK ==
  ASSUME NEW s, StateOK(s), NEW c \in QuestCandidate(Of(s.refs, "VISIBLE"))
  PROVE  CandidateOK(s, c) /\ c.type = "QUEST_RELATED"
<1> DEFINE maps == Typed(Of(s.refs, "VISIBLE"), "map")
           npcs == Typed(Of(s.refs, "VISIBLE"), "npc")
           contains == Between(Believed, "CONTAINS", IdsOf(maps), IdsOf(npcs))
           gives == {r \in Believed : r.type = "GIVES" /\ r.from \in {x.to : x \in contains}}
           both == {FromState(r, FALSE) : r \in maps \cup npcs}
           quests == {FromGraph("quest", r.to) : r \in gives}
           known == {Max(NodeConfidence("quest", r.to)) : r \in gives}
           all == contains \cup gives \cup maps \cup npcs
           of == {r.confidence : r \in all}
<1>1. /\ c.type = "QUEST_RELATED" /\ c.relations = contains \cup gives
      /\ c.entities = both \cup quests
      /\ c.values = of \cup known
  <2> DEFINE it == [type |-> "QUEST_RELATED", relations |-> contains \cup gives,
                    entities |-> both \cup quests, values |-> of \cup known]
  <2>1. QuestCandidate(Of(s.refs, "VISIBLE")) \subseteq {it} BY Zenon DEF QuestCandidate
  <2>2. c = it
    <3> HIDE DEF it
    <3> QED BY <2>1
  <2> QED BY <2>2
<1>2. contains \in SUBSET Relations /\ gives \in SUBSET Relations BY DEF Between, Believed
<1>3. maps \cup npcs \in SUBSET Of(s.refs, "VISIBLE") BY DEF Typed
<1>4. /\ Valued(maps \cup npcs) /\ Valued(both)
      /\ \A e \in both : Supported(s, e)
  <2> DEFINE S == maps \cup npcs
  <2>1. S \in SUBSET Of(s.refs, "VISIBLE") BY <1>3
  <2> HIDE DEF S
  <2>2. Valued(S) /\ Valued({FromState(r, FALSE) : r \in S})
        /\ \A e \in {FromState(r, FALSE) : r \in S} : Supported(s, e)
    BY <2>1, VisibleIsSupported DEF StateOK
  <2> QED BY <2>2 DEF S
<1>5. Valued(contains \cup gives)
  <2> HIDE DEF contains, gives
  <2> QED BY <1>2, RelationsAreValued, ValuedParts
<1>6. Valued(quests) /\ Numbers(known)
  <2>1. IsFiniteSet(gives)
    <3> HIDE DEF gives, contains
    <3> QED BY <1>2, ContextConstants, FS_Subset
  <2> HIDE DEF gives
  <2> QED BY <2>1, FromGraphIsValued
<1>7. \A e \in quests : Supported(s, e)
  <2> SUFFICES ASSUME NEW r \in gives PROVE Supported(s, FromGraph("quest", r.to)) OBVIOUS
  <2>1. FromGraph("quest", r.to).life = "UNKNOWN" BY DEF FromGraph
  <2> QED BY <2>1 DEF Supported
<1> HIDE DEF contains, gives, maps, npcs, both, quests, known
<1>8. Numbers(of)
  <2>1. Valued((contains \cup gives) \cup (maps \cup npcs)) BY <1>4, <1>5, ValuedJoin
  <2>2. all = (contains \cup gives) \cup (maps \cup npcs) OBVIOUS
  <2>3. Valued(all) BY <2>1, <2>2
  <2> HIDE DEF all
  <2> QED BY <2>3, ValuesAre
<1> HIDE DEF of
<1>9. Numbers(c.values) BY <1>1, <1>6, <1>8, NumbersJoin
<1>10. Valued(c.entities) BY <1>1, <1>4, <1>6, ValuedJoin
<1> QED BY <1>1, <1>2, <1>4, <1>7, <1>9, <1>10 DEF CandidateOK

\* _item_quest_candidate
LEMMA ItemQuestCandidateIsOK ==
  ASSUME NEW s, StateOK(s), NEW c \in ItemQuestCandidate(Of(s.refs, "VISIBLE"))
  PROVE  CandidateOK(s, c) /\ c.type = "ITEM_QUEST"
<1> DEFINE inView == Of(s.refs, "VISIBLE")
           quests == Typed(inView, "quest")
           items == Typed(inView, "item") \cup Typed(inView, "equipment")
           requires == Between(Believed, "REQUIRES", IdsOf(quests), IdsOf(Typed(inView, "item")))
           S == quests \cup items
           all == requires \cup quests \cup items
           of == {r.confidence : r \in all}
<1>1. /\ c.type = "ITEM_QUEST" /\ c.relations = requires
      /\ c.entities = {FromState(r, FALSE) : r \in S}
      /\ c.values = of
  <2> DEFINE it == [type |-> "ITEM_QUEST", relations |-> requires,
                    entities |-> {FromState(r, FALSE) : r \in S}, values |-> of]
  <2>1. ItemQuestCandidate(Of(s.refs, "VISIBLE")) \subseteq {it} BY Zenon DEF ItemQuestCandidate
  <2>2. c = it
    <3> HIDE DEF it
    <3> QED BY <2>1
  <2> QED BY <2>2
<1>2. requires \in SUBSET Relations BY DEF Between, Believed
<1>3. S \in SUBSET inView BY DEF Typed
<1>4. /\ Valued(S) /\ Valued({FromState(r, FALSE) : r \in S})
      /\ \A e \in {FromState(r, FALSE) : r \in S} : Supported(s, e)
  <2> HIDE DEF S
  <2> QED BY <1>3, VisibleIsSupported DEF StateOK
<1>5. Valued(requires)
  <2> HIDE DEF requires
  <2> QED BY <1>2, RelationsAreValued, ValuedParts
<1>6. all = requires \cup S OBVIOUS
<1> HIDE DEF requires, S, all
<1>7. Valued(all) BY <1>4, <1>5, <1>6, ValuedJoin
<1>8. Numbers(of) BY <1>7, ValuesAre
<1> QED BY <1>1, <1>2, <1>4, <1>8 DEF CandidateOK

\* _fallback_candidate
LEMMA FallbackIsOK ==
  ASSUME NEW s, StateOK(s)
  PROVE  CandidateOK(s, Fallback(s, Of(s.refs, "VISIBLE")))
<1> DEFINE inView == Of(s.refs, "VISIBLE")
           c == Fallback(s, inView)
<1>1. /\ c.relations = {} /\ c.entities = {FromState(r, FALSE) : r \in inView}
      /\ c.values = {s.confidence} \cup {r.confidence : r \in inView}
  BY DEF Fallback
<1>2. /\ Valued(inView) /\ Valued({FromState(r, FALSE) : r \in inView})
      /\ \A e \in {FromState(r, FALSE) : r \in inView} : Supported(s, e)
  BY VisibleIsSupported DEF StateOK
<1>3. Numbers({s.confidence} \cup {r.confidence : r \in inView})
  <2>1. Numbers({r.confidence : r \in inView})
    <3> HIDE DEF inView
    <3> QED BY <1>2, ValuesAre
  <2>2. Numbers({s.confidence}) BY OneNumber DEF StateOK
  <2> QED BY <2>1, <2>2, NumbersJoin
<1> HIDE DEF c
<1>4. Valued(c.entities) BY <1>1, <1>2
<1>5. \A e \in c.entities : Supported(s, e) BY <1>1, <1>2
<1>6. Numbers(c.values) /\ c.relations \subseteq Relations BY <1>1, <1>3
<1> QED BY <1>4, <1>5, <1>6 DEF CandidateOK, c

\* What is lost is retained as history, what is unknown as such.
LEMMA RetainedIsOK ==
  ASSUME NEW s, StateOK(s)
  PROVE  Valued(Retained(s)) /\ \A e \in Retained(s) : Supported(s, e)
<1> DEFINE lost == Of(s.refs, "LOST")
           f == [u \in s.unknowns |->
                   [id |-> "", type |-> u.type, life |-> "UNKNOWN", confidence |-> u.confidence,
                    historical |-> FALSE]]
           A == {FromState(r, TRUE) : r \in lost}
           B == {f[u] : u \in s.unknowns}
<1>1. Retained(s) = A \cup B BY DEF Retained
<1>2. Valued(A)
  <2>1. lost \in SUBSET s.refs BY DEF Of
  <2>2. Valued(lost)
    <3> HIDE DEF lost
    <3> QED BY <2>1, ValuedParts DEF StateOK
  <2> HIDE DEF lost
  <2> QED BY <2>2, FromStateIsValued
<1>3. Valued(B)
  <2>1. \A u \in s.unknowns : f[u].confidence \in Int BY DEF StateOK, Valued
  <2>2. IsFiniteSet(B)
    <3> HIDE DEF f
    <3> QED BY ImageIsFinite DEF StateOK, Valued
  <2> HIDE DEF f
  <2> QED BY <2>1, <2>2 DEF Valued
<1>4. \A e \in A : Supported(s, e) BY DEF Of, FromState, Supported
<1>5. \A e \in B : Supported(s, e)
  <2> SUFFICES ASSUME NEW u \in s.unknowns PROVE Supported(s, f[u]) OBVIOUS
  <2>1. f[u].life = "UNKNOWN" OBVIOUS
  <2> HIDE DEF f
  <2> QED BY <2>1 DEF Supported
<1> HIDE DEF A, B
<1> QED BY <1>1, <1>2, <1>3, <1>4, <1>5, ValuedJoin

\* ContextReasoner.reason
LEMMA ReasonedIsOK ==
  ASSUME NEW s, StateOK(s)
  PROVE  ContextOK(s, Reason(s))
<1> DEFINE inView == Of(s.refs, "VISIBLE")
           chosen == IF ItemQuestCandidate(inView) # {} THEN ItemQuestCandidate(inView)
                     ELSE IF QuestCandidate(inView) # {} THEN QuestCandidate(inView)
                     ELSE {Fallback(s, inView)}
           found == CHOOSE c \in chosen : TRUE
           c == Reason(s)
<1>1. CandidateOK(s, found)
  <2>1. \A x \in chosen : CandidateOK(s, x)
    BY QuestCandidateIsOK, ItemQuestCandidateIsOK, FallbackIsOK
  <2>2. chosen # {} OBVIOUS
  <2> HIDE DEF chosen
  <2> QED BY <2>1, <2>2
<1>2. /\ c.relations = found.relations
      /\ c.entities = found.entities \cup Retained(s)
      /\ c.confidence = MinOf({s.confidence} \cup found.values)
  BY DEF Reason, ReasonOn
<1> HIDE DEF found, c
<1>3. c.confidence \in Int
  <2>1. Numbers({s.confidence}) BY OneNumber DEF StateOK
  <2>2. Numbers({s.confidence} \cup found.values) BY <1>1, <2>1, NumbersJoin DEF CandidateOK
  <2> QED BY <1>2, <2>2, MinIsLeast DEF Numbers
<1>4. Valued(c.entities) BY <1>1, <1>2, RetainedIsOK, ValuedJoin DEF CandidateOK
<1>5. \A e \in c.entities : Supported(s, e) BY <1>1, <1>2, RetainedIsOK DEF CandidateOK
<1>6. c.relations \subseteq Relations BY <1>1, <1>2 DEF CandidateOK
<1> QED BY <1>3, <1>4, <1>5, <1>6 DEF ContextOK, c

-----------------------------------------------------------------------------
\* What a reference rests on, and how certain it is.
RefOK(s, r) ==
  /\ r.confidence \in Int
  /\ \A e \in r.entities : Supported(s, e) /\ r.confidence <= e.confidence

\* _make_reference: never more certain than what it rests on.
LEMMA MadeIsWeakest ==
  ASSUME NEW s, StateOK(s), NEW c, ContextOK(s, c), NEW type, NEW about,
         NEW entities, Valued(entities), \A e \in entities : Supported(s, e),
         NEW relations, Valued(relations)
  PROVE  RefOK(s, MakeReference(s, c, type, entities, relations, about))
<1> DEFINE r == MakeReference(s, c, type, entities, relations, about)
           S == ({s.confidence} \cup {c.confidence}) \cup {e.confidence : e \in entities}
           T == {x.confidence : x \in relations}
<1>1. r.confidence = MinOf(S \cup T) /\ r.entities = entities
  <2>1. {s.confidence, c.confidence} \cup {e.confidence : e \in entities} \cup T = S \cup T
    OBVIOUS
  <2>2. /\ r.entities = entities
        /\ r.confidence = MinOf({s.confidence, c.confidence} \cup {e.confidence : e \in entities} \cup T)
    BY DEF MakeReference
  <2> QED BY <2>1, <2>2
<1>2. Numbers({e.confidence : e \in entities}) /\ Numbers(T) BY ValuesAre
<1>3. Numbers({s.confidence} \cup {c.confidence}) BY OneNumber, NumbersJoin DEF StateOK, ContextOK
<1>4. Numbers(S \cup T)
  <2> HIDE DEF T
  <2>1. Numbers(S)
    <3> DEFINE A == {s.confidence} \cup {c.confidence}
               B == {e.confidence : e \in entities}
    <3>1. Numbers(A) /\ Numbers(B) BY <1>2, <1>3
    <3> HIDE DEF A, B
    <3>2. Numbers(A \cup B) BY <3>1, NumbersJoin
    <3> QED BY <3>2 DEF A, B
  <2> HIDE DEF S
  <2> QED BY <1>2, <2>1, NumbersJoin
<1>5. \A e \in entities : e.confidence \in S OBVIOUS
<1>6. s.confidence \in S OBVIOUS
<1> HIDE DEF S, T, r
<1>7. MinOf(S \cup T) \in Int /\ \A x \in S \cup T : MinOf(S \cup T) <= x
  <2>1. S \cup T # {} BY <1>6
  <2> QED BY <1>4, <2>1, MinIsLeast DEF Numbers
<1>8. \A e \in entities : r.confidence <= e.confidence BY <1>1, <1>5, <1>7
<1> QED BY <1>1, <1>7, <1>8 DEF RefOK, r

\* _missing_requirements: of a visible quest, and not in possession.
LEMMA MissingIs ==
  ASSUME NEW s, StateOK(s), NEW c, ContextOK(s, c)
  PROVE  /\ IsFiniteSet(MissingRequirements(s, c))
         /\ \A r \in MissingRequirements(s, c) :
              /\ RefOK(s, r) /\ r.type = "MISSING_REQUIREMENT"
              /\ \A x \in Of(s.refs, "VISIBLE") : x.kind = "inventory" => x.id \notin r.about
<1> DEFINE quests == {r \in Of(s.refs, "VISIBLE") : r.kind = "quest"}
           owned == {r.id : r \in {x \in Of(s.refs, "VISIBLE") : x.kind = "inventory"}}
           unmet == {p \in quests \X Relations :
                       p[2].type = "REQUIRES" /\ p[2].from = p[1].id /\ p[2].to \notin owned}
           Told(p) == {e \in c.entities : e.id = p[1].id}
                      \cup (IF Find(Known, "item", p[2].to) = {} THEN {} ELSE {FromGraph("item", p[2].to)})
           f == [p \in unmet |-> MakeReference(s, c, "MISSING_REQUIREMENT", Told(p), {p[2]}, {p[2].to})]
<1>1. MissingRequirements(s, c) = {f[p] : p \in unmet} BY DEF MissingRequirements
<1>2. IsFiniteSet(unmet)
  <2>1. quests \in SUBSET s.refs BY DEF Of
  <2>2. IsFiniteSet(quests)
    <3> HIDE DEF quests
    <3> QED BY <2>1, FS_Subset DEF StateOK, Valued
  <2>3. IsFiniteSet(quests \X Relations)
    <3> HIDE DEF quests
    <3> QED BY <2>2, FS_Product, ContextConstants
  <2>4. unmet \in SUBSET (quests \X Relations) OBVIOUS
  <2> HIDE DEF unmet, quests
  <2> QED BY <2>3, <2>4, FS_Subset
<1>3. IsFiniteSet({f[p] : p \in unmet})
  <2> HIDE DEF f, unmet
  <2> QED BY <1>2, ImageIsFinite
<1>4. ASSUME NEW p \in unmet
      PROVE  /\ RefOK(s, f[p]) /\ f[p].type = "MISSING_REQUIREMENT"
             /\ \A x \in Of(s.refs, "VISIBLE") : x.kind = "inventory" => x.id \notin f[p].about
  <2>1. f[p] = MakeReference(s, c, "MISSING_REQUIREMENT", Told(p), {p[2]}, {p[2].to}) OBVIOUS
  <2>2. p[2] \in Relations /\ p[2].to \notin owned OBVIOUS
  <2>3. Valued({p[2]})
    <3>1. IsFiniteSet({p[2]}) BY FS_Singleton
    <3>2. p[2].confidence \in Int BY <2>2, ContextConstants
    <3> QED BY <3>1, <3>2 DEF Valued
  <2> DEFINE item == FromGraph("item", p[2].to)
             A == {e \in c.entities : e.id = p[1].id}
             B == IF Find(Known, "item", p[2].to) = {} THEN {} ELSE {item}
  <2>4. Valued(A)
    <3>1. A \in SUBSET c.entities OBVIOUS
    <3> HIDE DEF A
    <3> QED BY <3>1, ValuedParts DEF ContextOK
  <2>5. item.life = "UNKNOWN" /\ item.confidence \in Int BY NodeIsNumbered DEF FromGraph
  <2>6. Valued(B)
    <3> HIDE DEF item
    <3>1. IsFiniteSet(B)
      <4>1. IsFiniteSet({}) BY FS_EmptySet
      <4>2. IsFiniteSet({item}) BY FS_Singleton
      <4> QED BY <4>1, <4>2
    <3>2. \A e \in B : e.confidence \in Int BY <2>5
    <3> HIDE DEF B
    <3> QED BY <3>1, <3>2 DEF Valued
  <2>7. \A e \in A \cup B : Supported(s, e)
    <3> HIDE DEF item
    <3>1. \A e \in A : Supported(s, e) BY DEF ContextOK
    <3>2. \A e \in B : e = item OBVIOUS
    <3>3. Supported(s, item) BY <2>5 DEF Supported
    <3> QED BY <3>1, <3>2, <3>3
  <2>8. Told(p) = A \cup B OBVIOUS
  <2>9. f[p].type = "MISSING_REQUIREMENT" /\ f[p].about = {p[2].to} BY <2>1 DEF MakeReference
  <2>10. \A x \in Of(s.refs, "VISIBLE") : x.kind = "inventory" => x.id \notin f[p].about
    BY <2>2, <2>9
  <2>11. RefOK(s, f[p])
    <3> HIDE DEF A, B, f, Told, unmet
    <3>1. Valued(A \cup B) BY <2>4, <2>6, ValuedJoin
    <3> HIDE DEF ContextOK, StateOK
    <3>2. RefOK(s, MakeReference(s, c, "MISSING_REQUIREMENT", A \cup B, {p[2]}, {p[2].to}))
      BY <2>3, <2>7, <3>1, MadeIsWeakest, Zenon
    <3> QED BY <2>1, <2>8, <3>2
  <2> QED BY <2>9, <2>10, <2>11
<1> HIDE DEF f, unmet
<1> QED BY <1>1, <1>3, <1>4

\* A context is of a place only when a map is visible.
LEMMA LocationContext ==
  ASSUME NEW s, StateOK(s), Reason(s).type = "LOCATION"
  PROVE  \E m \in Of(s.refs, "VISIBLE") : m.type = "map"
<1> DEFINE inView == Of(s.refs, "VISIBLE")
           chosen == IF ItemQuestCandidate(inView) # {} THEN ItemQuestCandidate(inView)
                     ELSE IF QuestCandidate(inView) # {} THEN QuestCandidate(inView)
                     ELSE {Fallback(s, inView)}
           found == CHOOSE c \in chosen : TRUE
<1>1. found.type = "LOCATION" BY DEF Reason, ReasonOn
<1>2. \A c \in ItemQuestCandidate(inView) : c.type = "ITEM_QUEST" BY ItemQuestCandidateIsOK
<1>3. \A c \in QuestCandidate(inView) : c.type = "QUEST_RELATED" BY QuestCandidateIsOK
<1>4. found \in chosen OBVIOUS
<1>5. found = Fallback(s, inView)
  <2> HIDE DEF found, inView
  <2> QED BY <1>1, <1>2, <1>3, <1>4
<1>6. Fallback(s, inView).type = "LOCATION" BY <1>1, <1>5
<1> HIDE DEF inView
<1>7. CASE "map" \in {r.type : r \in inView} BY <1>7 DEF inView
<1>8. CASE "map" \notin {r.type : r \in inView}
  <2> DEFINE types == {r.type : r \in inView}
  <2>1. Fallback(s, inView).type
        = (CASE inView = {} -> "UNKNOWN_CONTEXT"
             [] "map" \in types -> "LOCATION"
             [] "map" \notin types /\ "npc" \in types -> "NPC_RELATED"
             [] types \cap {"map", "npc"} = {} /\ types \cap {"item", "equipment"} # {} -> "ITEM_RELATED"
             [] OTHER -> "EXPLORATION")
    BY DEF Fallback
  <2> QED BY <1>6, <1>8, <2>1
<1> QED BY <1>7, <1>8

\* PlanningReferenceEngine.generate: everything told rests on what is supported; a
\* conflict is told of, and nothing else with it; a location, only when it is known.
LEMMA GeneratedIsOK ==
  ASSUME NEW s, StateOK(s), NEW c, ContextOK(s, c)
  PROVE  /\ Valued(Generate(s, c))
         /\ \A r \in Generate(s, c) :
              /\ RefOK(s, r)
              /\ r.type = "CONFLICT_NOTICE" => s.conflicts # {}
              /\ r.type = "KNOWN_LOCATION" => c.type = "LOCATION" /\ r.about = IdsOf(s.location)
              /\ r.type = "MISSING_REQUIREMENT" =>
                   \A x \in Of(s.refs, "VISIBLE") : x.kind = "inventory" => x.id \notin r.about
         /\ s.conflicts # {} => \E r \in Generate(s, c) : r.type = "CONFLICT_NOTICE"
<1> DEFINE present == {e \in c.entities : ~e.historical}
           visible == {e \in present : e.life = "VISIBLE"}
           missing == MissingRequirements(s, c)
           Told(type, entities, relations) ==
             MakeReference(s, c, type, entities, relations, IdsOf(s.location))
           Singles == {Told("CONFLICT_NOTICE", c.entities, c.relations),
                       Told("QUEST_CONTEXT", c.entities, c.relations),
                       Told("KNOWN_LOCATION", present, c.relations),
                       Told("RELATED_ENTITY", visible, c.relations),
                       Told("INFORMATION_GAP", {}, {})}
           G == Generate(s, c)
<1>1. /\ present \in SUBSET c.entities /\ visible \in SUBSET c.entities
      /\ Valued({}) /\ Valued(c.relations)
  <2>1. IsFiniteSet({}) BY FS_EmptySet
  <2>2. Valued({}) BY <2>1 DEF Valued
  <2>3. Valued(c.relations) BY RelationsAreValued, ValuedParts DEF ContextOK
  <2> QED BY <2>2, <2>3
<1>2. ASSUME NEW type, NEW entities \in SUBSET c.entities, NEW relations, Valued(relations)
      PROVE  RefOK(s, Told(type, entities, relations))
  <2>1. Valued(entities) BY ValuedParts DEF ContextOK
  <2>2. \A e \in entities : Supported(s, e) BY DEF ContextOK
  <2> QED BY <2>1, <2>2, <1>2, MadeIsWeakest, Zenon
<1>3. \A r \in Singles : RefOK(s, r)
  <2> HIDE DEF present, visible, Told
  <2>1. RefOK(s, Told("CONFLICT_NOTICE", c.entities, c.relations)) BY <1>1, <1>2
  <2>2. RefOK(s, Told("QUEST_CONTEXT", c.entities, c.relations)) BY <1>1, <1>2
  <2>3. RefOK(s, Told("KNOWN_LOCATION", present, c.relations)) BY <1>1, <1>2
  <2>4. RefOK(s, Told("RELATED_ENTITY", visible, c.relations)) BY <1>1, <1>2
  <2>5. RefOK(s, Told("INFORMATION_GAP", {}, {}))
    <3>1. {} \in SUBSET c.entities OBVIOUS
    <3> QED BY <1>1, <1>2, <3>1
  <2> QED BY <2>1, <2>2, <2>3, <2>4, <2>5
<1>4. /\ Told("CONFLICT_NOTICE", c.entities, c.relations).type = "CONFLICT_NOTICE"
      /\ Told("QUEST_CONTEXT", c.entities, c.relations).type = "QUEST_CONTEXT"
      /\ Told("KNOWN_LOCATION", present, c.relations).type = "KNOWN_LOCATION"
      /\ Told("KNOWN_LOCATION", present, c.relations).about = IdsOf(s.location)
      /\ Told("RELATED_ENTITY", visible, c.relations).type = "RELATED_ENTITY"
      /\ Told("INFORMATION_GAP", {}, {}).type = "INFORMATION_GAP"
  BY DEF MakeReference
<1>5. \/ s.conflicts # {} /\ G = {Told("CONFLICT_NOTICE", c.entities, c.relations)}
      \/ s.conflicts = {} /\ G = missing
      \/ s.conflicts = {} /\ G = {Told("QUEST_CONTEXT", c.entities, c.relations)}
      \/ s.conflicts = {} /\ c.type = "LOCATION" /\ G = {Told("KNOWN_LOCATION", present, c.relations)}
      \/ s.conflicts = {} /\ G = {Told("RELATED_ENTITY", visible, c.relations)}
      \/ s.conflicts = {} /\ G = {Told("INFORMATION_GAP", {}, {})}
  BY Zenon DEF Generate
<1>6. /\ IsFiniteSet(missing)
      /\ \A r \in missing :
           /\ RefOK(s, r) /\ r.type = "MISSING_REQUIREMENT"
           /\ \A x \in Of(s.refs, "VISIBLE") : x.kind = "inventory" => x.id \notin r.about
  BY MissingIs
<1> HIDE DEF G, missing, present, visible, Told
<1>7. IsFiniteSet(G)
  <2>1. \A x : IsFiniteSet({x}) BY FS_Singleton
  <2>2. G = missing \/ \E x : G = {x} BY <1>5
  <2> QED BY <1>6, <2>1, <2>2
<1>8. \A r \in G : RefOK(s, r) BY <1>3, <1>5, <1>6
<1>9. \A r \in G : r.type = "CONFLICT_NOTICE" => s.conflicts # {} BY <1>4, <1>5, <1>6
<1>10. \A r \in G : r.type = "KNOWN_LOCATION" => c.type = "LOCATION" /\ r.about = IdsOf(s.location)
  BY <1>4, <1>5, <1>6
<1>11. \A r \in G : r.type = "MISSING_REQUIREMENT" =>
         \A x \in Of(s.refs, "VISIBLE") : x.kind = "inventory" => x.id \notin r.about
  BY <1>4, <1>5, <1>6
<1>12. s.conflicts # {} => \E r \in G : r.type = "CONFLICT_NOTICE" BY <1>4, <1>5
<1>13. Valued(G) BY <1>7, <1>8 DEF Valued, RefOK
<1> QED BY <1>8, <1>9, <1>10, <1>11, <1>12, <1>13 DEF G

-----------------------------------------------------------------------------
\* When no number is used twice, what the latest number shows is the latest entry's.
LEMMA LatestAlone ==
  ASSUME NEW h, HistoryOK(h), Len(h) # 0, Distinct(h), NEW i \in DOMAIN h,
         h[i].id = Latest(h).id \/ h[i].at = Latest(h).at
  PROVE  i = LatestIndex(h)
BY LatestIs DEF Distinct

\* Of a set that has not more than one member any two are the same.
LEMMA NoneBeside ==
  ASSUME NEW S, IsFiniteSet(S), ~(Cardinality(S) > 1), NEW i \in S, NEW j \in S
  PROVE  i = j
<1> SUFFICES ASSUME i # j PROVE FALSE OBVIOUS
<1>1. IsFiniteSet(S \ {i}) /\ Cardinality(S \ {i}) = Cardinality(S) - 1 BY FS_RemoveElement
<1>2. S \ {i} # {} OBVIOUS
<1>3. Cardinality(S \ {i}) # 0 BY <1>1, <1>2, FS_EmptySet
<1>4. Cardinality(S \ {i}) \in Nat /\ Cardinality(S) \in Nat BY <1>1, FS_CardinalityType
<1> QED BY <1>1, <1>3, <1>4

\* A location that is in view is the location, when neither numbers nor times repeat
\* and the latest observation shows no other.
LEMMA LocationInView ==
  ASSUME NEW h, HistoryOK(h), Len(h) # 0, NEW t \in Int, Distinct(h), ~LocationConflict(h),
         NEW m \in References(h, t), m.kind = "location", m.life = "VISIBLE"
  PROVE  LatestLocation(h, References(h, t)) = {m}
<1> DEFINE R == References(h, t)
           locations == {r \in R : r.kind = "location"}
           last == {r \in locations : \A q \in locations : r.seen >= q.seen}
           L == LatestIndex(h)
           Here == LatestSelects(h, "location")
           First(r) == LET of == Selecting(h, r.id)
                       IN  CHOOSE p \in of : \A q \in of : NotAfter(h, p, q)
<1>1. ASSUME NEW r \in locations
      PROVE  LET n == NewestOf(h, r.id)
             IN  /\ n \in Selecting(h, r.id) /\ n \in Seen(h) /\ n[1] \in DOMAIN h
                 /\ r = Reference(h, t, n) /\ r.seen = h[n[1]].at /\ r.seen \in Int
                 /\ At(h, n).kind = "location" /\ At(h, n).id = r.id /\ At(h, n).resolved
  <2> DEFINE n == NewestOf(h, r.id)
  <2>1. r \in R /\ r.kind = "location" OBVIOUS
  <2>2. Selecting(h, r.id) # {} /\ r = Reference(h, t, n) /\ r.seen \in Int BY <2>1, ReferencesAre
  <2>3. n \in Selecting(h, r.id) BY <2>2, NewestOfIs
  <2>4. n \in Seen(h) /\ At(h, n).id = r.id /\ At(h, n).resolved BY <2>3 DEF Selecting
  <2>5. n[1] \in DOMAIN h BY <2>4, SeenIs
  <2>6. r.kind = At(h, n).kind /\ r.seen = h[n[1]].at BY <2>2 DEF Reference
  <2> QED BY <2>1, <2>2, <2>3, <2>4, <2>5, <2>6
<1>2. ASSUME NEW r \in locations, NewestOf(h, r.id)[1] = L
      PROVE  r.id \in Here
  BY <1>1, <1>2 DEF LatestSelects
<1>3. m \in locations OBVIOUS
<1>4. NewestOf(h, m.id)[1] = L
  <2>1. h[NewestOf(h, m.id)[1]].id = Latest(h).id BY VisibleIs
  <2>2. NewestOf(h, m.id)[1] \in DOMAIN h BY <1>1, <1>3
  <2> QED BY <2>1, <2>2, LatestAlone
<1>5. \A i, j \in Here : i = j
  <2>1. IsFiniteSet(Here)
    <3> DEFINE of == {q \in Seen(h) : q[1] = L /\ At(h, q).kind = "location" /\ At(h, q).resolved}
               f == [p \in of |-> At(h, p).id]
    <3>1. of \in SUBSET Seen(h) OBVIOUS
    <3>2. IsFiniteSet(of)
      <4> HIDE DEF of
      <4> QED BY <3>1, SeenIs, FS_Subset
    <3>3. IsFiniteSet({f[p] : p \in of})
      <4> HIDE DEF f, of
      <4> QED BY <3>2, ImageIsFinite
    <3>4. Here = {f[p] : p \in of} BY DEF LatestSelects
    <3> QED BY <3>3, <3>4
  <2>2. ~(Cardinality(Here) > 1) BY DEF LocationConflict
  <2> HIDE DEF Here
  <2> QED BY <2>1, <2>2, NoneBeside
<1>6. \A q \in locations : m.seen >= q.seen
  <2> SUFFICES ASSUME NEW q \in locations PROVE m.seen >= q.seen OBVIOUS
  <2>1. m.seen = Latest(h).at /\ m.seen \in Int BY <1>1, <1>3, <1>4 DEF Latest
  <2>2. q.seen = h[NewestOf(h, q.id)[1]].at /\ NewestOf(h, q.id)[1] \in DOMAIN h /\ q.seen \in Int
    BY <1>1
  <2>3. q.seen <= Latest(h).at BY <2>2, LatestIs
  <2> QED BY <2>1, <2>2, <2>3
<1>7. last = {m}
  <2>1. m \in last BY <1>3, <1>6
  <2>2. ASSUME NEW r \in last PROVE r = m
    <3>1. r \in locations /\ r.seen >= m.seen BY <1>3
    <3>2. m.seen >= r.seen BY <1>6, <3>1
    <3>3. r.seen \in Int /\ m.seen \in Int BY <1>1, <1>3, <3>1
    <3>4. r.seen = m.seen BY <3>1, <3>2, <3>3
    <3>5. m.seen = Latest(h).at BY <1>1, <1>3, <1>4 DEF Latest
    <3>6. r.seen = h[NewestOf(h, r.id)[1]].at /\ NewestOf(h, r.id)[1] \in DOMAIN h BY <1>1, <3>1
    <3>7. NewestOf(h, r.id)[1] = L BY <3>4, <3>5, <3>6, LatestAlone
    <3>8. r.id \in Here /\ m.id \in Here BY <1>2, <1>3, <1>4, <3>1, <3>7
    <3>9. r.id = m.id BY <1>5, <3>8
    <3>10. r = Reference(h, t, NewestOf(h, r.id)) /\ m = Reference(h, t, NewestOf(h, m.id))
      BY <1>1, <1>3, <3>1
    <3> QED BY <3>9, <3>10
  <2> QED BY <2>1, <2>2
<1>8. NotAfter(h, First(m), First(m)) BY DEF NotAfter
<1>9. LatestLocation(h, R) = {r \in last : \A q \in last : NotAfter(h, First(r), First(q))}
  BY DEF LatestLocation
<1> HIDE DEF last, R, First
<1> QED BY <1>7, <1>8, <1>9 DEF R

-----------------------------------------------------------------------------
\* What is told after a history at a time: ReferencesGrounded of those values.
GroundedBy(h, t, s, c, rs, told) ==
  /\ \A r \in rs : \A e \in r.entities :
       /\ e.life # "EXPIRED"
       /\ e.life = "LOST" => e.historical
       /\ e.life = "VISIBLE" => e.id \in ShownNow(h)
       /\ r.confidence <= e.confidence
  /\ told <= MinOf({s.confidence, c.confidence} \cup {r.confidence : r \in rs})
  /\ s.conflicts # {} <=> \E r \in rs : r.type = "CONFLICT_NOTICE"
  /\ Distinct(h) /\ ~LocationConflict(h) =>
       \A m \in References(h, t) : m.kind = "location" /\ m.life = "VISIBLE" =>
         IdsOf(s.location) = {m.id}
  /\ LocationConflict(h) => \A r \in rs : r.type # "KNOWN_LOCATION" \/ r.about = {}
  /\ \A r \in rs : r.type = "KNOWN_LOCATION" =>
       \E m \in Of(s.refs, "VISIBLE") : m.type = "map"
  /\ \A r \in rs : r.type = "MISSING_REQUIREMENT" =>
       ~\E x \in Of(s.refs, "VISIBLE") : x.kind = "inventory" /\ x.id \in r.about

\* process_observation makes of any history what is grounded in it.
LEMMA ProcessedIsGrounded ==
  ASSUME NEW h, HistoryOK(h), Len(h) # 0, NEW t \in Int
  PROVE  LET s == Reduce(h, t)
             c == Reason(s)
             rs == Generate(s, c)
         IN  GroundedBy(h, t, s, c, rs, Snapshot(s, c, rs).confidence)
<1> DEFINE s == Reduce(h, t)
           c == Reason(s)
           rs == Generate(s, c)
           least == MinOf({s.confidence, c.confidence} \cup {r.confidence : r \in rs})
<1>1. StateOK(s) BY ReducedIsOK
<1>2. s.refs \subseteq References(h, t) BY LocationIsReferenced
<1>3. s.location = IF LocationConflict(h) THEN {} ELSE LatestLocation(h, References(h, t))
  BY DEF Reduce
<1> HIDE DEF s
<1>4. ContextOK(s, c) BY <1>1, ReasonedIsOK
<1>5. c.type = "LOCATION" => \E m \in Of(s.refs, "VISIBLE") : m.type = "map"
  BY <1>1, LocationContext
<1> HIDE DEF c
<1>6. /\ Valued(rs)
      /\ \A r \in rs :
           /\ RefOK(s, r)
           /\ r.type = "CONFLICT_NOTICE" => s.conflicts # {}
           /\ r.type = "KNOWN_LOCATION" => c.type = "LOCATION" /\ r.about = IdsOf(s.location)
           /\ r.type = "MISSING_REQUIREMENT" =>
                \A x \in Of(s.refs, "VISIBLE") : x.kind = "inventory" => x.id \notin r.about
      /\ s.conflicts # {} => \E r \in rs : r.type = "CONFLICT_NOTICE"
  BY <1>1, <1>4, GeneratedIsOK
<1>7. Snapshot(s, c, rs).confidence = least BY DEF Snapshot
<1> HIDE DEF rs
<1>8. least \in Int
  <2> DEFINE A == {s.confidence} \cup {c.confidence}
             B == {r.confidence : r \in rs}
  <2>1. Numbers(A) BY <1>1, <1>4, OneNumber, NumbersJoin DEF StateOK, ContextOK
  <2>2. Numbers(B) BY <1>6, ValuesAre
  <2>3. least = MinOf(A \cup B)
    <3>1. {s.confidence, c.confidence} \cup {r.confidence : r \in rs} = A \cup B OBVIOUS
    <3> QED BY <3>1
  <2>4. s.confidence \in A \cup B OBVIOUS
  <2> HIDE DEF A, B, least
  <2>5. Numbers(A \cup B) /\ A \cup B # {} BY <2>1, <2>2, <2>4, NumbersJoin
  <2> QED BY <2>3, <2>5, MinIsLeast DEF Numbers
<1>9. ASSUME NEW r \in rs, NEW e \in r.entities
      PROVE  /\ e.life # "EXPIRED"
             /\ e.life = "LOST" => e.historical
             /\ e.life = "VISIBLE" => e.id \in ShownNow(h)
             /\ r.confidence <= e.confidence
  <2>1. Supported(s, e) /\ r.confidence <= e.confidence BY <1>6 DEF RefOK
  <2>2. CASE e.life = "UNKNOWN" BY <2>1, <2>2
  <2>3. CASE e.life = "LOST" /\ e.historical BY <2>1, <2>3
  <2>4. CASE \E x \in s.refs : x.life = "VISIBLE" /\ e = FromState(x, FALSE)
    <3>1. PICK x \in s.refs : x.life = "VISIBLE" /\ e = FromState(x, FALSE) BY <2>4
    <3>2. e.life = "VISIBLE" /\ e.id = x.id BY <3>1 DEF FromState
    <3>3. x.id \in ShownNow(h) BY <1>2, <3>1, VisibleIs
    <3> QED BY <2>1, <3>2, <3>3
  <2> QED BY <2>1, <2>2, <2>3, <2>4 DEF Supported
<1>10. Snapshot(s, c, rs).confidence <= least
  <2> HIDE DEF least
  <2> QED BY <1>7, <1>8
<1>11. s.conflicts # {} <=> \E r \in rs : r.type = "CONFLICT_NOTICE" BY <1>6
<1>12. ASSUME Distinct(h), ~LocationConflict(h), NEW m \in References(h, t),
              m.kind = "location", m.life = "VISIBLE"
       PROVE  IdsOf(s.location) = {m.id}
  <2>1. LatestLocation(h, References(h, t)) = {m} BY <1>12, LocationInView
  <2>2. s.location = {m} BY <1>3, <1>12, <2>1
  <2> QED BY <2>2 DEF IdsOf
<1>13. ASSUME LocationConflict(h), NEW r \in rs PROVE r.type # "KNOWN_LOCATION" \/ r.about = {}
  <2>1. IdsOf(s.location) = {} BY <1>3, <1>13 DEF IdsOf
  <2> QED BY <1>6, <2>1
<1>14. ASSUME NEW r \in rs, r.type = "KNOWN_LOCATION"
       PROVE  \E m \in Of(s.refs, "VISIBLE") : m.type = "map"
  BY <1>5, <1>6, <1>14
<1>15. ASSUME NEW r \in rs, r.type = "MISSING_REQUIREMENT"
       PROVE  ~\E x \in Of(s.refs, "VISIBLE") : x.kind = "inventory" /\ x.id \in r.about
  BY <1>6, <1>15
<1>16. GroundedBy(h, t, s, c, rs, Snapshot(s, c, rs).confidence)
  BY <1>9, <1>10, <1>11, <1>12, <1>13, <1>14, <1>15 DEF GroundedBy
<1> QED BY <1>16 DEF s, c, rs

-----------------------------------------------------------------------------
\* A history and another that goes on from it by one entry.
Goes(h, h2, e) ==
  /\ HistoryOK(h) /\ HistoryOK(h2) /\ Len(h) # 0
  /\ Len(h2) = Len(h) + 1 /\ h2[Len(h) + 1] = e
  /\ \A i \in DOMAIN h : h2[i] = h[i]

\* What was seen remains, in the same order.
LEMMA WhatWasRemains ==
  ASSUME NEW h, NEW h2, NEW e, Goes(h, h2, e)
  PROVE  /\ \A p \in Seen(h) : p \in Seen(h2) /\ At(h2, p) = At(h, p)
         /\ \A p \in Seen(h2) : p[1] \in DOMAIN h => p \in Seen(h)
         /\ \A p, q \in Spots(h) : NotAfter(h2, p, q) <=> NotAfter(h, p, q)
         /\ Distinct(h2) => Distinct(h)
         /\ \A i \in DOMAIN h2 : i \in DOMAIN h \/ i = Len(h) + 1
         /\ DOMAIN h \subseteq DOMAIN h2
<1>1. DOMAIN h \subseteq DOMAIN h2 /\ \A i \in DOMAIN h2 : i \in DOMAIN h \/ i = Len(h) + 1
  BY DEF Goes, HistoryOK
<1>2. \A i \in DOMAIN h : h2[i] = h[i] BY DEF Goes
<1>3. ASSUME NEW p \in Seen(h) PROVE p \in Seen(h2) /\ At(h2, p) = At(h, p)
  <2>1. PICK i \in DOMAIN h : p \in {i} \X DOMAIN h[i].pieces BY DEF Seen
  <2>2. p \in {i} \X DOMAIN h2[i].pieces /\ i \in DOMAIN h2 BY <1>1, <1>2, <2>1
  <2>3. p \in Seen(h2) BY <2>2 DEF Seen
  <2>4. p[1] = i BY <2>1
  <2> QED BY <1>2, <2>3, <2>4 DEF At
<1>4. ASSUME NEW p \in Seen(h2), p[1] \in DOMAIN h PROVE p \in Seen(h)
  <2>1. PICK i \in DOMAIN h2 : p \in {i} \X DOMAIN h2[i].pieces BY DEF Seen
  <2>2. p[1] = i BY <2>1
  <2>3. p \in {i} \X DOMAIN h[i].pieces /\ i \in DOMAIN h BY <1>2, <1>4, <2>1, <2>2
  <2> QED BY <2>3 DEF Seen
<1>5. ASSUME NEW p \in Spots(h), NEW q \in Spots(h) PROVE NotAfter(h2, p, q) <=> NotAfter(h, p, q)
  <2>1. h2[p[1]] = h[p[1]] /\ h2[q[1]] = h[q[1]] BY <1>2 DEF Spots
  <2> QED BY <2>1 DEF NotAfter, Before
<1>6. Distinct(h2) => Distinct(h) BY <1>1, <1>2 DEF Distinct
<1> QED BY <1>1, <1>3, <1>4, <1>5, <1>6

\* What an observation adds: SeenAgainToReturn of those values.
ReturnsBy(h, h2, s, s2) ==
  LET new == Last(h2)
      shows == {new.pieces[i].id : i \in DOMAIN new.pieces}
      appears == IdsOf(Of(s2.refs, "VISIBLE")) \ IdsOf(Of(s.refs, "VISIBLE"))
  IN  /\ Distinct(h2) => appears \subseteq shows
      /\ Distinct(h2) /\ new.at < Latest(h).at =>
           appears = {} /\ s2.observation = s.observation
      /\ s2.at >= s.at
      /\ \A p \in s.conflicts : At(h, p).conflict => p \in s2.conflicts

\* When the new entry is the latest, what is visible is in it.
LEMMA NewShows ==
  ASSUME NEW h, NEW h2, NEW e, Goes(h, h2, e), Distinct(h2), LatestIndex(h2) = Len(h) + 1,
         NEW t2 \in Int, NEW r \in References(h2, t2), r.life = "VISIBLE"
  PROVE  \E i \in DOMAIN e.pieces : r.id = e.pieces[i].id
<1> DEFINE n == NewestOf(h2, r.id)
<1>0. HistoryOK(h2) /\ Len(h2) # 0 /\ h2[Len(h) + 1] = e BY DEF Goes, HistoryOK
<1>1. h2[n[1]].id = Latest(h2).id BY <1>0, VisibleIs
<1>2. n \in Selecting(h2, r.id) BY <1>0, ReferencesAre, NewestOfIs
<1> HIDE DEF n
<1>3. n \in Seen(h2) /\ At(h2, n).id = r.id BY <1>2 DEF Selecting
<1>4. n[1] \in DOMAIN h2 /\ n[2] \in DOMAIN h2[n[1]].pieces BY <1>0, <1>3, SeenIs
<1>5. n[1] = LatestIndex(h2) BY <1>0, <1>1, <1>4, LatestAlone
<1> QED BY <1>0, <1>3, <1>4, <1>5 DEF At

\* When the latest is not the new entry it is the latest there was.
LEMMA LatestRemains ==
  ASSUME NEW h, NEW h2, NEW e, Goes(h, h2, e), LatestIndex(h2) # Len(h) + 1
  PROVE  LatestIndex(h2) = LatestIndex(h) /\ Latest(h2) = Latest(h)
<1> DEFINE a == LatestIndex(h)
           b == LatestIndex(h2)
<1>0. HistoryOK(h) /\ HistoryOK(h2) /\ Len(h) # 0 /\ Len(h2) # 0 BY DEF Goes, HistoryOK
<1>1. a \in DOMAIN h /\ b \in DOMAIN h BY <1>0, LatestIs, WhatWasRemains
<1>2. NotAfter(h, <<b, 0>>, <<a, 0>>) BY <1>0, <1>1, LatestIs
<1>3. NotAfter(h2, <<a, 0>>, <<b, 0>>) BY <1>0, <1>1, LatestIs, WhatWasRemains
<1>4. <<a, 0>> \in Spots(h) /\ <<b, 0>> \in Spots(h) BY <1>1 DEF Spots
<1>5. NotAfter(h, <<a, 0>>, <<b, 0>>) BY <1>3, <1>4, WhatWasRemains
<1>6. <<a, 0>> = <<b, 0>> BY <1>0, <1>2, <1>4, <1>5, OrderIsTotal
<1>7. a = b BY <1>6
<1> QED BY <1>0, <1>1, <1>7, LatestIs DEF Goes

\* And then what is visible was visible.
LEMMA VisibleBefore ==
  ASSUME NEW h, NEW h2, NEW e, Goes(h, h2, e), Distinct(h2), LatestIndex(h2) # Len(h) + 1,
         NEW t \in Int, NEW t2 \in Int, t <= t2,
         NEW r \in Reduce(h2, t2).refs, r.life = "VISIBLE"
  PROVE  \E q \in Reduce(h, t).refs : q.life = "VISIBLE" /\ q.id = r.id
<1> DEFINE n == NewestOf(h, r.id)
           m == NewestOf(h2, r.id)
           L == LatestIndex(h)
<1>0. /\ HistoryOK(h) /\ HistoryOK(h2) /\ Len(h) # 0 /\ Len(h2) # 0
      /\ \A i \in DOMAIN h : h2[i] = h[i]
  BY DEF Goes, HistoryOK
<1>1. Distinct(h) BY WhatWasRemains
<1>2. LatestIndex(h2) = L /\ Latest(h2) = Latest(h) /\ L \in DOMAIN h
  BY <1>0, LatestRemains, LatestIs
<1>3. r \in References(h2, t2) BY LocationIsReferenced
<1>4. /\ h2[m[1]].id = Latest(h2).id /\ Age(t2, h2[m[1]].at) <= Stale
      /\ Selecting(h2, r.id) # {} /\ r = Reference(h2, t2, m)
  BY <1>0, <1>3, VisibleIs, ReferencesAre
<1>5. m \in Selecting(h2, r.id) /\ \A q \in Selecting(h2, r.id) : NotAfter(h2, q, m)
  BY <1>0, <1>4, NewestOfIs
<1> HIDE DEF m, n, L
<1>6. m \in Seen(h2) /\ At(h2, m).id = r.id /\ At(h2, m).resolved BY <1>5 DEF Selecting
<1>7. m[1] = L
  <2>1. m[1] \in DOMAIN h2 BY <1>0, <1>6, SeenIs
  <2> QED BY <1>0, <1>2, <1>4, <2>1, LatestAlone
<1>8. m \in Seen(h) /\ At(h, m) = At(h2, m) BY <1>2, <1>6, <1>7, WhatWasRemains
<1>9. m \in Selecting(h, r.id) BY <1>6, <1>8 DEF Selecting
<1>10. n \in Selecting(h, r.id) /\ NotAfter(h, m, n) BY <1>0, <1>1, <1>9, NewestOfIs DEF n
<1>11. n = m
  <2>1. n \in Seen(h) /\ At(h, n).id = r.id /\ At(h, n).resolved BY <1>10 DEF Selecting
  <2>2. n \in Selecting(h2, r.id) BY <2>1, WhatWasRemains DEF Selecting
  <2>3. n \in Spots(h) /\ m \in Spots(h) BY <1>0, <1>8, <2>1, SeenIs
  <2>4. NotAfter(h, n, m) BY <1>5, <2>2, <2>3, WhatWasRemains
  <2> QED BY <1>0, <1>10, <2>3, <2>4, OrderIsTotal
<1> DEFINE q == Reference(h, t, n)
<1>12. q \in References(h, t) /\ q.id = r.id /\ q.kind = r.kind
  <2>1. r.id \in SelectedIds(h) BY <1>6, <1>8 DEF SelectedIds
  <2>2. q \in References(h, t) BY <2>1 DEF References, n
  <2>3. q.id = At(h, n).id /\ q.kind = At(h, n).kind BY DEF Reference
  <2>4. r.kind = At(h2, m).kind BY <1>4 DEF Reference
  <2> QED BY <1>6, <1>8, <1>11, <2>2, <2>3, <2>4
<1>13. q.life = "VISIBLE"
  <2>1. h[n[1]] = Latest(h) BY <1>0, <1>7, <1>11, LatestIs DEF L
  <2>2. h2[m[1]].at = h[n[1]].at BY <1>0, <1>2, <1>7, <1>11
  <2>3. h[n[1]].at \in Int BY <1>0, <1>2, <1>7, <1>11 DEF HistoryOK, EntryOK
  <2>4. Age(t, h[n[1]].at) <= Age(t2, h[n[1]].at) BY <2>3 DEF Age
  <2>5. Age(t, h[n[1]].at) \in Nat /\ Age(t2, h[n[1]].at) \in Nat BY <2>3, WeightIsPositive
  <2>6. Age(t, h[n[1]].at) <= Stale BY <1>4, <2>2, <2>4, <2>5 DEF Stale
  <2>7. n \in Seen(h) BY <1>8, <1>11
  <2>8. Lifecycle(h, t, n) = "VISIBLE" BY <1>0, <2>1, <2>6, <2>7, VisibleWhen
  <2> QED BY <2>8 DEF Reference
<1> HIDE DEF q
<1>14. q \in Reduce(h, t).refs
  <2>1. Reduce(h, t).refs
        = (IF LocationConflict(h) THEN {} ELSE LatestLocation(h, References(h, t)))
          \cup {x \in References(h, t) : x.kind # "location"}
    BY DEF Reduce
  <2>2. CASE q.kind # "location" BY <1>12, <2>1, <2>2
  <2>3. CASE q.kind = "location" /\ ~LocationConflict(h)
    <3>1. LatestLocation(h, References(h, t)) = {q}
      BY <1>0, <1>1, <1>12, <1>13, <2>3, LocationInView
    <3> QED BY <2>1, <2>3, <3>1
  <2>4. CASE q.kind = "location" /\ LocationConflict(h)
    <3>1. LatestSelects(h, "location") = LatestSelects(h2, "location")
      <4>1. \A p \in Seen(h) : p \in Seen(h2) /\ At(h2, p) = At(h, p) BY WhatWasRemains
      <4>2. \A p \in Seen(h2) : p[1] = L => p \in Seen(h) BY <1>2, WhatWasRemains
      <4>3. LatestSelects(h, "location") \subseteq LatestSelects(h2, "location")
        BY <1>2, <4>1 DEF LatestSelects, L
      <4>4. LatestSelects(h2, "location") \subseteq LatestSelects(h, "location")
        BY <1>2, <4>1, <4>2 DEF LatestSelects, L
      <4> QED BY <4>3, <4>4
    <3>2. LocationConflict(h2) BY <2>4, <3>1 DEF LocationConflict
    <3>3. Reduce(h2, t2).refs = {x \in References(h2, t2) : x.kind # "location"}
      BY <3>2 DEF Reduce
    <3>4. r.kind # "location" BY <3>3
    <3> QED BY <1>12, <2>4, <3>4
  <2> QED BY <2>2, <2>3, <2>4
<1> QED BY <1>12, <1>13, <1>14

\* process_observation after process_observation.
LEMMA ProcessedReturns ==
  ASSUME NEW h, NEW h2, NEW e, Goes(h, h2, e), Last(h2) = e, NEW t \in Int, NEW t2 \in Int, t <= t2
  PROVE  ReturnsBy(h, h2, Reduce(h, t), Reduce(h2, t2))
<1> DEFINE s == Reduce(h, t)
           s2 == Reduce(h2, t2)
           appears == IdsOf(Of(s2.refs, "VISIBLE")) \ IdsOf(Of(s.refs, "VISIBLE"))
           shows == {e.pieces[i].id : i \in DOMAIN e.pieces}
<1>0. /\ HistoryOK(h) /\ HistoryOK(h2) /\ Len(h) # 0 /\ Len(h2) # 0
      /\ \A i \in DOMAIN h : h2[i] = h[i]
  BY DEF Goes, HistoryOK
<1>1. /\ s.at = Latest(h).at /\ s2.at = Latest(h2).at
      /\ s.observation = Latest(h).id /\ s2.observation = Latest(h2).id
      /\ s.conflicts = Conflicts(h) /\ s2.conflicts = Conflicts(h2)
      /\ s2.refs \subseteq References(h2, t2)
  BY LocationIsReferenced DEF Reduce
<1> HIDE DEF s, s2
<1>2. s2.at >= s.at
  <2>1. LatestIndex(h) \in DOMAIN h2 /\ h2[LatestIndex(h)] = Latest(h)
    BY <1>0, LatestIs, WhatWasRemains
  <2>2. Latest(h).at <= Latest(h2).at BY <1>0, <2>1, LatestIs
  <2>3. Latest(h).at \in Int /\ Latest(h2).at \in Int
    BY <1>0, LatestIs DEF HistoryOK, EntryOK
  <2> QED BY <1>1, <2>2, <2>3
<1>3. ASSUME NEW p \in s.conflicts, At(h, p).conflict PROVE p \in s2.conflicts
  <2>1. p \in Seen(h) BY <1>1 DEF Conflicts
  <2>2. p \in Seen(h2) /\ At(h2, p).conflict BY <1>3, <2>1, WhatWasRemains
  <2> QED BY <1>1, <2>2 DEF Conflicts
<1>4. ASSUME Distinct(h2), LatestIndex(h2) = Len(h) + 1
      PROVE  appears \subseteq shows /\ ~(e.at < Latest(h).at)
  <2>1. \A r \in References(h2, t2) : r.life = "VISIBLE" => r.id \in shows BY <1>4, NewShows
  <2>2. appears \subseteq shows BY <1>1, <2>1 DEF IdsOf, Of
  <2>3. Latest(h2) = e BY <1>0, <1>4, LatestIs DEF Goes
  <2>4. Latest(h).at \in Int /\ e.at \in Int
    BY <1>0, <2>3, LatestIs DEF HistoryOK, EntryOK
  <2> QED BY <1>1, <1>2, <2>2, <2>3, <2>4
<1>5. ASSUME Distinct(h2), LatestIndex(h2) # Len(h) + 1
      PROVE  appears = {} /\ s2.observation = s.observation
  <2>1. \A r \in s2.refs : r.life = "VISIBLE" => \E q \in s.refs : q.life = "VISIBLE" /\ q.id = r.id
    BY <1>5, VisibleBefore DEF s, s2
  <2>2. appears = {} BY <2>1 DEF IdsOf, Of
  <2>3. Latest(h2) = Latest(h) BY <1>5, LatestRemains
  <2> QED BY <1>1, <2>2, <2>3
<1>6. Distinct(h2) => appears \subseteq shows BY <1>4, <1>5
<1>7. Distinct(h2) /\ e.at < Latest(h).at => appears = {} /\ s2.observation = s.observation
  BY <1>4, <1>5
<1> HIDE DEF appears, shows
<1>8. ReturnsBy(h, h2, s, s2) BY <1>2, <1>3, <1>6, <1>7 DEF ReturnsBy, appears, shows
<1> QED BY <1>8 DEF s, s2

-----------------------------------------------------------------------------
\* What is told at any time was made of the history by the last process_observation.
AsProcessed(h, t, s, c, rs, current) ==
  /\ s = Reduce(h, t) /\ c = Reason(s) /\ rs = Generate(s, c)
  /\ current = Snapshot(s, c, rs)

\* The inductive invariant: times are in order, the history is one, and what is told is
\* what its last process_observation made of it, however long ago that was.
CompanionInv ==
  /\ clock \in Nat /\ history \in Seq(Entries)
  /\ session.now \in Nat /\ session.now <= clock
  /\ Len(history) # 0 => AsProcessed(history, session.now, state, context, refs, session.current)

\* A new session has it,
LEMMA CompanionInvInit == CompanionInit => CompanionInv
BY DEF CompanionInit, CompanionInv

\* One process_observation: an entry of what an adapter made is appended, and all the
\* rest made of the history anew.
Processed ==
  /\ \E e \in Entries : history' = Append(history, e)
  /\ AsProcessed(history', clock, state', context', refs', session'.current)
  /\ session'.now = clock /\ clock' = clock

\* Whatever the adapter, process_observation does this.
LEMMA ProcessIs ==
  ASSUME CompanionInv, NEW input \in Given, ProcessObservation(input)
  PROVE  Processed
<1>1. PICK delay \in Delays, again \in BOOLEAN :
        /\ delay <= clock
        /\ Process(Len(history) + (IF again THEN 0 ELSE 1), clock - delay, input)
  BY DEF ProcessObservation
<1> DEFINE id == Len(history) + (IF again THEN 0 ELSE 1)
           at == clock - delay
           e == Entry(id, at, input.evidence, input.status)
<1>2. clock \in Nat /\ Len(history) \in Nat BY LenProperties DEF CompanionInv
<1>3. delay \in Nat BY CompanionConstants
<1>4. id \in Int /\ at \in Int BY <1>2, <1>3
<1> HIDE DEF id, at
<1>5. e \in Entries
  <2>1. \E i \in Int, a \in Int, x \in Given : e = Entry(i, a, x.evidence, x.status) BY <1>4
  <2> HIDE DEF e
  <2> QED BY <2>1 DEF Entries
<1>6. /\ history' = Append(history, e) /\ state' = Reduce(history', clock)
      /\ context' = Reason(state') /\ refs' = Generate(state', context')
      /\ session' = Record(Snapshot(state', context', refs'), state') /\ clock' = clock
  BY <1>1 DEF Process, id, at
<1>7. session'.current = Snapshot(state', context', refs') /\ session'.now = clock
  BY <1>6 DEF Record
<1> QED BY <1>5, <1>6, <1>7 DEF Processed, AsProcessed

\* A step processes an observation or lets time pass.
LEMMA StepIs ==
  ASSUME CompanionInv, [CompanionNext]_companionVars
  PROVE  \/ Processed
         \/ /\ UNCHANGED <<history, state, context, refs, session>>
            /\ clock' = clock \/ clock' = clock + 1
<1>1. CASE ObserveEvidence
  <2>1. PICK e \in Inputs : ProcessObservation([evidence |-> e, status |-> NoStatus])
    BY <1>1 DEF ObserveEvidence
  <2>2. [evidence |-> e, status |-> NoStatus] \in Given BY DEF Given
  <2> QED BY <2>1, <2>2, ProcessIs
<1>2. CASE ObserveScreen
  <2>1. PICK screen \in Screens : ProcessObservation(FromScreen(screen)) BY <1>2 DEF ObserveScreen
  <2>2. FromScreen(screen) \in Given BY DEF Given
  <2> QED BY <2>1, <2>2, ProcessIs
<1>3. CASE ObserveCandidates
  <2>1. PICK candidates \in Sightings : ProcessObservation(FromCandidates(candidates))
    BY <1>3 DEF ObserveCandidates
  <2>2. FromCandidates(candidates) \in Given BY DEF Given
  <2> QED BY <2>1, <2>2, ProcessIs
<1>4. CASE Tick BY <1>4 DEF Tick
<1>5. CASE UNCHANGED companionVars BY <1>5 DEF companionVars
<1> QED BY <1>1, <1>2, <1>3, <1>4, <1>5 DEF CompanionNext

\* and every step keeps it.
LEMMA CompanionInvStep == CompanionInv /\ [CompanionNext]_companionVars => CompanionInv'
<1> SUFFICES ASSUME CompanionInv, [CompanionNext]_companionVars PROVE CompanionInv' OBVIOUS
<1>1. CASE Processed
  <2>1. PICK e \in Entries : history' = Append(history, e) BY <1>1 DEF Processed
  <2>2. history' \in Seq(Entries) BY <2>1, AppendProperties DEF CompanionInv
  <2>3. clock' \in Nat /\ session'.now \in Nat /\ session'.now <= clock'
    BY <1>1 DEF Processed, CompanionInv
  <2>4. AsProcessed(history', session'.now, state', context', refs', session'.current)
    BY <1>1 DEF Processed
  <2> QED BY <2>2, <2>3, <2>4 DEF CompanionInv
<1>2. CASE /\ UNCHANGED <<history, state, context, refs, session>>
           /\ clock' = clock \/ clock' = clock + 1
  <2>1. clock' \in Nat /\ session'.now \in Nat /\ session'.now <= clock' BY <1>2 DEF CompanionInv
  <2> QED BY <1>2, <2>1 DEF CompanionInv
<1> QED BY <1>1, <1>2, StepIs

\* companion_runtime/: in every session, of any length, at any time, what is told is what
\* the whole history reduces to at the time of the last observation.
THEOREM CompanionInvariance == CompanionSpec => []CompanionInv
BY CompanionInvInit, CompanionInvStep, PTL DEF CompanionSpec

\* companion_runtime/, planning_reference/: whatever came late or twice, what is told
\* rests on what the latest observation shows (ReferencesGrounded).
THEOREM ToldIsGrounded == CompanionSpec => []ReferencesGrounded
<1>1. CompanionInv => ReferencesGrounded
  <2> SUFFICES ASSUME CompanionInv, history # <<>> PROVE ReferencesGrounded
    BY DEF ReferencesGrounded
  <2>1. HistoryOK(history) /\ Len(history) # 0 /\ session.now \in Int
    BY HistoriesAreOK, EmptySeq DEF CompanionInv
  <2>2. AsProcessed(history, session.now, state, context, refs, session.current)
    BY <2>1 DEF CompanionInv
  <2>3. GroundedBy(history, session.now, state, context, refs, session.current.confidence)
    BY <2>1, <2>2, ProcessedIsGrounded DEF AsProcessed
  <2> QED BY <2>3 DEF GroundedBy, ReferencesGrounded
<1> QED BY <1>1, CompanionInvariance, PTL

\* game_state/temporal.py: an entity comes into view only with an observation that shows
\* it, a late one changes nothing of the present, and conflicts remain (SeenAgainToReturn).
THEOREM SeenAgainIsShown == CompanionSpec => SeenAgainToReturn
<1>1. CompanionInv /\ [CompanionNext]_companionVars =>
        (history # <<>> /\ history' # history => ReturnsBy(history, history', state, state'))
  <2> SUFFICES ASSUME CompanionInv, [CompanionNext]_companionVars, history # <<>>, history' # history
               PROVE  ReturnsBy(history, history', state, state')
    OBVIOUS
  <2>1. Processed BY StepIs
  <2>2. PICK e \in Entries : history' = Append(history, e) BY <2>1 DEF Processed
  <2>3. history \in Seq(Entries) /\ Len(history) # 0 BY EmptySeq DEF CompanionInv
  <2>4. history' \in Seq(Entries) /\ Len(history') = Len(history) + 1
        /\ history'[Len(history) + 1] = e /\ \A i \in DOMAIN history : history'[i] = history[i]
    BY <2>2, <2>3, AppendProperties, LenProperties
  <2>5. HistoryOK(history) /\ HistoryOK(history') BY <2>3, <2>4, HistoriesAreOK
  <2>6. Goes(history, history', e) BY <2>3, <2>4, <2>5 DEF Goes
  <2>7. Last(history') = e BY <2>4 DEF Last
  <2>8. session.now \in Int /\ clock \in Int /\ session.now <= clock BY DEF CompanionInv
  <2>9. state = Reduce(history, session.now) /\ state' = Reduce(history', clock)
    BY <2>1, <2>3 DEF Processed, AsProcessed, CompanionInv
  <2> QED BY <2>6, <2>7, <2>8, <2>9, ProcessedReturns
<1>2. CompanionInv /\ [CompanionNext]_companionVars =>
        [history # <<>> /\ history' # history =>
           LET new == Last(history')
               shows == {new.pieces[i].id : i \in DOMAIN new.pieces}
               appears == IdsOf(Of(state'.refs, "VISIBLE")) \ IdsOf(Of(state.refs, "VISIBLE"))
           IN  /\ Distinct(history') => appears \subseteq shows
               /\ Distinct(history') /\ new.at < Latest(history).at =>
                    appears = {} /\ state'.observation = state.observation
               /\ state'.at >= state.at
               /\ \A p \in state.conflicts : At(history, p).conflict => p \in state'.conflicts]_companionVars
  BY <1>1 DEF ReturnsBy
<1> QED BY <1>2, CompanionInvariance, PTL DEF CompanionSpec, SeenAgainToReturn
=============================================================================
