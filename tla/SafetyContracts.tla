------------------------------ MODULE SafetyContracts ------------------------------
(***************************************************************************)
(* safety_vnext/: the contract under which an action might one day be      *)
(* executed.  Of everything that expires it matters only whether it has    *)
(* (stale), identifiers are compared only where both sides give one        *)
(* (Anything stands for none given), and sets of what is allowed allow     *)
(* everything when they are empty.                                         *)
(***************************************************************************)
EXTENDS Integers, FiniteSets

Anything == ""
Fits(restriction, id) == restriction \in {Anything, id}
Admits(allowed, x) == allowed = {} \/ x \in allowed

\* ControlledExecutionPolicyReference
Policy(mode, enabled, required, types, targets, window) ==
  [id |-> mode, mode |-> mode, enabled |-> enabled, stale |-> FALSE, version |-> "VNEXT", required |-> required,
   types |-> types, targets |-> targets, window |-> window,
   perSecond |-> 1, perMinute |-> 20, continuous |-> 300, retries |-> 3, failures |-> 5,
   navigation |-> 60, combat |-> 30]

Mandatory == {"confirmation", "permission", "outcome", "kill switch"}

\* SafetyVNextPolicyService: both of its policies are disabled.
DefaultPolicy == Policy("MOCK_ONLY", FALSE, Mandatory, {}, {}, Anything)
ControlledTestPolicy(types) == Policy("CONTROLLED_TEST", FALSE, Mandatory, types, {}, Anything)

\* validate_mode_invariant
ModeIssues(policy) ==
  (IF policy.mode # "MOCK_ONLY" /\ policy.enabled THEN {"must remain disabled"} ELSE {})
  \cup (Mandatory \ policy.required)

\* PermissionPolicyV2, GameWindowBindingReference, ExecutionSessionReference,
\* ExecutionBudgetReference
PermissionPolicy(scope, targets, types, window, session, maxActions) ==
  [scope |-> scope, targets |-> targets, types |-> types, window |-> window, session |-> session,
   maxActions |-> maxActions, stale |-> FALSE]
Binding(id, status) == [id |-> id, status |-> status, complete |-> TRUE, stale |-> FALSE]
Session(mode, policy, window, actions) ==
  [id |-> "session", mode |-> mode, policy |-> policy, window |-> window, actions |-> actions,
   version |-> "VNEXT", status |-> "ACTIVE", stale |-> FALSE]
Budget(second, minute, continuous, retries, failures, elapsed) ==
  [second |-> second, minute |-> minute, continuous |-> continuous, retries |-> retries,
   failures |-> failures, elapsed |-> elapsed]

\* GateInputReference, without the action, its evaluation and what is expected of it.
GateInput(policy, permission, grant, binding, session, confirmation, switches, budget, mode) ==
  [policy |-> policy, permission |-> permission, grant |-> grant, binding |-> binding, session |-> session,
   confirmation |-> confirmation, switches |-> switches, budget |-> budget, mode |-> mode]

-----------------------------------------------------------------------------
\* _check_permission: the token, then the policy it was granted under.
PermissionHolds(token, grant, action, binding, session) ==
  /\ token.approved /\ ~token.stale /\ ~grant.stale
  /\ Fits(grant.scope, action.type)
  /\ Admits(grant.targets, action.target)
  /\ Admits(grant.types, action.type)
  /\ Fits(grant.window, binding.id)
  /\ Fits(grant.session, session.id)
  /\ grant.maxActions = 0 \/ session.actions < grant.maxActions

\* _check_binding
BindingHolds(binding, policy, grant) ==
  /\ binding.status = "PASSED" /\ binding.complete /\ ~binding.stale
  /\ Fits(policy.window, binding.id)
  /\ Fits(grant.window, binding.id)

\* _check_session; its own kill switch is not asked.
SessionHolds(session, policy, binding) ==
  /\ session.status = "ACTIVE" /\ ~session.stale
  /\ session.version = policy.version
  /\ session.mode = policy.mode
  /\ Fits(session.policy, policy.id)
  /\ Fits(session.window, binding.id)

\* (A slip: a policy is asked for its version and scope only.)
PolicyInScope(policy, action, binding) ==
  /\ policy.version = "VNEXT"
  /\ Admits(policy.types, action.type)
  /\ Admits(policy.targets, action.target)

\* _check_policy
PolicyHolds(policy, action, binding) ==
  /\ policy.enabled /\ ~policy.stale /\ policy.version = "VNEXT"
  /\ Admits(policy.types, action.type)
  /\ Admits(policy.targets, action.target)
  /\ Fits(policy.window, binding.id)

\* _check_budget: at a limit there is none left.
BudgetHolds(policy, budget, action) ==
  /\ budget.second < policy.perSecond
  /\ budget.minute < policy.perMinute
  /\ budget.continuous < policy.continuous
  /\ budget.retries < policy.retries
  /\ budget.failures < policy.failures
  /\ action.type = "NAVIGATE" => budget.elapsed < policy.navigation
  /\ action.type = "COMBAT" => budget.elapsed < policy.combat

\* _check_kill_switch
SwitchesClear(policy, switches) ==
  /\ "kill switch" \in policy.required => switches # {}
  /\ \A s \in switches : s.state # "ACTIVE"

\* _check_outcome: what is expected, if verification is required, is expected of this
\* very action; if it is not required, to expect nothing is only warned of.
OutcomeHolds(policy, expected, action) ==
  expected # {} /\ ("outcome" \in policy.required => \A e \in expected : e.action = action)
OutcomeWarned(policy, expected) == "outcome" \notin policy.required /\ expected = {}

\* evaluate_typed, one check after the other and all of them.
Failed(name, holds) == IF holds THEN {} ELSE {name}
BlockedReasons(in, action, valid, gate, expected) ==
  Failed("ACTION", valid) \cup Failed("SAFETY", gate = "ALLOW")
  \cup Failed("CONFIRMATION", in.confirmation = "APPROVED")
  \cup Failed("PERMISSION", PermissionHolds(in.permission, in.grant, action, in.binding, in.session))
  \cup Failed("WINDOW_BINDING", BindingHolds(in.binding, in.policy, in.grant))
  \cup Failed("SESSION", SessionHolds(in.session, in.policy, in.binding))
  \cup Failed("POLICY", PolicyHolds(in.policy, action, in.binding))
  \cup Failed("RATE_BUDGET", BudgetHolds(in.policy, in.budget, action))
  \cup Failed("KILL_SWITCH", SwitchesClear(in.policy, in.switches))
  \cup Failed("EXPECTED_OUTCOME", OutcomeHolds(in.policy, expected, action) \/ OutcomeWarned(in.policy, expected))

\* ControlledExecutionGateReference
GateReference(in, action, valid, gate, expected) ==
  LET blocked == BlockedReasons(in, action, valid, gate, expected)
      eligible == in.policy.mode # "MOCK_ONLY" /\ blocked = {} /\ ~OutcomeWarned(in.policy, expected)
  IN  [blocked |-> blocked \cup (IF in.policy.mode = "MOCK_ONLY" THEN {"MODE"} ELSE {}),
       contract |-> eligible, runtime |-> eligible /\ in.mode # "MOCK_ONLY"]

-----------------------------------------------------------------------------
\* aggregate_readiness, ControlledExecutionReadinessReference
Gates == {"safety contract", "vision", "knowledge", "permission", "window binding", "kill switch", "rate limit", "outcome"}
Readiness(vision, knowledge, ready) ==
  LET flags == (ready \ {"vision", "knowledge"})
               \cup (IF vision = "PASSED" THEN {"vision"} ELSE {})
               \cup (IF knowledge = "READY" THEN {"knowledge"} ELSE {})
  IN  [ready |-> flags = Gates, missing |-> Gates \ flags]
=============================================================================
