----------------------------- MODULE CognitiveLoop -----------------------------
(***************************************************************************)
(* agent_loop/orchestrator.py with its trace and validator: one run takes  *)
(* an observation through evaluation, decision, plan, confirmation,        *)
(* sandbox, reflection and benchmark.  Every stage may raise; some may     *)
(* block.  A run is synchronous: users act between runs, time never waits. *)
(***************************************************************************)
EXTENDS Authorization, FiniteSets, SequencesExt

VARIABLES
  pc,     \* the stage the run is at; "out" between runs
  plan,   \* the action plan of the run
  cur,    \* the request of the run, 0 before there is one
  ctx,    \* the fields of AgentLoopContext that are set, named by stage
  stages, \* the stages of the trace so far
  last    \* status, verdict and request the last run left for the console

loopVars == <<pc, plan, cur, ctx, stages, last>>
vars == <<authVars, loopVars>>

Order == <<"observation", "vision_evaluation", "decision", "planning",
           "confirmation", "approval", "sandbox", "reflection", "evaluation">>

After(s) == Order[1 + CHOOSE i \in 1..(Len(Order) - 1) : Order[i] = s]

\* AgentLoopValidator.VALID_STAGES.  (A slip: the decision after the plan.)
PlanBeforeDecision ==
  <<"observation", "vision_evaluation", "knowledge", "planning", "decision",
    "confirmation", "sandbox", "reflection", "evaluation">>

ValidStages ==
  <<"observation", "vision_evaluation", "knowledge", "decision", "planning",
    "confirmation", "sandbox", "reflection", "evaluation">>

Required == {"observation", "vision_evaluation", "decision", "planning", "confirmation"}

\* The validator: known stages in order, the gate not skipped, nothing missing.
Valid(fields, trace, final) ==
  /\ \A i \in DOMAIN trace : trace[i] \in ToSet(ValidStages)
  /\ \A i, j \in DOMAIN trace, x, y \in DOMAIN ValidStages :
       i < j /\ trace[i] = ValidStages[x] /\ trace[j] = ValidStages[y] => x < y
  /\ "sandbox" \in fields => {"confirmation", "approval"} \subseteq fields
  /\ final = "COMPLETED" => "sandbox" \in fields
  /\ Required \subseteq fields

Init ==
  /\ AuthInit
  /\ pc = "out" /\ plan = <<>> /\ cur = 0 /\ ctx = {} /\ stages = <<>>
  /\ last = [final |-> "none", valid |-> FALSE, request |-> 0]

-----------------------------------------------------------------------------
\* A run begins; the plan it will arrive at, if it does, is chosen now.
Begin ==
  /\ pc = "out"
  /\ pc' = Head(Order) /\ plan' \in Action \X Target
  /\ UNCHANGED <<authVars, cur, ctx, stages, last>>

\* The end of run(): the trace is written, which may raise and leave what the
\* run before left; then context and verdict are kept.
Conclude(fields, trace, final) ==
  /\ pc' = "out" /\ plan' = <<>> /\ cur' = 0 /\ ctx' = {} /\ stages' = <<>>
  /\ \/ last' = [final |-> final, valid |-> Valid(fields, trace, final), request |-> cur]
     \/ UNCHANGED last

Block(fields, trace) == Conclude(fields, trace, "BLOCKED")

\* A stage raised: the context with which the run began goes on as FAILED.
Fail == Conclude({}, Append(stages, "error"), "FAILED")

Proceed ==
  /\ pc' = After(pc)
  /\ ctx' = ctx \cup {pc}
  /\ stages' = Append(stages, pc)
  /\ UNCHANGED <<plan, last>>

-----------------------------------------------------------------------------
\* Stages 1 to 4.  The evaluation blocks after it is recorded, the decision
\* and the plan before.
Think ==
  /\ pc \in {"observation", "vision_evaluation", "decision", "planning"}
  /\ \/ Proceed /\ UNCHANGED cur
     \/ pc = "vision_evaluation" /\ Block(ctx \cup {pc}, Append(stages, pc))
     \/ pc \in {"decision", "planning"} /\ Block(ctx, stages)
     \/ Fail
  /\ UNCHANGED authVars

\* Stage 5: a pending request; high risk has blocked the run before.
Confirm ==
  /\ pc = "confirmation"
  /\ \/ /\ CreateRequest(plan[1], plan[2], "PENDING")
        /\ cur' = Len(request')
        /\ Proceed
     \/ Fail /\ UNCHANGED request
  /\ UNCHANGED <<now, token, done>>

\* Stage 6: without auto_approve the run ends here, blocked, and its request
\* waits for the user.  approve() issues the token before it writes its trace,
\* which may raise.
Authorize ==
  /\ pc = "approval"
  /\ \/ Block(ctx, stages) /\ UNCHANGED authVars
     \/ /\ Approve(cur) /\ UNCHANGED <<now, done>>
        /\ \/ /\ pc' = After(pc) /\ ctx' = ctx \cup {pc}
              /\ UNCHANGED <<plan, cur, stages, last>>
           \/ Fail
     \/ Fail /\ UNCHANGED authVars

\* Stage 7: the token may have expired by now, or the policy refuse; and the
\* sandbox's replay may raise after the execution.  (A slip: any execution of
\* the sandbox, or none, will do.)
RunUnchecked ==
  /\ pc = "sandbox"
  /\ Proceed /\ UNCHANGED <<authVars, cur>>

RunSandbox ==
  /\ pc = "sandbox"
  /\ LET k == Len(token)
     IN  \/ /\ Execute(k, plan[1], plan[2], <<token[k].action, token[k].target>>)
            /\ UNCHANGED <<now, request, token>>
            /\ \/ Proceed /\ UNCHANGED cur
               \/ Fail
         \/ /\ ~Verified(k, plan[1], <<token[k].action, token[k].target>>)
            /\ Block(ctx, stages) \/ Fail
            /\ UNCHANGED authVars

\* Stages 8 and 9.
Reflect ==
  /\ pc \in {"reflection", "evaluation"}
  /\ \/ pc = "reflection" /\ Proceed /\ UNCHANGED cur
     \/ /\ pc = "evaluation"
        /\ Conclude(ctx \cup {pc}, Append(stages, pc), "COMPLETED")
     \/ Fail
  /\ UNCHANGED authVars

\* Between runs: users and other callers of the manager and the sandbox.
Others ==
  /\ pc = "out"
  /\ UserApproves \/ UserRejects \/ SomeoneExpires \/ SomeoneExecutes
  /\ UNCHANGED loopVars

Time == Tick /\ UNCHANGED loopVars

Next == Begin \/ Think \/ Confirm \/ Authorize \/ RunSandbox \/ Reflect \/ Others \/ Time

Spec == Init /\ [][Next]_vars

-----------------------------------------------------------------------------
TypeOK ==
  /\ AuthTypeOK
  /\ pc \in ToSet(Order) \cup {"out"} /\ plan \in (Action \X Target) \cup {<<>>}
  /\ cur \in 0..MaxRequests
  /\ ctx \subseteq ToSet(Order) /\ stages \in Seq(ToSet(Order) \cup {"error"})
  /\ last \in [final : {"none", "COMPLETED", "BLOCKED", "FAILED"},
              valid : BOOLEAN, request : 0..MaxRequests]

\* The validator, which sees only what a run left behind, agrees with what
\* happened: it accepts every completed run, no failed one (though the sandbox
\* may have executed before the failure), and none stopped before the
\* confirmation gate.
VerdictFits ==
  /\ last.final = "COMPLETED" => last.valid
  /\ last.final = "FAILED" => ~last.valid
  /\ last.valid => last.request # 0

\* A completed run executed what its own request asked for, action and target,
\* with the token of that request.
CompletedAsConfirmed ==
  last.final = "COMPLETED" =>
    \E d \in done :
      /\ token[d.token].request = last.request
      /\ d.action = request[last.request].action
      /\ d.target = request[last.request].target
=============================================================================
