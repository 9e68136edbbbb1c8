------------------------------- MODULE Execution -------------------------------
(***************************************************************************)
(* execution/ with executor/: a plan is taken apart into one task per      *)
(* step; each goes through validation, the gate and the executor, is tried *)
(* again once after a failure, and is observed.  The first step that is    *)
(* blocked or failed ends the run.  A run holds the process until it       *)
(* returns; what the executor answers is up to the executor.               *)
(***************************************************************************)
EXTENDS Naturals, Sequences, SequencesExt

CONSTANTS
  Action,    \* actions a plan may ask for
  Target,    \* targets a plan may name
  Allowed,   \* actions on the gate's list
  Physical,  \* actions and targets whose text has the keyword of a physical action
  MaxSteps   \* bound: the steps of a plan

ASSUME ExecutionConstants == MaxSteps \in Nat

VARIABLES
  plan,     \* the ActionPlan of the run under way, NoPlan between runs
  cur,      \* the record of the step under way, Idle between runs
  done,     \* the local list of records of the run under way
  records,  \* last_records: what the last run left
  run       \* state: what the last run reported

execVars == <<plan, cur, done, records, run>>

NoTarget == "no target"
Plan == [action : Action, target : Target \cup {NoTarget}, steps : 0..MaxSteps]
NoPlan == [action |-> "no action", target |-> NoTarget, steps |-> 0]

MaxRetry == 1

\* _TRANSITION_TABLE: where a step may come from.  (A slip: no way from FAILED.)
FinalFailure ==
  [VALIDATING |-> {"CREATED"}, READY |-> {"VALIDATING"},
   RUNNING |-> {"READY", "WAITING_OBSERVATION"}, WAITING_OBSERVATION |-> {"RUNNING"},
   COMPLETED |-> {"WAITING_OBSERVATION"}, FAILED |-> {"RUNNING", "WAITING_OBSERVATION"},
   BLOCKED |-> {"CREATED", "VALIDATING", "READY", "RUNNING"}]

Sources ==
  [VALIDATING |-> {"CREATED"}, READY |-> {"VALIDATING", "FAILED"},
   RUNNING |-> {"READY", "WAITING_OBSERVATION"}, WAITING_OBSERVATION |-> {"RUNNING"},
   COMPLETED |-> {"WAITING_OBSERVATION"}, FAILED |-> {"RUNNING", "WAITING_OBSERVATION"},
   BLOCKED |-> {"CREATED", "VALIDATING", "READY", "RUNNING"}]

\* go(): an illegal transition raises, and nothing after it happens.
Go(rec, s) ==
  IF rec.illegal \/ rec.status \notin Sources[s]
  THEN [rec EXCEPT !.illegal = TRUE]
  ELSE [rec EXCEPT !.status = s, !.trail = Append(@, s)]

Through(rec, s, t) == Go(Go(rec, s), t)

\* task.status, which is set once the step has arrived where it ends.  The task
\* is in the record, and so are both statuses.
Telling(rec, s) == IF rec.illegal THEN rec ELSE [rec EXCEPT !.task = s]

Fresh(i) ==
  [index |-> i, status |-> "CREATED", task |-> "CREATED", trail |-> <<>>, illegal |-> FALSE,
   retries |-> 0, calls |-> 0, result |-> "none", observed |-> FALSE]

Idle == Fresh(0)

\* SafetyGate.check: neither a physical keyword nor an action off the list.
GateAllows(p) == p.action \in Allowed \ Physical /\ p.target \notin Physical

ExecInit ==
  /\ plan = NoPlan /\ cur = Idle /\ done = <<>> /\ records = <<>>
  /\ run = [status |-> "IDLE", total |-> 0, current |-> 0]

-----------------------------------------------------------------------------
\* run(): an empty plan is blocked at once.
BeginRun(p) ==
  /\ cur = Idle
  /\ done' = <<>>
  /\ IF p.steps = 0
     THEN /\ run' = [status |-> "BLOCKED", total |-> 0, current |-> 0]
          /\ records' = <<>>
          /\ cur' = Idle /\ plan' = NoPlan
     ELSE /\ cur' = Fresh(1) /\ plan' = p
          /\ UNCHANGED <<records, run>>

\* The loop over the steps takes a finished record: it goes on with the next
\* step, or the run ends here.
TakeRecord(rec) ==
  LET list == Append(done, rec)
      ends == rec.status \in {"BLOCKED", "FAILED"} \/ Len(list) = plan.steps
  IN  /\ done' = IF ends THEN <<>> ELSE list
      /\ cur' = IF ends THEN Idle ELSE Fresh(Len(list) + 1)
      /\ records' = IF ends THEN list ELSE records
      /\ run' = IF ends
                THEN [status |-> rec.status, total |-> plan.steps, current |-> Len(list)]
                ELSE run
      /\ plan' = IF ends THEN NoPlan ELSE plan

\* _execute_task up to the first call: no target and no permission both block.
Validate ==
  /\ cur.status = "CREATED" /\ cur # Idle
  /\ IF plan.target = NoTarget \/ ~GateAllows(plan)
     THEN TakeRecord(Telling([Through(cur, "VALIDATING", "BLOCKED") EXCEPT !.result = "BLOCKED"],
                             "BLOCKED"))
     ELSE /\ cur' = Go(Through(cur, "VALIDATING", "READY"), "RUNNING")
          /\ UNCHANGED <<plan, done, records, run>>

\* build_mock_feedback: the observation agrees exactly with a completed result,
\* and the step goes where the feedback says.  The task is told it is completed
\* without asking the feedback.
Feedback(rec) ==
  LET next == IF rec.result = "COMPLETED" THEN "COMPLETED" ELSE "FAILED"
  IN  Telling([Through(rec, "WAITING_OBSERVATION", next) EXCEPT !.observed = TRUE], "COMPLETED")

\* One call of the executor: its answer, an exception being a failure.  An
\* answer that is none of the three final ones is left to the observation.
Answers == {"COMPLETED", "FAILED", "BLOCKED", "RUNNING"}

Execute(answer) ==
  LET rec == [cur EXCEPT !.calls = @ + 1, !.result = answer]
  IN  /\ cur.status = "RUNNING"
      /\ CASE answer = "FAILED" /\ cur.retries < MaxRetry ->
                /\ cur' = Go(Through([rec EXCEPT !.retries = @ + 1], "FAILED", "READY"), "RUNNING")
                /\ UNCHANGED <<plan, done, records, run>>
           [] answer = "FAILED" /\ cur.retries >= MaxRetry -> TakeRecord(Telling(Go(rec, "FAILED"), "FAILED"))
           [] answer = "BLOCKED" -> TakeRecord(Telling(Go(rec, "BLOCKED"), "BLOCKED"))
           [] answer \in {"COMPLETED", "RUNNING"} -> TakeRecord(Feedback(rec))

ExecStep == Validate \/ \E answer \in Answers : Execute(answer)

-----------------------------------------------------------------------------
(* What a run leaves behind agrees with itself: no step was driven into an *)
(* illegal transition, whatever the executor answered; the report names    *)
(* the number of records and the last one's status; every step before the  *)
(* last was completed; and a step that was called at all was called at     *)
(* most once more than it was retried, and only with the gate's consent.   *)
(* The two statuses in a record say the same but in one case, in which     *)
(* they always part: the observation denied the result, the step is FAILED *)
(* and its task COMPLETED (execution/orchestrator.py).                     *)
RunAgreesWithRecords ==
  /\ \A rec \in ToSet(records) \cup ToSet(done) \cup {cur} :
       /\ ~rec.illegal
       /\ rec.calls <= rec.retries + 1 /\ rec.retries <= MaxRetry
       /\ rec.status = "COMPLETED" => rec.calls > 0 /\ rec.result = "COMPLETED"
       /\ rec.task = "COMPLETED" <=> rec.observed
  /\ \A rec \in ToSet(records) \cup ToSet(done) :
       rec.task # rec.status <=> rec.status = "FAILED" /\ rec.observed
  /\ \A rec \in ToSet(done) : rec.status = "COMPLETED"
  /\ run.current = Len(records)
  /\ \A i \in DOMAIN records : records[i].index = i
  /\ \A i \in 1..(Len(records) - 1) : records[i].status = "COMPLETED"
  /\ records # <<>> => run.status = Last(records).status
  /\ run.status = "COMPLETED" => run.current = run.total
  /\ cur # Idle /\ cur.calls > 0 => GateAllows(plan) /\ plan.target # NoTarget
=============================================================================
