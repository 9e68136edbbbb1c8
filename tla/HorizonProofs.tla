---------------------------- MODULE HorizonProofs ----------------------------
(***************************************************************************)
(* Theorems of LongHorizon, for every set of goals, records, experiences,  *)
(* failure patterns, plans and answers of the executor: what a run leaves  *)
(* behind, the progress through the graph of a goal, taken apart or        *)
(* rearranged, what schedules, orders and scores are accepted by, and that *)
(* failures are warned of.                                                 *)
(* The lemmas before them say what the operators compute that the model is *)
(* built from: the transitions of a step, lists without repetition,        *)
(* positions in sorted order, sequences put together, recursive functions, *)
(* scores of patterns.                                                     *)
(***************************************************************************)
EXTENDS LongHorizon, FiniteSetTheorems, WellFoundedInduction, TLAPS

-----------------------------------------------------------------------------
(* Execution: the records of a run.                                        *)
Statuses == {"CREATED"} \cup DOMAIN Sources

Told == {"CREATED", "BLOCKED", "FAILED", "COMPLETED"}

Step ==
  [index : Nat, status : Statuses, task : Told, trail : Seq(Statuses), illegal : BOOLEAN,
   retries : Nat, calls : Nat, result : {"none"} \cup Answers, observed : BOOLEAN]

\* The states of a step that can be entered (execution/state_machine.py).
LEMMA StatusNames ==
  DOMAIN Sources = {"VALIDATING", "READY", "RUNNING", "WAITING_OBSERVATION", "COMPLETED",
                    "FAILED", "BLOCKED"}
  BY DEF Sources

\* A legal transition changes status and trail, and nothing else.
LEMMA GoLegal ==
  ASSUME NEW rec \in Step, ~rec.illegal, NEW s \in DOMAIN Sources, rec.status \in Sources[s]
  PROVE  /\ Go(rec, s) \in Step /\ Go(rec, s).status = s /\ ~Go(rec, s).illegal
         /\ Go(rec, s).task = rec.task /\ Go(rec, s).observed = rec.observed
         /\ Go(rec, s).index = rec.index /\ Go(rec, s).retries = rec.retries
         /\ Go(rec, s).calls = rec.calls /\ Go(rec, s).result = rec.result
  <1>1. Go(rec, s) = [rec EXCEPT !.status = s, !.trail = Append(@, s)]
    BY DEF Go
  <1>2. Append(rec.trail, s) \in Seq(Statuses)
    BY DEF Step, Statuses
  <1> QED
    BY <1>1, <1>2 DEF Step, Statuses

\* What the task is told changes nothing else.
LEMMA TellingIs ==
  ASSUME NEW rec \in Step, ~rec.illegal, NEW s \in Told
  PROVE  /\ Telling(rec, s) \in Step /\ Telling(rec, s).task = s /\ ~Telling(rec, s).illegal
         /\ Telling(rec, s).status = rec.status /\ Telling(rec, s).index = rec.index
         /\ Telling(rec, s).retries = rec.retries /\ Telling(rec, s).calls = rec.calls
         /\ Telling(rec, s).result = rec.result /\ Telling(rec, s).observed = rec.observed
  BY DEF Telling, Step

\* The path of a step that is about to be called.
LEMMA PathToRunning ==
  ASSUME NEW rec \in Step, ~rec.illegal, rec.status = "CREATED"
  PROVE  LET r == Go(Through(rec, "VALIDATING", "READY"), "RUNNING")
         IN  /\ r \in Step /\ r.status = "RUNNING" /\ ~r.illegal /\ r.index = rec.index
             /\ r.retries = rec.retries /\ r.calls = rec.calls /\ r.result = rec.result
             /\ r.task = rec.task /\ r.observed = rec.observed
  <1> DEFINE a == Go(rec, "VALIDATING")  b == Go(a, "READY")
  <1>1. a \in Step /\ a.status = "VALIDATING" /\ ~a.illegal /\ a.index = rec.index
        /\ a.retries = rec.retries /\ a.calls = rec.calls /\ a.result = rec.result
        /\ a.task = rec.task /\ a.observed = rec.observed
    BY GoLegal, StatusNames DEF Sources
  <1> HIDE DEF a
  <1>2. b \in Step /\ b.status = "READY" /\ ~b.illegal /\ b.index = rec.index
        /\ b.retries = rec.retries /\ b.calls = rec.calls /\ b.result = rec.result
        /\ b.task = rec.task /\ b.observed = rec.observed
    BY <1>1, GoLegal, StatusNames DEF Sources
  <1> HIDE DEF b
  <1>3. Go(b, "RUNNING") \in Step /\ Go(b, "RUNNING").status = "RUNNING"
        /\ ~Go(b, "RUNNING").illegal /\ Go(b, "RUNNING").index = rec.index
        /\ Go(b, "RUNNING").retries = rec.retries /\ Go(b, "RUNNING").calls = rec.calls
        /\ Go(b, "RUNNING").result = rec.result /\ Go(b, "RUNNING").task = rec.task
        /\ Go(b, "RUNNING").observed = rec.observed
    BY <1>2, GoLegal, StatusNames DEF Sources
  <1>4. Go(Through(rec, "VALIDATING", "READY"), "RUNNING") = Go(b, "RUNNING")
    BY DEF Through, a, b
  <1> QED
    BY <1>3, <1>4

\* The way back of a call that failed and is tried again.
LEMMA PathToRetry ==
  ASSUME NEW rec \in Step, ~rec.illegal, rec.status = "RUNNING"
  PROVE  LET r == Go(Through(rec, "FAILED", "READY"), "RUNNING")
         IN  /\ r \in Step /\ r.status = "RUNNING" /\ ~r.illegal /\ r.index = rec.index
             /\ r.retries = rec.retries /\ r.calls = rec.calls /\ r.result = rec.result
             /\ r.task = rec.task /\ r.observed = rec.observed
  <1> DEFINE a == Go(rec, "FAILED")  b == Go(a, "READY")
  <1>1. a \in Step /\ a.status = "FAILED" /\ ~a.illegal /\ a.index = rec.index
        /\ a.retries = rec.retries /\ a.calls = rec.calls /\ a.result = rec.result
        /\ a.task = rec.task /\ a.observed = rec.observed
    BY GoLegal, StatusNames DEF Sources
  <1> HIDE DEF a
  <1>2. b \in Step /\ b.status = "READY" /\ ~b.illegal /\ b.index = rec.index
        /\ b.retries = rec.retries /\ b.calls = rec.calls /\ b.result = rec.result
        /\ b.task = rec.task /\ b.observed = rec.observed
    BY <1>1, GoLegal, StatusNames DEF Sources
  <1> HIDE DEF b
  <1>3. Go(b, "RUNNING") \in Step /\ Go(b, "RUNNING").status = "RUNNING"
        /\ ~Go(b, "RUNNING").illegal /\ Go(b, "RUNNING").index = rec.index
        /\ Go(b, "RUNNING").retries = rec.retries /\ Go(b, "RUNNING").calls = rec.calls
        /\ Go(b, "RUNNING").result = rec.result /\ Go(b, "RUNNING").task = rec.task
        /\ Go(b, "RUNNING").observed = rec.observed
    BY <1>2, GoLegal, StatusNames DEF Sources
  <1>4. Go(Through(rec, "FAILED", "READY"), "RUNNING") = Go(b, "RUNNING")
    BY DEF Through, a, b
  <1> QED
    BY <1>3, <1>4

\* A record that is kept: of its own position, in a final status it came to
\* legally, called at most once more than retried, and completed only if called;
\* its task told of the same unless the observation denied the result.
Finished(r, i) ==
  /\ r \in Step /\ r.index = i /\ ~r.illegal
  /\ r.status \in {"COMPLETED", "FAILED", "BLOCKED"}
  /\ r.retries <= MaxRetry /\ r.calls <= r.retries + 1
  /\ r.status = "COMPLETED" => r.calls > 0 /\ r.result = "COMPLETED"
  /\ r.task = "COMPLETED" <=> r.observed
  /\ r.task # r.status <=> r.status = "FAILED" /\ r.observed

\* The list of a run: all but possibly the last one completed.
RunList(list) ==
  /\ list \in Seq(Step)
  /\ \A i \in 1..Len(list) : Finished(list[i], i)
  /\ \A i \in 1..(Len(list) - 1) : list[i].status = "COMPLETED"

Busy ==
  /\ plan \in Plan /\ Len(done) < plan.steps
  /\ cur \in Step /\ cur.index = Len(done) + 1 /\ ~cur.illegal
  /\ \/ cur = Fresh(Len(done) + 1)
     \/ /\ cur.status = "RUNNING" /\ cur.calls = cur.retries /\ cur.retries <= MaxRetry
        /\ cur.task = "CREATED" /\ ~cur.observed
        /\ GateAllows(plan) /\ plan.target # NoTarget

ExecInv ==
  /\ RunList(done) /\ \A i \in 1..Len(done) : done[i].status = "COMPLETED"
  /\ RunList(records)
  /\ run \in [status : Statuses \cup {"IDLE"}, total : Nat, current : Nat]
  /\ run.current = Len(records)
  /\ Len(records) > 0 => run.status = records[Len(records)].status
  /\ run.status = "COMPLETED" => run.current = run.total
  /\ (cur = Idle /\ Len(done) = 0) \/ Busy

\* A new record of a step is one.
LEMMA FreshIsStep ==
  ASSUME NEW i \in Nat
  PROVE  /\ Fresh(i) \in Step /\ Fresh(i).index = i /\ Fresh(i).status = "CREATED"
         /\ ~Fresh(i).illegal /\ Fresh(i).retries = 0 /\ Fresh(i).calls = 0
         /\ Fresh(i).result = "none" /\ Fresh(i).task = "CREATED" /\ ~Fresh(i).observed
  BY DEF Fresh, Step, Statuses, Told

\* Whoever works on a step is in a run.
LEMMA BusyIsNotIdle == ASSUME ExecInv, cur # Idle PROVE Busy
  BY DEF ExecInv

\* A finished record ends its run or hands over to the next step.
LEMMA TakeKeeps ==
  ASSUME ExecInv, Busy, NEW rec, Finished(rec, Len(done) + 1), TakeRecord(rec)
  PROVE  ExecInv'
  <1> DEFINE list == Append(done, rec)
             ends == rec.status \in {"BLOCKED", "FAILED"} \/ Len(list) = plan.steps
  <1>1. /\ done \in Seq(Step) /\ rec \in Step
        /\ list \in Seq(Step) /\ Len(list) = Len(done) + 1 /\ Len(done) \in Nat
        /\ \A i \in 1..Len(done) : list[i] = done[i]
        /\ list[Len(list)] = rec
    BY DEF ExecInv, RunList, Finished
  <1>2. RunList(list)
    <2>1. \A i \in 1..Len(list) : Finished(list[i], i)
      BY <1>1 DEF ExecInv, RunList
    <2>2. \A i \in 1..(Len(list) - 1) : list[i].status = "COMPLETED"
      BY <1>1 DEF ExecInv
    <2> HIDE DEF list
    <2> QED BY <1>1, <2>1, <2>2 DEF RunList
  <1>3. rec.status \in {"COMPLETED", "FAILED", "BLOCKED"}
    BY DEF Finished
  <1>4. plan \in Plan /\ plan.steps \in Nat /\ Len(done) < plan.steps
    BY ExecutionConstants DEF Busy, Plan
  <1>5. CASE ends
    <2>1. /\ done' = <<>> /\ cur' = Idle /\ records' = list
          /\ run' = [status |-> rec.status, total |-> plan.steps, current |-> Len(list)]
      BY <1>5 DEF TakeRecord
    <2>2. RunList(done') /\ Len(done') = 0
      BY <2>1 DEF RunList
    <2>3. run' \in [status : Statuses \cup {"IDLE"}, total : Nat, current : Nat]
          /\ run'.current = Len(records') /\ run'.status = records'[Len(records')].status
      <3> HIDE DEF list
      <3> QED BY <1>1, <1>3, <1>4, <2>1, StatusNames DEF Statuses
    <2>4. run'.status = "COMPLETED" => run'.current = run'.total
      BY <1>3, <1>5, <2>1
    <2> HIDE DEF list
    <2> QED BY <1>2, <2>1, <2>2, <2>3, <2>4 DEF ExecInv, Idle
  <1>6. CASE ~ends
    <2>1. /\ done' = list /\ cur' = Fresh(Len(list) + 1)
          /\ records' = records /\ run' = run /\ plan' = plan
      BY <1>6 DEF TakeRecord
    <2>2. \A i \in 1..Len(done') : done'[i].status = "COMPLETED"
      <3>1. rec.status = "COMPLETED"
        BY <1>3, <1>6
      <3> QED BY <1>1, <2>1, <3>1 DEF ExecInv
    <2>3. Busy'
      <3>1. Len(list) < plan.steps
        BY <1>1, <1>4, <1>6
      <3> HIDE DEF list
      <3>2. Len(list) + 1 \in Nat
        BY <1>1
      <3> QED BY <1>4, <2>1, <3>1, <3>2, FreshIsStep DEF Busy
    <2> HIDE DEF list
    <2> QED BY <1>2, <2>1, <2>2, <2>3 DEF ExecInv
  <1> QED
    BY <1>5, <1>6

\* The beginning of a run keeps the records right;
LEMMA BeginKeeps ==
  ASSUME ExecInv, NEW p \in Plan, BeginRun(p)
  PROVE  ExecInv'
  <1>1. RunList(done') /\ Len(done') = 0
    BY DEF BeginRun, RunList
  <1>2. CASE p.steps = 0
    <2>1. RunList(records') /\ Len(records') = 0
      BY <1>2 DEF BeginRun, RunList
    <2>2. run' = [status |-> "BLOCKED", total |-> 0, current |-> 0] /\ cur' = Idle
      BY <1>2 DEF BeginRun
    <2>3. /\ run' \in [status : Statuses \cup {"IDLE"}, total : Nat, current : Nat]
          /\ run'.current = 0 /\ run'.status = "BLOCKED"
      BY <2>2, StatusNames DEF Statuses
    <2> QED BY <1>1, <2>1, <2>2, <2>3 DEF ExecInv, Idle, RunList
  <1>3. CASE p.steps # 0
    <2>1. cur' = Fresh(1) /\ plan' = p /\ UNCHANGED <<records, run>>
      BY <1>3 DEF BeginRun
    <2>2. 0 < p.steps
      BY <1>3, ExecutionConstants DEF Plan
    <2>3. Busy'
      BY <1>1, <2>1, <2>2, FreshIsStep DEF Busy
    <2> QED BY <1>1, <2>1, <2>3 DEF ExecInv
  <1> QED
    BY <1>2, <1>3

\* so does the gate, whatever it decides,
LEMMA ValidateKeeps ==
  ASSUME ExecInv, Validate
  PROVE  ExecInv'
  <1>1. Busy /\ cur = Fresh(Len(done) + 1)
    BY BusyIsNotIdle DEF Validate, Busy
  <1>2. cur \in Step /\ ~cur.illegal /\ cur.status = "CREATED" /\ cur.retries = 0 /\ cur.calls = 0
        /\ cur.index = Len(done) + 1 /\ cur.task = "CREATED" /\ ~cur.observed
    <2>1. Len(done) + 1 \in Nat
      BY DEF ExecInv, RunList
    <2> QED BY <1>1, <2>1, FreshIsStep
  <1>3. CASE plan.target = NoTarget \/ ~GateAllows(plan)
    <2> DEFINE a == Go(cur, "VALIDATING")  b == Go(a, "BLOCKED")
               c == [b EXCEPT !.result = "BLOCKED"]
               rec == Telling(c, "BLOCKED")
    <2>1. a \in Step /\ a.status = "VALIDATING" /\ ~a.illegal /\ a.index = cur.index
          /\ a.retries = 0 /\ a.calls = 0 /\ ~a.observed
      BY <1>2, GoLegal, StatusNames DEF Sources
    <2> HIDE DEF a
    <2>2. b \in Step /\ b.status = "BLOCKED" /\ ~b.illegal /\ b.index = cur.index
          /\ b.retries = 0 /\ b.calls = 0 /\ ~b.observed
      BY <2>1, GoLegal, StatusNames DEF Sources
    <2>3. TakeRecord(rec)
      BY <1>3 DEF Validate, Through, a, b
    <2> HIDE DEF b
    <2>4. Finished(rec, Len(done) + 1)
      <3>1. c \in Step
        BY <2>2 DEF Step, Answers
      <3>2. c.status = "BLOCKED" /\ ~c.illegal /\ c.index = Len(done) + 1 /\ c.retries = 0 /\ c.calls = 0
            /\ ~c.observed
        BY <1>2, <2>2 DEF Step
      <3> HIDE DEF c
      <3>3. "BLOCKED" \in Told
        BY DEF Told
      <3>4. /\ rec \in Step /\ rec.task = "BLOCKED" /\ ~rec.illegal /\ rec.status = "BLOCKED"
            /\ rec.index = Len(done) + 1 /\ rec.retries = 0 /\ rec.calls = 0 /\ ~rec.observed
        BY <3>1, <3>2, <3>3, TellingIs
      <3> HIDE DEF rec
      <3> QED BY <3>4 DEF Finished, MaxRetry
    <2> HIDE DEF rec
    <2> QED BY <1>1, <2>3, <2>4, TakeKeeps
  <1>4. CASE ~(plan.target = NoTarget \/ ~GateAllows(plan))
    <2> DEFINE r == Go(Through(cur, "VALIDATING", "READY"), "RUNNING")
    <2>1. /\ r \in Step /\ r.status = "RUNNING" /\ ~r.illegal /\ r.index = cur.index
          /\ r.retries = cur.retries /\ r.calls = cur.calls
          /\ r.task = cur.task /\ r.observed = cur.observed
      BY <1>2, PathToRunning
    <2>2. cur' = r /\ UNCHANGED <<plan, done, records, run>>
      BY <1>4 DEF Validate
    <2> HIDE DEF r
    <2>3. Busy'
      BY <1>1, <1>2, <1>4, <2>1, <2>2 DEF Busy, GateAllows, MaxRetry
    <2> QED BY <2>2, <2>3 DEF ExecInv
  <1> QED
    BY <1>3, <1>4

\* and the executor, whatever it answers, with its one retry.
LEMMA ExecuteKeeps ==
  ASSUME ExecInv, NEW answer \in Answers, Execute(answer)
  PROVE  ExecInv'
  <1> DEFINE rec == [cur EXCEPT !.calls = @ + 1, !.result = answer]
  <1>1. cur.status = "RUNNING"
    BY DEF Execute
  <1>2. Busy /\ cur.calls = cur.retries /\ cur.retries <= MaxRetry
        /\ GateAllows(plan) /\ plan.target # NoTarget
        /\ cur.task = "CREATED" /\ ~cur.observed
    <2>1. Idle.status = "CREATED" /\ Len(done) + 1 \in Nat
      BY FreshIsStep DEF Idle, ExecInv, RunList
    <2> QED BY <1>1, <2>1, BusyIsNotIdle, FreshIsStep DEF Busy
  <1>3. cur \in Step /\ ~cur.illegal /\ cur.index = Len(done) + 1
    BY <1>2 DEF Busy
  <1>4. /\ rec \in Step /\ ~rec.illegal /\ rec.index = Len(done) + 1 /\ rec.status = "RUNNING"
        /\ rec.retries = cur.retries /\ rec.calls = cur.retries + 1 /\ rec.result = answer
        /\ rec.task = "CREATED" /\ ~rec.observed
    <2>1. rec \in Step
      <3>1. cur.calls + 1 \in Nat /\ answer \in {"none"} \cup Answers
        BY <1>3 DEF Step
      <3> QED BY <1>3, <3>1 DEF Step
    <2>2. /\ rec.illegal = cur.illegal /\ rec.index = cur.index /\ rec.status = cur.status
          /\ rec.retries = cur.retries /\ rec.calls = cur.calls + 1 /\ rec.result = answer
          /\ rec.task = cur.task /\ rec.observed = cur.observed
      BY <1>3 DEF Step
    <2> QED BY <1>1, <1>2, <1>3, <2>1, <2>2
  <1>5. CASE answer = "FAILED" /\ cur.retries < MaxRetry
    <2> DEFINE again == [rec EXCEPT !.retries = @ + 1]
               r == Go(Through(again, "FAILED", "READY"), "RUNNING")
    <2>1. /\ again \in Step /\ ~again.illegal /\ again.index = Len(done) + 1
          /\ again.status = "RUNNING" /\ again.retries = cur.retries + 1
          /\ again.calls = cur.retries + 1 /\ again.task = "CREATED" /\ ~again.observed
      <3> HIDE DEF rec
      <3>1. again \in Step
        BY <1>4 DEF Step
      <3>2. /\ again.illegal = rec.illegal /\ again.index = rec.index
            /\ again.status = rec.status /\ again.retries = rec.retries + 1
            /\ again.calls = rec.calls /\ again.task = rec.task /\ again.observed = rec.observed
        BY <1>4 DEF Step
      <3> QED BY <1>4, <3>1, <3>2
    <2>2. cur' = r /\ UNCHANGED <<plan, done, records, run>>
      <3>1. cur.retries \in Nat /\ ~(cur.retries >= MaxRetry)
        BY <1>3, <1>5 DEF Step, MaxRetry
      <3> QED BY <1>5, <3>1 DEF Execute
    <2> HIDE DEF again
    <2>3. /\ r \in Step /\ r.status = "RUNNING" /\ ~r.illegal /\ r.index = again.index
          /\ r.retries = again.retries /\ r.calls = again.calls
          /\ r.task = again.task /\ r.observed = again.observed
      BY <2>1, PathToRetry
    <2> HIDE DEF r
    <2>4. cur.retries \in Nat
      BY <1>3 DEF Step
    <2>5. Busy'
      BY <1>2, <1>5, <2>1, <2>2, <2>3, <2>4 DEF Busy, GateAllows, MaxRetry
    <2> QED BY <2>2, <2>5 DEF ExecInv
  <1>6. CASE answer = "FAILED" /\ cur.retries >= MaxRetry
    <2> DEFINE g == Go(rec, "FAILED")  r == Telling(g, "FAILED")
    <2>1. TakeRecord(r)
      <3>1. cur.retries \in Nat /\ ~(cur.retries < MaxRetry)
        BY <1>3, <1>6 DEF Step, MaxRetry
      <3> QED BY <1>6, <3>1 DEF Execute
    <2> HIDE DEF rec
    <2>2. Finished(r, Len(done) + 1)
      <3>1. /\ g \in Step /\ g.status = "FAILED" /\ ~g.illegal /\ g.index = Len(done) + 1
            /\ g.retries = cur.retries /\ g.calls = cur.retries + 1 /\ ~g.observed
        BY <1>4, GoLegal, StatusNames DEF Sources
      <3> HIDE DEF g
      <3>2. "FAILED" \in Told
        BY DEF Told
      <3>3. /\ r \in Step /\ r.task = "FAILED" /\ ~r.illegal /\ r.status = "FAILED"
            /\ r.index = Len(done) + 1 /\ r.retries = cur.retries
            /\ r.calls = cur.retries + 1 /\ ~r.observed
        BY <3>1, <3>2, TellingIs
      <3>4. cur.retries \in Nat
        BY <1>3 DEF Step
      <3> HIDE DEF r
      <3> QED BY <1>2, <3>3, <3>4 DEF Finished
    <2> HIDE DEF r
    <2> QED BY <1>2, <2>1, <2>2, TakeKeeps
  <1>7. CASE answer = "BLOCKED"
    <2> DEFINE g == Go(rec, "BLOCKED")  r == Telling(g, "BLOCKED")
    <2>1. TakeRecord(r)
      BY <1>7 DEF Execute, Answers
    <2> HIDE DEF rec
    <2>2. Finished(r, Len(done) + 1)
      <3>1. /\ g \in Step /\ g.status = "BLOCKED" /\ ~g.illegal /\ g.index = Len(done) + 1
            /\ g.retries = cur.retries /\ g.calls = cur.retries + 1 /\ ~g.observed
        BY <1>4, GoLegal, StatusNames DEF Sources
      <3> HIDE DEF g
      <3>2. "BLOCKED" \in Told
        BY DEF Told
      <3>3. /\ r \in Step /\ r.task = "BLOCKED" /\ ~r.illegal /\ r.status = "BLOCKED"
            /\ r.index = Len(done) + 1 /\ r.retries = cur.retries
            /\ r.calls = cur.retries + 1 /\ ~r.observed
        BY <3>1, <3>2, TellingIs
      <3>4. cur.retries \in Nat
        BY <1>3 DEF Step
      <3> HIDE DEF r
      <3> QED BY <1>2, <3>3, <3>4 DEF Finished
    <2> HIDE DEF r
    <2> QED BY <1>2, <2>1, <2>2, TakeKeeps
  <1>8. CASE answer \in {"COMPLETED", "RUNNING"}
    <2> DEFINE end == IF rec.result = "COMPLETED" THEN "COMPLETED" ELSE "FAILED"
               a == Go(rec, "WAITING_OBSERVATION")  b == Go(a, end)
               c == [b EXCEPT !.observed = TRUE]
               r == Telling(c, "COMPLETED")
    <2>1. TakeRecord(r)
      BY <1>8 DEF Execute, Answers, Feedback, Through
    <2> HIDE DEF rec
    <2>2. a \in Step /\ a.status = "WAITING_OBSERVATION" /\ ~a.illegal
          /\ a.index = Len(done) + 1 /\ a.retries = cur.retries
          /\ a.calls = cur.retries + 1 /\ a.result = rec.result
      BY <1>4, GoLegal, StatusNames DEF Sources
    <2> HIDE DEF a
    <2>3. end \in {"COMPLETED", "FAILED"} /\ (end = "COMPLETED" => rec.result = "COMPLETED")
      OBVIOUS
    <2> HIDE DEF end
    <2>4. end \in DOMAIN Sources /\ a.status \in Sources[end]
      BY <2>2, <2>3, StatusNames DEF Sources
    <2>5. b \in Step /\ b.status = end /\ ~b.illegal /\ b.index = Len(done) + 1
          /\ b.retries = cur.retries /\ b.calls = cur.retries + 1 /\ b.result = rec.result
      BY <2>2, <2>4, GoLegal
    <2> HIDE DEF b
    <2>6. Finished(r, Len(done) + 1)
      <3>1. c \in Step
        BY <2>5 DEF Step
      <3>2. /\ ~c.illegal /\ c.index = Len(done) + 1 /\ c.status = end
            /\ c.retries = cur.retries /\ c.calls = cur.retries + 1 /\ c.result = rec.result
            /\ c.observed
        BY <2>5 DEF Step
      <3> HIDE DEF c
      <3>3. "COMPLETED" \in Told
        BY DEF Told
      <3>4. /\ r \in Step /\ ~r.illegal /\ r.index = Len(done) + 1 /\ r.status = end
            /\ r.retries = cur.retries /\ r.calls = cur.retries + 1 /\ r.result = rec.result
            /\ r.observed /\ r.task = "COMPLETED"
        BY <3>1, <3>2, <3>3, TellingIs
      <3>5. cur.retries \in Nat
        BY <1>3 DEF Step
      <3> HIDE DEF r
      <3> QED BY <1>2, <2>3, <3>4, <3>5 DEF Finished
    <2> HIDE DEF r
    <2> QED BY <1>2, <2>1, <2>6, TakeKeeps
  <1>9. cur.retries \in Nat
    BY <1>3 DEF Step
  <1> QED
    BY <1>5, <1>6, <1>7, <1>8, <1>9 DEF Answers, MaxRetry

\* Together: one step of the orchestrator.
LEMMA ExecStepKeeps == ASSUME ExecInv, ExecStep PROVE ExecInv'
  BY ValidateKeeps, ExecuteKeeps DEF ExecStep

\* Before the first run there is nothing that could disagree.
LEMMA ExecInitHolds == ASSUME ExecInit PROVE ExecInv
  <1>1. RunList(done) /\ RunList(records) /\ Len(done) = 0 /\ Len(records) = 0
    BY DEF ExecInit, RunList
  <1>2. /\ run \in [status : Statuses \cup {"IDLE"}, total : Nat, current : Nat]
        /\ run.current = 0 /\ run.status = "IDLE"
    BY DEF ExecInit, Statuses
  <1> QED
    BY <1>1, <1>2 DEF ExecInit, ExecInv

\* What leaves the run alone leaves its records right.
LEMMA ExecUnchanged == ASSUME ExecInv, UNCHANGED execVars PROVE ExecInv'
  BY DEF execVars, ExecInv, Busy, RunList

\* What the run checks follows from it.
LEMMA RecordsAgree == ASSUME ExecInv PROVE RunAgreesWithRecords
  <1>1. cur \in Step /\ ~cur.illegal /\ cur.retries <= MaxRetry /\ cur.calls <= cur.retries + 1
        /\ cur.status \in {"CREATED", "RUNNING"} /\ cur.task = "CREATED" /\ ~cur.observed
        /\ (cur # Idle /\ cur.calls > 0 => GateAllows(plan) /\ plan.target # NoTarget)
    <2>1. CASE cur = Idle
      BY <2>1, FreshIsStep DEF Idle, MaxRetry
    <2>2. CASE Busy
      <3>1. Len(done) + 1 \in Nat
        BY DEF ExecInv, RunList
      <3>2. CASE cur = Fresh(Len(done) + 1)
        BY <3>1, <3>2, FreshIsStep DEF MaxRetry
      <3>3. CASE cur # Fresh(Len(done) + 1)
        BY <2>2, <3>3 DEF Busy, Step
      <3> QED BY <3>2, <3>3
    <2> QED BY <2>1, <2>2 DEF ExecInv
  <1>2. \A rec \in ToSet(done) : \E i \in 1..Len(done) : rec = done[i] /\ Finished(done[i], i)
    BY DEF ToSet, ExecInv, RunList
  <1>3. \A rec \in ToSet(records) : \E i \in 1..Len(records) : rec = records[i] /\ Finished(records[i], i)
    BY DEF ToSet, ExecInv, RunList
  <1>4. \A rec \in ToSet(records) \cup ToSet(done) \cup {cur} :
          /\ ~rec.illegal
          /\ rec.calls <= rec.retries + 1 /\ rec.retries <= MaxRetry
          /\ rec.status = "COMPLETED" => rec.calls > 0 /\ rec.result = "COMPLETED"
          /\ rec.task = "COMPLETED" <=> rec.observed
    BY <1>1, <1>2, <1>3 DEF Finished
  <1>8. \A rec \in ToSet(records) \cup ToSet(done) :
          rec.task # rec.status <=> rec.status = "FAILED" /\ rec.observed
    BY <1>2, <1>3 DEF Finished
  <1>5. \A rec \in ToSet(done) : rec.status = "COMPLETED"
    BY DEF ToSet, ExecInv, RunList
  <1>6. \A i \in DOMAIN records : records[i].index = i
    BY DEF ExecInv, RunList, Finished
  <1>7. records # <<>> => run.status = Last(records).status
    BY DEF ExecInv, RunList, Last
  <1> QED
    BY <1>1, <1>4, <1>5, <1>6, <1>7, <1>8 DEF RunAgreesWithRecords, ExecInv, RunList
-----------------------------------------------------------------------------
(* Lists: least and greatest positions, removal, addition, sorting.        *)

\* Induction over a set: what holds 0 and with every number its successor.
LEMMA SetInduction ==
  ASSUME NEW T \in SUBSET Nat, 0 \in T, \A n \in T : n + 1 \in T
  PROVE  T = Nat
  <1> DEFINE R == OpToRel(<, Nat)
  <1>1. R = {ss \in Nat \X Nat : ss[1] < ss[2]}
    BY DEF OpToRel
  <1>2. IsWellFoundedOn(R, Nat)
    BY NatLessThanWellFounded
  <1> HIDE DEF R
  <1> SUFFICES ASSUME Nat \ T # {} PROVE FALSE
    OBVIOUS
  <1>3. PICK x \in Nat \ T : \A y \in Nat \ T : <<y, x>> \notin R
    BY <1>2, WFMin
  <1>4. x # 0 /\ x - 1 \in Nat /\ x - 1 < x
    OBVIOUS
  <1>5. x - 1 \in T
    <2>1. <<x - 1, x>> \in R
      BY <1>1, <1>4
    <2> QED BY <1>3, <1>4, <2>1
  <1> QED
    BY <1>4, <1>5

\* Every set of numbers that is not empty has a least one.
LEMMA LeastExists ==
  ASSUME NEW S \in SUBSET Nat, S # {}
  PROVE  \E x \in S : \A y \in S : x <= y
  <1> DEFINE T == {n \in Nat : \A x \in S : n <= x}
  <1> SUFFICES ASSUME \A x \in S : \E y \in S : y < x PROVE FALSE
    OBVIOUS
  <1>1. 0 \in T
    OBVIOUS
  <1>2. \A n \in T : n + 1 \in T
    OBVIOUS
  <1>3. T = Nat
    BY <1>1, <1>2, SetInduction
  <1>4. PICK x \in S : TRUE
    OBVIOUS
  <1>5. x + 1 \in T
    BY <1>3
  <1> QED
    BY <1>5

\* Min is the least.
LEMMA LeastIsMember ==
  ASSUME NEW S \in SUBSET Nat, S # {}
  PROVE  Min(S) \in S /\ \A y \in S : Min(S) <= y
  BY LeastExists DEF Min

\* Max of numbers that are bounded is the greatest of them.
LEMMA GreatestOfBounded ==
  ASSUME NEW n \in Nat, NEW S \in SUBSET (0..n), S # {}
  PROVE  Max(S) \in S /\ \A x \in S : x <= Max(S)
  <1> DEFINE D == {n - x : x \in S}
  <1>1. D \in SUBSET Nat /\ D # {}
    <2>1. \A x \in S : n - x \in Nat
      OBVIOUS
    <2> QED BY <2>1
  <1>2. PICK d \in D : \A y \in D : d <= y
    BY <1>1, LeastExists
  <1>3. \A y \in S : n - d >= y
    BY <1>2
  <1>4. n - d \in S
    BY <1>2
  <1> QED
    BY <1>3, <1>4 DEF Max

\* Of positions it is one of them.
LEMMA GreatestIsMember ==
  ASSUME NEW n \in Nat, NEW S \in SUBSET (1..n), S # {}
  PROVE  Max(S) \in S
  <1>1. S \in SUBSET (0..n)
    OBVIOUS
  <1> QED
    BY <1>1, GreatestOfBounded

\* Adding a task to a list that may have it already.
LEMMA AddOnceAdds ==
  ASSUME NEW S, NEW s \in Seq(S), IsInjective(s), NEW e \in S
  PROVE  /\ AddOnce(s, e) \in Seq(S) /\ IsInjective(AddOnce(s, e))
         /\ ToSet(AddOnce(s, e)) = ToSet(s) \cup {e}
         /\ Len(AddOnce(s, e)) = IF e \in ToSet(s) THEN Len(s) ELSE Len(s) + 1
  <1>1. CASE e \in ToSet(s)
    <2>1. AddOnce(s, e) = s
      BY <1>1 DEF AddOnce, Contains, ToSet
    <2> QED BY <1>1, <2>1
  <1>2. CASE e \notin ToSet(s)
    <2>1. AddOnce(s, e) = Append(s, e)
      BY <1>2 DEF AddOnce, Contains, ToSet
    <2>2. \A i \in 1..Len(s) : s[i] # e
      BY <1>2 DEF ToSet
    <2>3. IsInjective(Append(s, e))
      BY <2>2 DEF IsInjective
    <2>4. ToSet(Append(s, e)) = ToSet(s) \cup {e}
      <3>1. ToSet(s) = {s[i] : i \in 1..Len(s)}
        BY DEF ToSet
      <3>2. ToSet(Append(s, e)) = {Append(s, e)[i] : i \in 1..(Len(s) + 1)}
        BY DEF ToSet
      <3>3. \A i \in 1..Len(s) : Append(s, e)[i] = s[i]
        OBVIOUS
      <3>4. Append(s, e)[Len(s) + 1] = e
        OBVIOUS
      <3> QED BY <3>1, <3>2, <3>3, <3>4
    <2> QED BY <1>2, <2>1, <2>3, <2>4
  <1> QED
    BY <1>1, <1>2

\* Removing a task from a list without repetitions.
LEMMA RemoveFirstRemoves ==
  ASSUME NEW S, NEW s \in Seq(S), IsInjective(s), NEW e
  PROVE  /\ RemoveFirst(s, e) \in Seq(S) /\ IsInjective(RemoveFirst(s, e))
         /\ ToSet(RemoveFirst(s, e)) = ToSet(s) \ {e}
         /\ Len(RemoveFirst(s, e)) = IF e \in ToSet(s) THEN Len(s) - 1 ELSE Len(s)
  <1> DEFINE r == RemoveFirst(s, e)
  <1>1. CASE e \notin ToSet(s)
    <2>1. RemoveFirst(s, e) = s
      BY <1>1 DEF RemoveFirst, ToSet
    <2> QED BY <1>1, <2>1
  <1>2. CASE e \in ToSet(s)
    <2> DEFINE at == {i \in 1..Len(s) : s[i] = e}  k == Min(at)
    <2>1. \E i \in 1..Len(s) : s[i] = e
      BY <1>2 DEF ToSet
    <2>2. k \in 1..Len(s) /\ s[k] = e
      <3>1. at \in SUBSET Nat /\ at # {}
        BY <2>1
      <3>2. k \in at
        BY <3>1, LeastIsMember
      <3> QED BY <3>2
    <2>3. r = SubSeq(s, 1, k - 1) \o SubSeq(s, k + 1, Len(s))
      BY <2>1 DEF RemoveFirst, RemoveAt, SelectInSeq
    <2> HIDE DEF k
    <2>4. /\ SubSeq(s, 1, k - 1) \in Seq(S) /\ Len(SubSeq(s, 1, k - 1)) = k - 1
          /\ \A i \in 1..(k - 1) : SubSeq(s, 1, k - 1)[i] = s[i]
      BY <2>2
    <2>5. /\ SubSeq(s, k + 1, Len(s)) \in Seq(S) /\ Len(SubSeq(s, k + 1, Len(s))) = Len(s) - k
          /\ \A i \in 1..(Len(s) - k) : SubSeq(s, k + 1, Len(s))[i] = s[i + k]
      BY <2>2
    <2>6. /\ r \in Seq(S) /\ Len(r) = Len(s) - 1
          /\ \A i \in 1..(Len(s) - 1) : r[i] = IF i < k THEN s[i] ELSE s[i + 1]
      <3> DEFINE a == SubSeq(s, 1, k - 1)  b == SubSeq(s, k + 1, Len(s))
      <3>1. r = a \o b
        BY <2>3
      <3> HIDE DEF a, b
      <3>2. a \in Seq(S) /\ Len(a) = k - 1 /\ b \in Seq(S) /\ Len(b) = Len(s) - k
        BY <2>4, <2>5 DEF a, b
      <3>3. \A i \in 1..(k - 1) : r[i] = s[i]
        BY <2>2, <2>4, <3>1, <3>2 DEF a
      <3>4. \A i \in k..(Len(s) - 1) : r[i] = s[i + 1]
        <4> SUFFICES ASSUME NEW i \in k..(Len(s) - 1) PROVE r[i] = s[i + 1]
          OBVIOUS
        <4>1. r[i] = b[i - (k - 1)]
          BY <2>2, <3>1, <3>2
        <4>2. i - (k - 1) \in 1..(Len(s) - k) /\ (i - (k - 1)) + k = i + 1
          BY <2>2
        <4> QED BY <2>5, <4>1, <4>2 DEF b
      <3> HIDE DEF r
      <3> QED BY <2>2, <3>1, <3>2, <3>3, <3>4
    <2> HIDE DEF r
    <2>7. IsInjective(r)
      BY <2>2, <2>6 DEF IsInjective
    <2>8. ToSet(r) \subseteq ToSet(s) \ {e}
      <3> SUFFICES ASSUME NEW i \in 1..(Len(s) - 1) PROVE r[i] \in ToSet(s) /\ r[i] # e
        BY <2>6 DEF ToSet
      <3>1. PICK j \in 1..Len(s) : r[i] = s[j] /\ j # k
        BY <2>2, <2>6
      <3> QED BY <2>2, <3>1 DEF ToSet, IsInjective
    <2>9. ToSet(s) \ {e} \subseteq ToSet(r)
      <3> SUFFICES ASSUME NEW i \in 1..Len(s), s[i] # e PROVE s[i] \in ToSet(r)
        BY DEF ToSet
      <3>1. CASE i < k
        BY <2>2, <2>6, <3>1 DEF ToSet
      <3>2. CASE i > k
        <4>1. i - 1 \in 1..(Len(s) - 1) /\ r[i - 1] = s[i]
          BY <2>2, <2>6, <3>2
        <4> QED BY <2>6, <4>1 DEF ToSet
      <3> QED BY <2>2, <3>1, <3>2
    <2> QED BY <1>2, <2>6, <2>7, <2>8, <2>9 DEF r
  <1> QED
    BY <1>1, <1>2

\* The positions by their keys: a number for each of them and each number once.
LEMMA SortedPositions ==
  ASSUME NEW S, IsFiniteSet(S), S \subseteq Int, NEW key, \A i \in S : key[i] \in Int
  PROVE  /\ Cardinality(S) \in Nat
         /\ Sorted(S, key) \in [1..Cardinality(S) -> S]
         /\ IsInjective(Sorted(S, key))
         /\ Range(Sorted(S, key)) = S
  <1> DEFINE Precedes(i, j) == key[i] < key[j] \/ (key[i] = key[j] /\ i < j)
             below(i) == {j \in S : Precedes(j, i)}
             c == Cardinality(S)
             rank == [i \in S |-> Cardinality(below(i))]
             at(n) == CHOOSE i \in S : Cardinality(below(i)) = n - 1
  <1>1. \A i, j \in S : i # j => Precedes(i, j) \/ Precedes(j, i)
    OBVIOUS
  <1>2. \A i, j, k \in S : Precedes(i, j) /\ Precedes(j, k) => Precedes(i, k)
    OBVIOUS
  <1>3. \A i \in S : ~Precedes(i, i)
    OBVIOUS
  <1>4. Sorted(S, key) = [n \in 1..c |-> at(n)]
    BY DEF Sorted
  <1>5. c \in Nat
    BY FS_CardinalityType
  <1> HIDE DEF Precedes, c
  <1>6. \A i \in S : IsFiniteSet(below(i)) /\ Cardinality(below(i)) \in 0..(c - 1)
    <2> TAKE i \in S
    <2>1. below(i) \subseteq S \ {i}
      BY <1>3
    <2>2. IsFiniteSet(S \ {i}) /\ Cardinality(S \ {i}) = c - 1
      BY FS_RemoveElement DEF c
    <2>3. IsFiniteSet(below(i)) /\ Cardinality(below(i)) <= c - 1
      BY <2>1, <2>2, FS_Subset
    <2>4. Cardinality(below(i)) \in Nat
      BY <2>3, FS_CardinalityType
    <2> QED BY <1>5, <2>3, <2>4
  <1>7. \A i, j \in S : Precedes(i, j) => Cardinality(below(i)) # Cardinality(below(j))
    <2> SUFFICES ASSUME NEW i \in S, NEW j \in S, Precedes(i, j)
                 PROVE  Cardinality(below(i)) # Cardinality(below(j))
      OBVIOUS
    <2>1. below(i) \subseteq below(j) /\ i \in below(j) /\ i \notin below(i)
      BY <1>2, <1>3
    <2> HIDE DEF below
    <2>2. below(i) \in SUBSET below(j) /\ below(i) # below(j) /\ IsFiniteSet(below(j))
      BY <1>6, <2>1
    <2> QED BY <2>2, FS_Subset
  <1> HIDE DEF below
  <1>8. rank \in Injection(S, 0..(c - 1))
    <2>1. rank \in [S -> 0..(c - 1)]
      BY <1>6
    <2>2. \A i, j \in S : rank[i] = rank[j] => i = j
      BY <1>1, <1>7
    <2> HIDE DEF rank
    <2> QED BY <2>1, <2>2 DEF Injection, IsInjective
  <1>9. IsFiniteSet(0..(c - 1)) /\ Cardinality(0..(c - 1)) = c
    BY <1>5, FS_Interval
  <1>10. rank \in Surjection(S, 0..(c - 1))
    BY <1>8, <1>9, FS_Injection DEF c
  <1>11. \A n \in 1..c : at(n) \in S /\ Cardinality(below(at(n))) = n - 1
    <2> SUFFICES ASSUME NEW n \in 1..c PROVE \E i \in S : Cardinality(below(i)) = n - 1
      OBVIOUS
    <2>1. n - 1 \in 0..(c - 1)
      BY <1>5
    <2>2. \E i \in S : rank[i] = n - 1
      BY <1>10, <2>1 DEF Surjection
    <2> QED BY <2>2
  <1>12. Sorted(S, key) \in [1..c -> S]
    BY <1>4, <1>11
  <1>13. IsInjective(Sorted(S, key))
    <2> SUFFICES ASSUME NEW n \in 1..c, NEW k \in 1..c, at(n) = at(k) PROVE n = k
      BY <1>4 DEF IsInjective
    <2>1. n - 1 = k - 1
      BY <1>11
    <2> QED BY <1>5, <2>1
  <1>14. \A i \in S : \E n \in 1..c : Sorted(S, key)[n] = i
    <2> TAKE i \in S
    <2>1. Cardinality(below(i)) + 1 \in 1..c /\ (Cardinality(below(i)) + 1) - 1 = Cardinality(below(i))
      BY <1>5, <1>6
    <2>2. Cardinality(below(at(Cardinality(below(i)) + 1))) = Cardinality(below(i))
          /\ at(Cardinality(below(i)) + 1) \in S
      BY <1>11, <2>1
    <2>3. at(Cardinality(below(i)) + 1) = i
      <3> HIDE DEF at
      <3> QED BY <1>1, <1>7, <2>2
    <2> HIDE DEF at
    <2> QED BY <1>4, <2>1, <2>3
  <1>15. Range(Sorted(S, key)) = S
    BY <1>12, <1>14 DEF Range
  <1> QED
    BY <1>5, <1>12, <1>13, <1>15 DEF c

-----------------------------------------------------------------------------
(* Graphs: as they are rearranged by experience, and as goals are taken    *)
(* apart.                                                                  *)
TaskNodes == [task : TaskName, milestone : Nat, needs : TaskName \cup {None, MilestonePassed}]

\* A list has finitely many elements.
LEMMA PathIsFinite ==
  ASSUME NEW S, NEW s \in Seq(S)
  PROVE  IsFiniteSet(ToSet(s)) /\ Cardinality(ToSet(s)) \in Nat
  <1>1. s \in Surjection(1..Len(s), ToSet(s))
    <2>1. s \in [1..Len(s) -> ToSet(s)]
      BY DEF ToSet
    <2>2. \A t \in ToSet(s) : \E i \in 1..Len(s) : s[i] = t
      BY DEF ToSet
    <2> QED BY <2>1, <2>2 DEF Surjection
  <1>2. IsFiniteSet(1..Len(s))
    BY FS_Interval
  <1> QED
    BY <1>1, <1>2, FS_Surjection, FS_CardinalityType

\* A graph put in the order of a path keeps the nodes that are not removed,
\* each of them once.
LEMMA PathOrderKeeps ==
  ASSUME NEW g \in Seq(TaskNodes), IsInjective(Ids(g)), NEW removed, NEW path \in Seq(STRING)
  PROVE  LET r == PathOrder(g, removed, path)
         IN  /\ r \in Seq(TaskNodes) /\ IsInjective(Ids(r))
             /\ ToSet(r) = {n \in ToSet(g) : n.task \notin removed}
  <1> DEFINE place(t) == {i \in DOMAIN path : path[i] = t}
             key == [i \in DOMAIN g |-> IF place(g[i].task) = {} THEN Cardinality(ToSet(path)) + 1
                                        ELSE Max(place(g[i].task))]
             kept == {i \in DOMAIN g : g[i].task \notin removed}
             order == Sorted(kept, key)
             r == [n \in 1..Cardinality(kept) |-> g[order[n]]]
  <1>1. PathOrder(g, removed, path) = r
    BY DEF PathOrder
  <1>2. \A i \in kept : key[i] \in Int
    <2> TAKE i \in kept
    <2>1. CASE place(g[i].task) = {}
      BY <2>1, PathIsFinite
    <2>2. CASE place(g[i].task) # {}
      <3>1. place(g[i].task) \in SUBSET (1..Len(path)) /\ Len(path) \in Nat
        OBVIOUS
      <3>2. key[i] = Max(place(g[i].task))
        BY <2>2
      <3> HIDE DEF place, key
      <3>3. Max(place(g[i].task)) \in place(g[i].task)
        BY <2>2, <3>1, GreatestIsMember
      <3> QED BY <3>1, <3>2, <3>3
    <2> QED BY <2>1, <2>2
  <1>3. kept \subseteq 1..Len(g) /\ Len(g) \in Nat
    OBVIOUS
  <1>4. IsFiniteSet(kept) /\ kept \subseteq Int
    <2>1. IsFiniteSet(1..Len(g)) /\ kept \in SUBSET (1..Len(g))
      BY <1>3, FS_Interval
    <2> HIDE DEF kept
    <2>2. IsFiniteSet(kept)
      BY <2>1, FS_Subset
    <2> QED BY <1>3, <2>1, <2>2
  <1> HIDE DEF key
  <1>5. /\ Cardinality(kept) \in Nat /\ order \in [1..Cardinality(kept) -> kept]
        /\ IsInjective(order)
        /\ \A i \in kept : \E n \in 1..Cardinality(kept) : order[n] = i
    <2> HIDE DEF kept, order
    <2>1. Cardinality(kept) \in Nat
      BY <1>4, FS_CardinalityType
    <2>2. order \in [1..Cardinality(kept) -> kept]
      BY <1>2, <1>4, SortedPositions DEF order
    <2>3. IsInjective(order)
      BY <1>2, <1>4, SortedPositions DEF order
    <2>4. \A i \in kept : \E n \in 1..Cardinality(kept) : order[n] = i
      <3> TAKE i \in kept
      <3>1. i \in Range(order)
        BY <1>2, <1>4, SortedPositions DEF order
      <3> QED BY <2>2, <3>1 DEF Range
    <2> QED BY <2>1, <2>2, <2>3, <2>4
  <1> HIDE DEF order
  <1>6. \A n \in 1..Cardinality(kept) : order[n] \in 1..Len(g) /\ g[order[n]] \in TaskNodes
        /\ g[order[n]].task \notin removed
    BY <1>3, <1>5
  <1>7. r \in Seq(TaskNodes) /\ DOMAIN r = 1..Cardinality(kept)
    BY <1>5, <1>6
  <1>8. IsInjective(Ids(r))
    <2> SUFFICES ASSUME NEW n \in 1..Cardinality(kept), NEW k \in 1..Cardinality(kept),
                        g[order[n]].task = g[order[k]].task
                 PROVE  n = k
      BY <1>7 DEF Ids, IsInjective
    <2>1. order[n] = order[k]
      BY <1>6 DEF Ids, IsInjective
    <2> QED BY <1>5, <2>1 DEF IsInjective
  <1>9. ToSet(r) = {n \in ToSet(g) : n.task \notin removed}
    <2>1. ToSet(r) \subseteq {n \in ToSet(g) : n.task \notin removed}
      BY <1>6, <1>7 DEF ToSet
    <2>2. ASSUME NEW i \in 1..Len(g), g[i].task \notin removed
          PROVE  g[i] \in ToSet(r)
      <3>0. i \in kept
        BY <2>2
      <3>1. PICK n \in 1..Cardinality(kept) : order[n] = i
        BY <1>5, <3>0
      <3> QED BY <1>7, <3>1 DEF ToSet
    <2>3. \A n \in ToSet(g) : n.task \notin removed => n \in ToSet(r)
      <3> HIDE DEF r
      <3> QED BY <2>2 DEF ToSet
    <2> HIDE DEF r
    <2> QED BY <2>1, <2>3
  <1> HIDE DEF r
  <1> QED
    BY <1>1, <1>7, <1>8, <1>9

\* What is retrieved first is something that was stored.
Experience ==
  [id : STRING, type : STRING, path : Seq(STRING), failed : Seq(STRING),
   pattern : Seq(STRING), success : BOOLEAN]

\* The score of an experience is a number.
LEMMA ScoreIsNumber ==
  ASSUME NEW x \in Experience, NEW g \in Seq(TaskNodes)
  PROVE  MatchScore(x, "QUEST", 0, {}, g) \in Int
  <1> DEFINE whole == ToSet(Ids(g))
  <1>1. Ids(g) \in Seq(TaskName)
    <2>1. \A n \in TaskNodes : n.task \in TaskName
      BY DEF TaskNodes
    <2>2. Len(g) \in Nat /\ \A i \in 1..Len(g) : g[i].task \in TaskName
      BY <2>1
    <2> QED BY <2>2 DEF Ids
  <1>2. IsFiniteSet(whole)
    BY <1>1, PathIsFinite
  <1> HIDE DEF whole
  <1>3. Share(ToSet(x.pattern), whole) \in Int
    <2>1. CASE whole = {}
      BY <2>1 DEF Share
    <2>2. CASE whole # {}
      <3>1. Cardinality(whole) \in Nat \ {0}
        BY <1>2, <2>2, FS_CardinalityType, FS_EmptySet
      <3>2. IsFiniteSet(ToSet(x.pattern) \cap whole)
        BY <1>2, FS_Intersection
      <3>3. Cardinality(ToSet(x.pattern) \cap whole) \in Nat
        BY <3>2, FS_CardinalityType
      <3> QED BY <2>2, <3>1, <3>3 DEF Share
    <2> QED BY <2>1, <2>2
  <1>4. Share(ToSet(x.path), {}) = 0
    BY DEF Share
  <1> QED
    BY <1>3, <1>4 DEF MatchScore, whole

\* The best experience is one of the stored ones.
LEMMA RetrievedIsStored ==
  ASSUME NEW xs \in Seq(Experience), xs # <<>>, NEW score \in [DOMAIN xs -> Int]
  PROVE  Retrieve(xs, score, 1)[1] \in Experience
  <1> DEFINE S == DOMAIN xs
             key == [i \in S |-> 100 - score[i]]
             first == Sorted(S, key)
             top == Min({Len(xs), 1})
  <1>1. S = 1..Len(xs) /\ Len(xs) \in Nat /\ Len(xs) >= 1
    OBVIOUS
  <1>2. IsFiniteSet(S) /\ S \subseteq Int /\ Cardinality(S) = Len(xs)
    BY <1>1, FS_Interval
  <1>3. \A i \in S : key[i] \in Int
    OBVIOUS
  <1>4. first \in [1..Len(xs) -> S]
    <2> HIDE DEF key, S
    <2> QED BY <1>2, <1>3, SortedPositions
  <1>5. top \in {Len(xs), 1}
    <2>1. {Len(xs), 1} \in SUBSET Nat /\ {Len(xs), 1} # {}
      BY <1>1
    <2> QED BY <2>1, LeastIsMember
  <1>6. Retrieve(xs, score, 1) = [n \in 1..top |-> xs[first[n]]]
    BY DEF Retrieve
  <1> HIDE DEF first, top
  <1>7. 1 \in 1..top /\ first[1] \in S
    BY <1>1, <1>4, <1>5
  <1>8. xs[first[1]] \in Experience
    BY <1>7
  <1> QED
    BY <1>6, <1>7, <1>8

\* Two lists without repetition and without a common element.
LEMMA JoinedLists ==
  ASSUME NEW S, NEW s \in Seq(S), NEW t \in Seq(S), IsInjective(s), IsInjective(t),
         ToSet(s) \cap ToSet(t) = {}
  PROVE  IsInjective(s \o t)
  <1>1. \A i \in 1..Len(s), j \in 1..Len(t) : s[i] # t[j]
    BY DEF ToSet
  <1>2. /\ s \o t \in Seq(S) /\ Len(s \o t) = Len(s) + Len(t)
        /\ \A i \in 1..Len(s) : (s \o t)[i] = s[i]
        /\ \A i \in (Len(s) + 1)..(Len(s) + Len(t)) : (s \o t)[i] = t[i - Len(s)]
    OBVIOUS
  <1> DEFINE u == s \o t
  <1> HIDE DEF u
  <1>0. /\ \A a, b \in 1..Len(s) : s[a] = s[b] => a = b
        /\ \A a, b \in 1..Len(t) : t[a] = t[b] => a = b
    BY DEF IsInjective
  <1>3. ASSUME NEW i \in DOMAIN u, NEW j \in DOMAIN u, u[i] = u[j], i <= Len(s) PROVE i = j
    <2>1. i \in 1..Len(s) /\ u[i] = s[i] /\ j \in 1..(Len(s) + Len(t))
      BY <1>2, <1>3 DEF u
    <2>2. CASE j <= Len(s)
      <3>1. j \in 1..Len(s) /\ u[j] = s[j]
        BY <1>2, <2>1, <2>2 DEF u
      <3> QED BY <1>0, <1>3, <2>1, <3>1
    <2>3. CASE j > Len(s)
      <3>1. u[j] = t[j - Len(s)] /\ j - Len(s) \in 1..Len(t)
        BY <1>2, <2>1, <2>3 DEF u
      <3> QED BY <1>1, <1>3, <2>1, <3>1
    <2> QED BY <2>1, <2>2, <2>3
  <1>4. ASSUME NEW i \in DOMAIN u, NEW j \in DOMAIN u, u[i] = u[j], i > Len(s), j > Len(s)
        PROVE  i = j
    <2>1. /\ i \in Nat /\ j \in Nat /\ u[i] = t[i - Len(s)] /\ i - Len(s) \in 1..Len(t)
          /\ u[j] = t[j - Len(s)] /\ j - Len(s) \in 1..Len(t)
      BY <1>2, <1>4 DEF u
    <2>2. i - Len(s) = j - Len(s)
      BY <1>0, <1>4, <2>1
    <2> QED BY <2>1, <2>2
  <1>5. \A i \in DOMAIN u : i \in Nat
    BY <1>2 DEF u
  <1>6. IsInjective(u)
    BY <1>3, <1>4, <1>5 DEF IsInjective
  <1> QED
    BY <1>6 DEF u

\* The elements of two lists joined.
LEMMA JoinedElements ==
  ASSUME NEW S, NEW s \in Seq(S), NEW t \in Seq(S)
  PROVE  s \o t \in Seq(S) /\ ToSet(s \o t) = ToSet(s) \cup ToSet(t)
  <1>1. /\ s \o t \in Seq(S) /\ Len(s \o t) = Len(s) + Len(t)
        /\ \A i \in 1..Len(s) : (s \o t)[i] = s[i]
        /\ \A i \in 1..Len(t) : (s \o t)[Len(s) + i] = t[i]
    OBVIOUS
  <1> DEFINE u == s \o t
  <1>2. ToSet(u) = {u[i] : i \in 1..(Len(s) + Len(t))} /\ ToSet(s) = {s[i] : i \in 1..Len(s)}
        /\ ToSet(t) = {t[i] : i \in 1..Len(t)}
    <2>1. DOMAIN u = 1..(Len(s) + Len(t)) /\ DOMAIN s = 1..Len(s) /\ DOMAIN t = 1..Len(t)
      BY <1>1
    <2> HIDE DEF u
    <2> QED BY <2>1 DEF ToSet
  <1> HIDE DEF u
  <1>3. \A i \in 1..(Len(s) + Len(t)) : u[i] \in ToSet(s) \cup ToSet(t)
    <2> TAKE i \in 1..(Len(s) + Len(t))
    <2>1. CASE i <= Len(s)
      BY <1>1, <1>2, <2>1 DEF u
    <2>2. CASE i > Len(s)
      <3>1. i - Len(s) \in 1..Len(t) /\ Len(s) + (i - Len(s)) = i
        BY <2>2
      <3> QED BY <1>1, <1>2, <3>1 DEF u
    <2> QED BY <2>1, <2>2
  <1>4. \A i \in 1..Len(s) : s[i] \in ToSet(u)
    BY <1>1, <1>2 DEF u
  <1>5. \A i \in 1..Len(t) : t[i] \in ToSet(u)
    <2> TAKE i \in 1..Len(t)
    <2>1. Len(s) + i \in 1..(Len(s) + Len(t)) /\ u[Len(s) + i] = t[i]
      BY <1>1 DEF u
    <2> QED BY <1>2, <2>1
  <1>6. ToSet(u) = ToSet(s) \cup ToSet(t)
    BY <1>2, <1>3, <1>4, <1>5
  <1> QED
    BY <1>1, <1>6 DEF u

\* Lists in which every element has one place only.
Apart(ss) ==
  \A m, k \in DOMAIN ss : \A i \in DOMAIN ss[m], j \in DOMAIN ss[k] :
    ss[m][i] = ss[k][j] => m = k /\ i = j

\* Joining lists that share nothing repeats nothing.
LEMMA FlattenedLists ==
  ASSUME NEW S, NEW ss \in Seq(Seq(S)), Apart(ss)
  PROVE  /\ FlattenSeq(ss) \in Seq(S) /\ IsInjective(FlattenSeq(ss))
         /\ ToSet(FlattenSeq(ss)) = UNION {ToSet(ss[m]) : m \in DOMAIN ss}
  <1>1. CASE Len(ss) = 0
    <2>1. FlattenSeq(ss) = <<>> /\ DOMAIN ss = {}
      BY <1>1 DEF FlattenSeq
    <2>2. IsInjective(<<>>) /\ ToSet(<<>>) = {}
      BY DEF IsInjective, ToSet
    <2> QED BY <2>1, <2>2
  <1>2. CASE Len(ss) # 0
    <2> DEFINE N == Len(ss)
               body(f, i) == IF i = 1 THEN ss[i] ELSE f[i - 1] \o ss[i]
               flat == CHOOSE f : f = [i \in 1..N |-> body(f, i)]
               T == {n \in Nat : \E f : f = [i \in 1..n |-> body(f, i)]}
    <2>1. T = Nat
      <3>1. 0 \in T
        <4>1. [i \in 1..0 |-> 0] = [i \in 1..0 |-> body([j \in 1..0 |-> 0], i)]
          OBVIOUS
        <4> QED BY <4>1
      <3>2. \A n \in T : n + 1 \in T
        <4> SUFFICES ASSUME NEW n \in T PROVE n + 1 \in T
          OBVIOUS
        <4>1. PICK f : f = [i \in 1..n |-> body(f, i)]
          OBVIOUS
        <4> DEFINE h == [i \in 1..(n + 1) |-> IF i = n + 1 THEN body(f, n + 1) ELSE f[i]]
        <4>2. \A i \in 1..(n + 1) : h[i] = body(h, i)
          <5> TAKE i \in 1..(n + 1)
          <5>1. CASE i = n + 1
            <6>1. i # 1 => h[i - 1] = f[i - 1]
              BY <5>1
            <6> QED BY <5>1, <6>1
          <5>2. CASE i # n + 1
            <6>1. i \in 1..n /\ h[i] = f[i]
              BY <5>2
            <6>2. i # 1 => i - 1 \in 1..(n + 1) /\ i - 1 # n + 1 /\ h[i - 1] = f[i - 1]
              BY <6>1
            <6>3. f[i] = body(f, i)
              BY <4>1, <6>1
            <6> HIDE DEF h
            <6> QED BY <6>1, <6>2, <6>3
          <5> QED BY <5>1, <5>2
        <4>3. h = [i \in 1..(n + 1) |-> body(h, i)]
          <5>1. h = [i \in 1..(n + 1) |-> h[i]]
            OBVIOUS
          <5> HIDE DEF h
          <5> QED BY <4>2, <5>1
        <4> HIDE DEF h
        <4>4. \E g : g = [i \in 1..(n + 1) |-> body(g, i)]
          BY <4>3
        <4>5. n + 1 \in Nat
          OBVIOUS
        <4> HIDE DEF body
        <4> QED BY <4>4, <4>5, Zenon
      <3> QED BY <3>1, <3>2, SetInduction
    <2>2. flat = [i \in 1..N |-> body(flat, i)]
      <3>1. N \in T
        <4>1. N \in Nat
          OBVIOUS
        <4> HIDE DEF T, N
        <4> QED BY <2>1, <4>1
      <3> QED BY <3>1
    <2>3. FlattenSeq(ss) = flat[N]
      BY <1>2 DEF FlattenSeq
    <2> DEFINE part(n) == {m \in DOMAIN ss : m <= n}
               Good(n) == /\ flat[n] \in Seq(S) /\ IsInjective(flat[n])
                          /\ ToSet(flat[n]) = UNION {ToSet(ss[m]) : m \in part(n)}
               U == {n \in Nat : n + 1 <= N => Good(n + 1)}
    <2>4. N \in Nat \ {0} /\ \A m \in 1..N : ss[m] \in Seq(S) /\ IsInjective(ss[m])
      <3>1. N \in Nat \ {0} /\ DOMAIN ss = 1..N /\ \A m \in 1..N : ss[m] \in Seq(S)
        BY <1>2
      <3> QED BY <3>1 DEF Apart, IsInjective
    <2> HIDE DEF flat
    <2>5. 0 \in U
      <3>1. flat[1] = ss[1] /\ 1 \in 1..N
        BY <2>2, <2>4
      <3>2. part(1) = {1}
        BY <2>4
      <3> QED BY <2>4, <3>1, <3>2
    <2>6. ASSUME NEW n \in Nat, n + 1 <= N => Good(n + 1), (n + 1) + 1 <= N
          PROVE  Good((n + 1) + 1)
      <3> DEFINE k == (n + 1) + 1
      <3>1. Good(n + 1) /\ k \in 1..N /\ n + 1 \in 1..N /\ k - 1 = n + 1 /\ k # 1
        BY <2>4, <2>6
      <3>2. flat[k] = flat[n + 1] \o ss[k]
        BY <2>2, <3>1
      <3> HIDE DEF k
      <3>3. flat[n + 1] \in Seq(S) /\ ss[k] \in Seq(S) /\ IsInjective(flat[n + 1]) /\ IsInjective(ss[k])
        BY <2>4, <3>1
      <3>4. ToSet(flat[n + 1]) \cap ToSet(ss[k]) = {}
        <4> SUFFICES ASSUME NEW e \in ToSet(flat[n + 1]), e \in ToSet(ss[k]) PROVE FALSE
          OBVIOUS
        <4>1. PICK m \in part(n + 1) : e \in ToSet(ss[m])
          BY <3>1
        <4>2. m \in DOMAIN ss /\ k \in DOMAIN ss /\ m # k
          BY <2>4, <3>1
        <4> QED BY <4>1, <4>2 DEF Apart, ToSet
      <3>5. part(k) = part(n + 1) \cup {k}
        BY <2>4, <3>1
      <3>6. ToSet(flat[k]) = ToSet(flat[n + 1]) \cup ToSet(ss[k]) /\ flat[k] \in Seq(S)
        BY <3>2, <3>3, JoinedElements
      <3>7. IsInjective(flat[k])
        BY <3>2, <3>3, <3>4, JoinedLists
      <3>8. ToSet(flat[k]) = UNION {ToSet(ss[m]) : m \in part(k)}
        <4> HIDE DEF part
        <4> QED BY <3>1, <3>5, <3>6
      <3> QED BY <3>6, <3>7, <3>8 DEF k
    <2>7. N - 1 \in Nat /\ N - 1 \in U
      <3>1. U \in SUBSET Nat
        OBVIOUS
      <3>3. \A n \in U : n + 1 \in U
        <4> HIDE DEF Good, N
        <4> QED BY <2>6
      <3> HIDE DEF U
      <3>2. U = Nat
        BY <2>5, <3>1, <3>3, SetInduction
      <3> QED BY <2>4, <3>2
    <2>8. Good(N)
      BY <2>4, <2>7
    <2>9. part(N) = DOMAIN ss
      <3>1. DOMAIN ss = 1..N
        OBVIOUS
      <3> HIDE DEF N
      <3> QED BY <2>4, <3>1
    <2> QED BY <2>3, <2>8, <2>9
  <1> QED
    BY <1>1, <1>2

\* The milestones of a goal; TasksOfGoals says this of each of them.
WellNamed(g) ==
  /\ g \in Seq([order : Int, tasks : Seq(TaskName)])
  /\ \A m, k \in DOMAIN g : \A i \in DOMAIN g[m].tasks, j \in DOMAIN g[k].tasks :
       g[m].tasks[i] = g[k].tasks[j] => m = k /\ i = j

\* The milestones of a goal, for the provers.
LEMMA Stages ==
  ASSUME NEW g, WellNamed(g)
  PROVE  /\ Len(g) \in Nat /\ DOMAIN g = 1..Len(g)
         /\ \A m \in 1..Len(g) : g[m].tasks \in Seq(TaskName)
  <1> DEFINE Stage == [order : Int, tasks : Seq(TaskName)]
  <1>1. \A x \in Stage : x.tasks \in Seq(TaskName)
    OBVIOUS
  <1>2. g \in Seq(Stage)
    BY DEF WellNamed
  <1> HIDE DEF Stage
  <1> QED
    BY <1>1, <1>2

\* What the i-th task of milestone m needs.
Prior(g, m, i) ==
  CASE i > 1 -> g[m].tasks[i - 1]
    [] i = 1 /\ m = 1 -> None
    [] i = 1 /\ m > 1 -> IF g[m - 1].tasks = <<>> THEN MilestonePassed ELSE Last(g[m - 1].tasks)

\* It is nothing, or a task that comes earlier in the goal.
LEMMA PriorIsEarlier ==
  ASSUME NEW g, WellNamed(g), NEW m \in DOMAIN g, NEW i \in DOMAIN g[m].tasks
  PROVE  \/ Prior(g, m, i) \in {None, MilestonePassed}
         \/ \E k \in DOMAIN g : \E j \in DOMAIN g[k].tasks :
              /\ Prior(g, m, i) = g[k].tasks[j] /\ Prior(g, m, i) \in TaskName
              /\ k < m \/ (k = m /\ j < i)
  <1>1. /\ Len(g) \in Nat /\ DOMAIN g = 1..Len(g)
        /\ \A k \in 1..Len(g) : g[k].tasks \in Seq(TaskName)
    BY Stages
  <1>2. m \in Nat /\ m >= 1 /\ i \in Nat /\ i >= 1
    BY <1>1
  <1>3. CASE i > 1
    <2>1. Prior(g, m, i) = g[m].tasks[i - 1]
      BY <1>2, <1>3 DEF Prior
    <2>2. i - 1 \in DOMAIN g[m].tasks /\ i - 1 < i /\ g[m].tasks[i - 1] \in TaskName
      BY <1>1, <1>2, <1>3
    <2> QED BY <2>1, <2>2
  <1>4. CASE ~(i > 1) /\ m = 1
    <2>1. Prior(g, m, i) = None
      BY <1>2, <1>4 DEF Prior
    <2> QED BY <2>1
  <1>5. CASE ~(i > 1) /\ m > 1
    <2>1. Prior(g, m, i) = IF g[m - 1].tasks = <<>> THEN MilestonePassed ELSE Last(g[m - 1].tasks)
      BY <1>2, <1>5 DEF Prior
    <2>2. m - 1 \in DOMAIN g /\ g[m - 1].tasks \in Seq(TaskName) /\ m - 1 < m
      BY <1>1, <1>5
    <2>3. CASE g[m - 1].tasks # <<>>
      <3> DEFINE s == g[m - 1].tasks
      <3>1. Len(s) \in DOMAIN s /\ Last(s) = s[Len(s)] /\ s[Len(s)] \in TaskName
        BY <2>2, <2>3 DEF Last
      <3> QED BY <2>1, <2>2, <2>3, <3>1
    <2> QED BY <2>1, <2>3
  <1> QED
    BY <1>2, <1>3, <1>4, <1>5

\* A goal is decomposed into its tasks, each with the one before it as its prerequisite.
LEMMA DecomposedGoal ==
  ASSUME NEW g, WellNamed(g)
  PROVE  /\ Decompose(g) \in Seq(TaskNodes) /\ IsInjective(Ids(Decompose(g)))
         /\ \A n \in ToSet(Decompose(g)) : \E m \in DOMAIN g : \E i \in DOMAIN g[m].tasks :
              n = Node(g[m].tasks[i], m, Prior(g, m, i))
  <1> DEFINE stage(m) == [i \in DOMAIN g[m].tasks |-> Node(g[m].tasks[i], m, Prior(g, m, i))]
             ss == [m \in DOMAIN g |-> stage(m)]
  <1>1. Decompose(g) = FlattenSeq(ss)
    BY DEF Decompose, Prior
  <1>2. /\ Len(g) \in Nat /\ DOMAIN g = 1..Len(g)
        /\ \A m \in 1..Len(g) : g[m].tasks \in Seq(TaskName)
    BY Stages
  <1>3. \A m \in DOMAIN g : \A i \in DOMAIN g[m].tasks :
          /\ Node(g[m].tasks[i], m, Prior(g, m, i)) \in TaskNodes
          /\ Node(g[m].tasks[i], m, Prior(g, m, i)).task = g[m].tasks[i]
    <2> TAKE m \in DOMAIN g
    <2> TAKE i \in DOMAIN g[m].tasks
    <2>1. Prior(g, m, i) \in TaskName \cup {None, MilestonePassed}
      BY PriorIsEarlier
    <2>2. g[m].tasks[i] \in TaskName /\ m \in Nat
      BY <1>2
    <2> QED BY <2>1, <2>2 DEF Node, TaskNodes
  <1>4. \A m \in DOMAIN g : stage(m) \in Seq(TaskNodes)
    <2> TAKE m \in DOMAIN g
    <2>1. Len(g[m].tasks) \in Nat /\ DOMAIN g[m].tasks = 1..Len(g[m].tasks)
      BY <1>2
    <2>2. stage(m) \in [1..Len(g[m].tasks) -> TaskNodes]
      BY <1>3, <2>1
    <2> QED BY <2>1, <2>2
  <1>5. ss \in Seq(Seq(TaskNodes))
    <2> HIDE DEF stage
    <2>1. ss \in [1..Len(g) -> Seq(TaskNodes)]
      BY <1>2, <1>4
    <2> QED BY <1>2, <2>1
  <1>6. Apart(ss)
    <2> SUFFICES ASSUME NEW m \in DOMAIN g, NEW k \in DOMAIN g,
                        NEW i \in DOMAIN g[m].tasks, NEW j \in DOMAIN g[k].tasks,
                        stage(m)[i] = stage(k)[j]
                 PROVE  m = k /\ i = j
      BY DEF Apart
    <2>1. g[m].tasks[i] = g[k].tasks[j]
      BY <1>3
    <2> QED BY <2>1 DEF WellNamed
  <1>7. /\ Decompose(g) \in Seq(TaskNodes) /\ IsInjective(Decompose(g))
        /\ ToSet(Decompose(g)) = UNION {ToSet(ss[m]) : m \in DOMAIN ss}
    <2> HIDE DEF ss
    <2> QED BY <1>1, <1>5, <1>6, FlattenedLists
  <1>8. \A n \in ToSet(Decompose(g)) : \E m \in DOMAIN g : \E i \in DOMAIN g[m].tasks :
          n = Node(g[m].tasks[i], m, Prior(g, m, i))
    <2> TAKE n \in ToSet(Decompose(g))
    <2>1. PICK m \in DOMAIN g : n \in ToSet(stage(m))
      BY <1>7
    <2>2. PICK i \in DOMAIN g[m].tasks : n = stage(m)[i]
      BY <2>1 DEF ToSet
    <2> QED BY <2>2
  <1>9. IsInjective(Ids(Decompose(g)))
    <2> DEFINE d == Decompose(g)
    <2> HIDE DEF d
    <2> SUFFICES ASSUME NEW p \in DOMAIN d, NEW q \in DOMAIN d, d[p].task = d[q].task PROVE p = q
      BY DEF Ids, IsInjective, d
    <2>1. d[p] \in ToSet(d) /\ d[q] \in ToSet(d)
      BY DEF ToSet
    <2>2. PICK m \in DOMAIN g : \E i \in DOMAIN g[m].tasks : d[p] = stage(m)[i]
      BY <1>8, <2>1 DEF d
    <2>3. PICK i \in DOMAIN g[m].tasks : d[p] = Node(g[m].tasks[i], m, Prior(g, m, i))
      BY <2>2
    <2>4. PICK k \in DOMAIN g : \E j \in DOMAIN g[k].tasks : d[q] = stage(k)[j]
      BY <1>8, <2>1 DEF d
    <2>5. PICK j \in DOMAIN g[k].tasks : d[q] = Node(g[k].tasks[j], k, Prior(g, k, j))
      BY <2>4
    <2>6. g[m].tasks[i] = g[k].tasks[j]
      BY <1>3, <2>3, <2>5
    <2>7. m = k /\ i = j
      BY <2>6 DEF WellNamed
    <2>8. d[p] = d[q]
      BY <2>3, <2>5, <2>7
    <2> QED BY <1>7, <2>8 DEF IsInjective, d
  <1> QED
    BY <1>7, <1>8, <1>9

-----------------------------------------------------------------------------
(* Schedules.                                                              *)
Records ==
  [goal : DOMAIN Milestones, importance : Int, urgency : Int, cost : Int, confidence : Int,
   dependency : STRING, deadline : Int]

\* The priority of a goal is a number.
LEMMA PriorityIsNumber ==
  ASSUME NEW r \in Records
  PROVE  Priority(r) \in Int
  <1>1. /\ r.importance \in Int /\ r.urgency \in Int /\ r.cost \in Int /\ r.confidence \in Int
        /\ r.deadline \in Int
    BY DEF Records
  <1>2. Urgency(r) \in Int
    <2>1. CASE r.deadline = NoDeadline
      BY <1>1, <2>1 DEF Urgency, NoDeadline
    <2>2. CASE r.deadline # NoDeadline /\ r.deadline <= 0
      BY <1>1, <2>2 DEF Urgency, NoDeadline
    <2>3. CASE r.deadline # NoDeadline /\ r.deadline > 0
      <3>1. Urgency(r) = Larger(r.urgency, Larger(0, 100 - (100 * r.deadline) \div 24))
        BY <1>1, <2>3 DEF Urgency, NoDeadline
      <3>2. (100 * r.deadline) \div 24 \in Int
        BY <1>1
      <3> QED BY <1>1, <3>1, <3>2 DEF Larger
    <2> QED BY <1>1, <2>1, <2>2, <2>3 DEF NoDeadline
  <1> QED
    BY <1>1, <1>2 DEF Priority

\* Sorting by falling score neither loses nor invents a record.
LEMMA FallingRecords ==
  ASSUME NEW rs \in Seq(Records)
  PROVE  Falling(rs) \in [DOMAIN rs -> ToSet(rs)] /\ Range(Falling(rs)) = ToSet(rs)
  <1> DEFINE D == DOMAIN rs
             key == [i \in D |-> 0 - Priority(rs[i])]
             s == Sorted(D, key)
  <1>1. D = 1..Len(rs) /\ Len(rs) \in Nat /\ \A i \in D : rs[i] \in Records
    OBVIOUS
  <1>2. \A i \in D : Priority(rs[i]) \in Int
    BY <1>1, PriorityIsNumber
  <1>3. IsFiniteSet(D) /\ Cardinality(D) = Len(rs) /\ D \subseteq Int
    BY <1>1, FS_Interval
  <1>4. s \in [1..Cardinality(D) -> D] /\ Range(s) = D
    <2>1. \A i \in D : key[i] \in Int
      BY <1>2
    <2> HIDE DEF key, D
    <2> QED BY <1>3, <2>1, SortedPositions
  <1>5. Falling(rs) = [n \in D |-> rs[s[n]]]
    <2> DEFINE above(i) == {j \in D : \/ Priority(rs[j]) > Priority(rs[i])
                                      \/ Priority(rs[j]) = Priority(rs[i]) /\ j < i}
               below(i) == {j \in D : key[j] < key[i] \/ (key[j] = key[i] /\ j < i)}
    <2>1. \A i \in D : above(i) = below(i)
      BY <1>2
    <2>2. Falling(rs) = [n \in D |-> rs[CHOOSE i \in D : Cardinality(above(i)) = n - 1]]
      BY DEF Falling
    <2>3. s = [n \in 1..Cardinality(D) |-> CHOOSE i \in D : Cardinality(below(i)) = n - 1]
      BY DEF Sorted
    <2> HIDE DEF above, below, D, s
    <2>4. \A n \in D : (CHOOSE i \in D : Cardinality(above(i)) = n - 1)
                         = CHOOSE i \in D : Cardinality(below(i)) = n - 1
      BY <2>1
    <2>5. D = 1..Cardinality(D)
      BY <1>1, <1>3
    <2> QED BY <2>2, <2>3, <2>4, <2>5
  <1> HIDE DEF s
  <1>6. Cardinality(D) = Len(rs) /\ D = 1..Len(rs)
    BY <1>1, <1>3
  <1> HIDE DEF D
  <1>7. \A i \in D : rs[i] \in ToSet(rs)
    BY DEF ToSet, D
  <1>8. \A r \in ToSet(rs) : \E n \in D : rs[s[n]] = r
    <2> TAKE r \in ToSet(rs)
    <2>1. PICK i \in D : r = rs[i]
      BY DEF ToSet, D
    <2>2. PICK n \in D : s[n] = i
      BY <1>4, <1>6 DEF Range
    <2> QED BY <2>1, <2>2
  <1>9. Falling(rs) \in [D -> ToSet(rs)]
    BY <1>4, <1>5, <1>6, <1>7
  <1>10. Range(Falling(rs)) = ToSet(rs)
    BY <1>5, <1>8, <1>9 DEF Range
  <1> QED
    BY <1>9, <1>10 DEF D

\* An order in which every goal comes after the goal it depends on.
DependenciesFirst(rs, order) ==
  \A r \in ToSet(rs) : \A j \in DOMAIN order :
    order[j] = r.goal /\ r.dependency \in Goals(rs) =>
      \E i \in DOMAIN order : i < j /\ order[i] = r.dependency

GoalsOnce(rs) == \A r, s \in ToSet(rs) : r.goal = s.goal => r = s

\* Placing a goal adds its dependency, if it is asked for, and then itself.
LEMMA PlaceAddsTwice ==
  ASSUME NEW rs, NEW order, NEW r
  PROVE  Place(rs, order, r) =
           AddOnce(IF r.dependency \in Goals(rs) THEN AddOnce(order, r.dependency) ELSE order, r.goal)
  BY DEF Place, AddOnce

\* Placing a goal repeats none and loses none.
LEMMA PlaceKeeps ==
  ASSUME NEW rs, NEW order \in Seq(Goals(rs)), IsInjective(order), NEW r \in ToSet(rs)
  PROVE  /\ Place(rs, order, r) \in Seq(Goals(rs)) /\ IsInjective(Place(rs, order, r))
         /\ ToSet(order) \cup {r.goal} \subseteq ToSet(Place(rs, order, r))
  <1> DEFINE with == IF r.dependency \in Goals(rs) THEN AddOnce(order, r.dependency) ELSE order
  <1>1. with \in Seq(Goals(rs)) /\ IsInjective(with) /\ ToSet(order) \subseteq ToSet(with)
    <2>1. CASE r.dependency \in Goals(rs)
      BY <2>1, AddOnceAdds
    <2>2. CASE r.dependency \notin Goals(rs)
      BY <2>2
    <2> QED BY <2>1, <2>2
  <1>2. r.goal \in Goals(rs)
    BY DEF Goals
  <1>3. Place(rs, order, r) = AddOnce(with, r.goal)
    BY PlaceAddsTwice
  <1> HIDE DEF with
  <1>4. /\ AddOnce(with, r.goal) \in Seq(Goals(rs)) /\ IsInjective(AddOnce(with, r.goal))
        /\ ToSet(AddOnce(with, r.goal)) = ToSet(with) \cup {r.goal}
    BY <1>1, <1>2, AddOnceAdds
  <1> QED
    BY <1>1, <1>3, <1>4

\* A goal added after what it depends on keeps dependencies first;
LEMMA AddedAfterDependency ==
  ASSUME NEW rs, NEW order \in Seq(Goals(rs)), IsInjective(order), NEW e \in Goals(rs),
         DependenciesFirst(rs, order),
         \A r \in ToSet(rs) : r.goal = e /\ r.dependency \in Goals(rs) => r.dependency \in ToSet(order)
  PROVE  DependenciesFirst(rs, AddOnce(order, e))
  <1>1. CASE e \in ToSet(order)
    <2>1. AddOnce(order, e) = order
      BY <1>1 DEF AddOnce, Contains, ToSet
    <2> QED BY <2>1
  <1>2. CASE e \notin ToSet(order)
    <2> DEFINE o == Append(order, e)
    <2>1. AddOnce(order, e) = o
      BY <1>2 DEF AddOnce, Contains, ToSet
    <2>2. /\ DOMAIN o = 1..(Len(order) + 1) /\ Len(order) \in Nat /\ DOMAIN order = 1..Len(order)
          /\ \A i \in 1..Len(order) : o[i] = order[i]
          /\ o[Len(order) + 1] = e
      OBVIOUS
    <2> HIDE DEF o
    <2>3. ASSUME NEW r \in ToSet(rs), NEW j \in DOMAIN o, o[j] = r.goal, r.dependency \in Goals(rs)
          PROVE  \E i \in DOMAIN o : i < j /\ o[i] = r.dependency
      <3>1. CASE j = Len(order) + 1
        <4>1. r.dependency \in ToSet(order)
          BY <2>2, <2>3, <3>1
        <4>2. PICK i \in 1..Len(order) : order[i] = r.dependency
          BY <4>1 DEF ToSet
        <4> QED BY <2>2, <3>1, <4>2
      <3>2. CASE j \in 1..Len(order)
        <4>1. order[j] = r.goal
          BY <2>2, <2>3, <3>2
        <4>2. PICK i \in 1..Len(order) : i < j /\ order[i] = r.dependency
          BY <2>2, <2>3, <3>2, <4>1 DEF DependenciesFirst
        <4> QED BY <2>2, <4>2
      <3> QED BY <2>2, <3>1, <3>2
    <2> QED BY <2>1, <2>3 DEF DependenciesFirst
  <1> QED
    BY <1>1, <1>2

\* so the scheduler's placing does, unless dependencies form a chain.
LEMMA PlacedAfterDependency ==
  ASSUME NEW rs, OneLevel(rs), GoalsOnce(rs), NEW order \in Seq(Goals(rs)), IsInjective(order),
         DependenciesFirst(rs, order), NEW r \in ToSet(rs)
  PROVE  DependenciesFirst(rs, Place(rs, order, r))
  <1> DEFINE with == IF r.dependency \in Goals(rs) THEN AddOnce(order, r.dependency) ELSE order
  <1>1. /\ with \in Seq(Goals(rs)) /\ IsInjective(with) /\ DependenciesFirst(rs, with)
        /\ r.dependency \in Goals(rs) => r.dependency \in ToSet(with)
    <2>1. CASE r.dependency \in Goals(rs)
      <3>1. \A s \in ToSet(rs) : s.goal = r.dependency => s.dependency \notin Goals(rs)
        BY DEF OneLevel
      <3>2. DependenciesFirst(rs, AddOnce(order, r.dependency))
        BY <2>1, <3>1, AddedAfterDependency
      <3>3. /\ AddOnce(order, r.dependency) \in Seq(Goals(rs)) /\ IsInjective(AddOnce(order, r.dependency))
            /\ ToSet(AddOnce(order, r.dependency)) = ToSet(order) \cup {r.dependency}
        BY <2>1, AddOnceAdds
      <3> QED BY <2>1, <3>2, <3>3
    <2>2. CASE r.dependency \notin Goals(rs)
      BY <2>2
    <2> QED BY <2>1, <2>2
  <1>2. r.goal \in Goals(rs)
    BY DEF Goals
  <1>3. Place(rs, order, r) = AddOnce(with, r.goal)
    BY PlaceAddsTwice
  <1> HIDE DEF with
  <1>4. \A s \in ToSet(rs) : s.goal = r.goal /\ s.dependency \in Goals(rs) => s.dependency \in ToSet(with)
    BY <1>1 DEF GoalsOnce
  <1> QED
    BY <1>1, <1>2, <1>3, <1>4, AddedAfterDependency

\* The order has every goal once, and the dependencies first if they are of
\* one level.
LEMMA OrderedGoals ==
  ASSUME NEW rs \in Seq(Records)
  PROVE  /\ Order(rs) \in Seq(Goals(rs)) /\ IsInjective(Order(rs)) /\ ToSet(Order(rs)) = Goals(rs)
         /\ OneLevel(rs) /\ GoalsOnce(rs) => DependenciesFirst(rs, Order(rs))
  <1> DEFINE N == Len(rs)
             F == Falling(rs)
             body(f, n) == IF n = 0 THEN <<>> ELSE Place(rs, f[n - 1], F[n])
             placed == CHOOSE f : f = [n \in 0..N |-> body(f, n)]
             T == {k \in Nat : \E f : f = [n \in 0..k |-> body(f, n)]}
  <1>1. F \in [1..N -> ToSet(rs)] /\ Range(F) = ToSet(rs) /\ N \in Nat
    <2>1. DOMAIN rs = 1..Len(rs) /\ Len(rs) \in Nat
      OBVIOUS
    <2> QED BY <2>1, FallingRecords
  <1> HIDE DEF F
  <1>2. T = Nat
    <2>1. 0 \in T
      <3> DEFINE h == [n \in 0..0 |-> <<>>]
      <3>1. h = [n \in 0..0 |-> body(h, n)]
        OBVIOUS
      <3> HIDE DEF h
      <3>2. \E g : g = [n \in 0..0 |-> body(g, n)]
        BY <3>1
      <3> HIDE DEF body
      <3> QED BY <3>2
    <2>2. \A k \in T : k + 1 \in T
      <3> SUFFICES ASSUME NEW k \in T PROVE k + 1 \in T
        OBVIOUS
      <3>1. PICK f : f = [n \in 0..k |-> body(f, n)]
        OBVIOUS
      <3> DEFINE h == [n \in 0..(k + 1) |-> IF n = k + 1 THEN body(f, k + 1) ELSE f[n]]
      <3>2. \A n \in 0..(k + 1) : h[n] = body(h, n)
        <4> TAKE n \in 0..(k + 1)
        <4>1. CASE n = k + 1
          <5>1. h[n - 1] = f[n - 1] /\ h[n] = body(f, n)
            BY <4>1
          <5> HIDE DEF h
          <5> QED BY <4>1, <5>1
        <4>2. CASE n # k + 1
          <5>1. n \in 0..k /\ h[n] = f[n]
            BY <4>2
          <5>2. n # 0 => h[n - 1] = f[n - 1]
            BY <5>1
          <5>3. f[n] = body(f, n)
            BY <3>1, <5>1
          <5> HIDE DEF h
          <5> QED BY <5>1, <5>2, <5>3
        <4> QED BY <4>1, <4>2
      <3>3. h = [n \in 0..(k + 1) |-> body(h, n)]
        <4>1. h = [n \in 0..(k + 1) |-> h[n]]
          OBVIOUS
        <4> HIDE DEF h
        <4> QED BY <3>2, <4>1
      <3> HIDE DEF h
      <3>4. \E g : g = [n \in 0..(k + 1) |-> body(g, n)]
        BY <3>3
      <3>5. k + 1 \in Nat
        OBVIOUS
      <3> HIDE DEF body
      <3> QED BY <3>4, <3>5, Zenon
    <2> QED BY <2>1, <2>2, SetInduction
  <1>3. placed = [n \in 0..N |-> body(placed, n)]
    <2>1. N \in T
      <3> HIDE DEF T, N
      <3> QED BY <1>1, <1>2
    <2> QED BY <2>1
  <1>4. Order(rs) = placed[N]
    BY DEF Order, F
  <1> HIDE DEF placed
  <1>5. placed[0] = <<>> /\ \A n \in 0..(N - 1) : placed[n + 1] = Place(rs, placed[n], F[n + 1])
    <2>1. placed[0] = <<>>
      BY <1>1, <1>3
    <2>2. \A n \in 0..(N - 1) : placed[n + 1] = Place(rs, placed[n], F[n + 1])
      <3> TAKE n \in 0..(N - 1)
      <3>1. n + 1 \in 0..N /\ n + 1 # 0 /\ (n + 1) - 1 = n
        BY <1>1
      <3> HIDE DEF N
      <3> QED BY <1>3, <3>1
    <2> QED BY <2>1, <2>2
  <1> DEFINE Good(n) == /\ placed[n] \in Seq(Goals(rs)) /\ IsInjective(placed[n])
                        /\ \A i \in 1..n : F[i].goal \in ToSet(placed[n])
                        /\ OneLevel(rs) /\ GoalsOnce(rs) => DependenciesFirst(rs, placed[n])
             U == {n \in Nat : n <= N => Good(n)}
  <1>6. Good(0)
    BY <1>5 DEF IsInjective, DependenciesFirst
  <1>7. ASSUME NEW n \in Nat, n + 1 <= N, Good(n) PROVE Good(n + 1)
    <2>1. placed[n + 1] = Place(rs, placed[n], F[n + 1]) /\ F[n + 1] \in ToSet(rs) /\ n + 1 \in Nat
      BY <1>1, <1>5, <1>7
    <2>2. /\ placed[n + 1] \in Seq(Goals(rs)) /\ IsInjective(placed[n + 1])
          /\ ToSet(placed[n]) \cup {F[n + 1].goal} \subseteq ToSet(placed[n + 1])
      BY <1>7, <2>1, PlaceKeeps
    <2>3. OneLevel(rs) /\ GoalsOnce(rs) => DependenciesFirst(rs, placed[n + 1])
      BY <1>7, <2>1, PlacedAfterDependency
    <2>4. \A i \in 1..(n + 1) : F[i].goal \in ToSet(placed[n + 1])
      <3> TAKE i \in 1..(n + 1)
      <3>1. i \in 1..n \/ i = n + 1
        OBVIOUS
      <3> QED BY <1>7, <2>2, <3>1
    <2> QED BY <2>2, <2>3, <2>4
  <1>8. Good(N)
    <2>1. U \in SUBSET Nat /\ 0 \in U
      BY <1>6
    <2>2. \A n \in U : n + 1 \in U
      <3> HIDE DEF Good, N
      <3> QED BY <1>1, <1>7
    <2>3. N \in U
      <3> HIDE DEF U, N
      <3> QED BY <1>1, <2>1, <2>2, SetInduction
    <2> QED BY <2>3
  <1>9. Goals(rs) \subseteq ToSet(placed[N])
    <2> SUFFICES ASSUME NEW r \in ToSet(rs) PROVE r.goal \in ToSet(placed[N])
      BY DEF Goals
    <2>1. PICK i \in 1..N : F[i] = r
      BY <1>1 DEF Range
    <2> QED BY <1>8, <2>1
  <1>10. ToSet(placed[N]) \subseteq Goals(rs)
    BY <1>8 DEF ToSet
  <1> QED
    BY <1>4, <1>8, <1>9, <1>10

-----------------------------------------------------------------------------
(* Progress through the graph of a goal.                                   *)
WellMade(g) == g \in Seq(TaskNodes) /\ IsInjective(Ids(g))

FromGoal(g, milestones) == WellNamed(milestones) /\ ToSet(g) \subseteq ToSet(Decompose(milestones))

\* Among tasks of a graph there is always one that needs none of them.
LEMMA NothingCircular ==
  ASSUME NEW ms, NEW g, FromGoal(g, ms), NEW S \in SUBSET ToSet(Ids(g)), S # {}
  PROVE  \E n \in ToSet(g) : n.task \in S /\ n.needs \notin S
  <1> DEFINE Named(m, i) == ms[m].tasks[i] \in S
             M == {m \in DOMAIN ms : \E i \in DOMAIN ms[m].tasks : Named(m, i)}
  <1>1. /\ Len(ms) \in Nat /\ DOMAIN ms = 1..Len(ms)
        /\ \A m \in DOMAIN ms : ms[m].tasks \in Seq(TaskName)
    BY Stages DEF FromGoal
  <1>2. \A t \in S : \E n \in ToSet(g) : n.task = t /\
          \E m \in DOMAIN ms : \E i \in DOMAIN ms[m].tasks : n = Node(ms[m].tasks[i], m, Prior(ms, m, i))
    <2> TAKE t \in S
    <2>1. PICK n \in ToSet(g) : n.task = t
      BY DEF ToSet, Ids
    <2>2. n \in ToSet(Decompose(ms)) /\ WellNamed(ms)
      BY DEF FromGoal
    <2>3. \E m \in DOMAIN ms : \E i \in DOMAIN ms[m].tasks : n = Node(ms[m].tasks[i], m, Prior(ms, m, i))
      BY <2>2, DecomposedGoal
    <2> QED BY <2>1, <2>3
  <1>3. \A t, m, k : Node(t, m, k).task = t /\ Node(t, m, k).needs = k
    BY DEF Node
  <1>4. M \in SUBSET Nat /\ M # {}
    <2>1. PICK t \in S : TRUE
      OBVIOUS
    <2>2. PICK n \in ToSet(g) : n.task = t /\
            \E m \in DOMAIN ms : \E i \in DOMAIN ms[m].tasks : n = Node(ms[m].tasks[i], m, Prior(ms, m, i))
      BY <1>2
    <2>3. PICK m \in DOMAIN ms : \E i \in DOMAIN ms[m].tasks : n = Node(ms[m].tasks[i], m, Prior(ms, m, i))
      BY <2>2
    <2>4. \E i \in DOMAIN ms[m].tasks : Named(m, i)
      BY <1>3, <2>2, <2>3
    <2>5. m \in M
      BY <2>4
    <2> QED BY <1>1, <2>5
  <1>5. PICK m \in M : \A k \in M : m <= k
    <2> HIDE DEF M
    <2> QED BY <1>4, LeastExists
  <1> DEFINE I == {i \in DOMAIN ms[m].tasks : Named(m, i)}
  <1>6. I \in SUBSET Nat /\ I # {}
    BY <1>1, <1>5
  <1>7. PICK i \in I : \A j \in I : i <= j
    <2> HIDE DEF I
    <2> QED BY <1>6, LeastExists
  <1>8. PICK n \in ToSet(g) : n.task = ms[m].tasks[i] /\
          \E k \in DOMAIN ms : \E j \in DOMAIN ms[k].tasks : n = Node(ms[k].tasks[j], k, Prior(ms, k, j))
    BY <1>2, <1>7
  <1>9. n = Node(ms[m].tasks[i], m, Prior(ms, m, i))
    <2>1. PICK k \in DOMAIN ms : \E j \in DOMAIN ms[k].tasks : n = Node(ms[k].tasks[j], k, Prior(ms, k, j))
      BY <1>8
    <2>2. PICK j \in DOMAIN ms[k].tasks : n = Node(ms[k].tasks[j], k, Prior(ms, k, j))
      BY <2>1
    <2>3. ms[k].tasks[j] = ms[m].tasks[i]
      BY <1>3, <1>8, <2>2
    <2>4. m \in DOMAIN ms /\ i \in DOMAIN ms[m].tasks
      BY <1>5, <1>7
    <2>5. k = m /\ j = i
      BY <2>3, <2>4 DEF FromGoal, WellNamed
    <2> QED BY <2>2, <2>5
  <1>10. Prior(ms, m, i) \notin S
    <2> SUFFICES ASSUME Prior(ms, m, i) \in S PROVE FALSE
      OBVIOUS
    <2>1. Prior(ms, m, i) \notin {None, MilestonePassed}
      <3>1. PICK x \in ToSet(g) : x.task = Prior(ms, m, i) /\
              \E k \in DOMAIN ms : \E j \in DOMAIN ms[k].tasks : x = Node(ms[k].tasks[j], k, Prior(ms, k, j))
        BY <1>2
      <3>2. PICK k \in DOMAIN ms : \E j \in DOMAIN ms[k].tasks : x = Node(ms[k].tasks[j], k, Prior(ms, k, j))
        BY <3>1
      <3>3. PICK j \in DOMAIN ms[k].tasks : x = Node(ms[k].tasks[j], k, Prior(ms, k, j))
        BY <3>2
      <3>4. ms[k].tasks[j] \in TaskName
        BY <1>1
      <3> QED BY <1>3, <3>1, <3>3, <3>4 DEF TaskName
    <2>2. m \in DOMAIN ms /\ i \in DOMAIN ms[m].tasks /\ WellNamed(ms)
      BY <1>5, <1>7 DEF FromGoal
    <2>3. PICK k \in DOMAIN ms : \E j \in DOMAIN ms[k].tasks :
            Prior(ms, m, i) = ms[k].tasks[j] /\ (k < m \/ (k = m /\ j < i))
      BY <2>1, <2>2, PriorIsEarlier
    <2>4. PICK j \in DOMAIN ms[k].tasks :
            Prior(ms, m, i) = ms[k].tasks[j] /\ (k < m \/ (k = m /\ j < i))
      BY <2>3
    <2>5. Named(k, j)
      BY <2>4
    <2>6. k \in M
      BY <2>5
    <2>7. k = m => j \in I
      BY <2>5
    <2>8. k \in Nat /\ m \in Nat /\ i \in Nat /\ j \in Nat
      BY <1>1, <2>2
    <2> HIDE DEF M, I
    <2> QED BY <1>5, <1>7, <2>4, <2>6, <2>7, <2>8
  <1>11. n.task \in S /\ n.needs = Prior(ms, m, i)
    BY <1>3, <1>7, <1>8, <1>9
  <1> QED
    BY <1>10, <1>11

\* The current task is one that is open, unless no task is.
Open(g, p) ==
  {i \in DOMAIN g : /\ g[i].task \notin ToSet(p.completed) \cup ToSet(p.failed)
                    /\ PrerequisiteOk(p, g[i])}

\* The current task is one whose prerequisite is done and that is not done itself.
LEMMA CurrentIsOpen ==
  ASSUME NEW g \in Seq(TaskNodes), NEW p
  PROVE  IF Open(g, p) = {} THEN CurrentTask(g, p) = None
         ELSE \E i \in Open(g, p) : CurrentTask(g, p) = g[i].task /\ g[i].task \in TaskName
  <1>1. CurrentTask(g, p) = IF Open(g, p) = {} THEN None ELSE g[Min(Open(g, p))].task
    BY DEF CurrentTask, Open
  <1>2. CASE Open(g, p) # {}
    <2>1. Open(g, p) \in SUBSET Nat
      BY DEF Open
    <2>2. Min(Open(g, p)) \in Open(g, p)
      BY <1>2, <2>1, LeastIsMember
    <2>3. g[Min(Open(g, p))] \in TaskNodes
      BY <2>2 DEF Open
    <2>4. \A n \in TaskNodes : n.task \in TaskName
      BY DEF TaskNodes
    <2> QED BY <1>1, <1>2, <2>2, <2>3, <2>4
  <1> QED
    BY <1>1, <1>2

\* Every task of the graph is in one list, once, and what it needed is done
\* as soon as it is completed or has failed.
Progress ==
  [completed : Seq(TaskName), pending : Seq(TaskName), failed : Seq(TaskName),
   retries : Nat, next : TaskName \cup {None}]

ListsOf(p) ==
  /\ IsInjective(p.completed) /\ IsInjective(p.pending) /\ IsInjective(p.failed)
  /\ ToSet(p.completed) \cap ToSet(p.pending) = {}
  /\ ToSet(p.completed) \cap ToSet(p.failed) = {}
  /\ ToSet(p.pending) \cap ToSet(p.failed) = {}

Covers(g, p) ==
  /\ ToSet(p.completed) \cup ToSet(p.pending) \cup ToSet(p.failed) = ToSet(Ids(g))
  /\ Len(p.completed) + Len(p.pending) + Len(p.failed) = Len(g)

Begun(g, p) ==
  \A n \in ToSet(g) : n.task \in ToSet(p.completed) \cup ToSet(p.failed) => PrerequisiteOk(p, n)

ProgressOf(g, p) == p \in Progress /\ ListsOf(p) /\ Covers(g, p) /\ Begun(g, p)

\* A task that may be executed: it waits or has failed, and what it needs is done.
Ready(g, p, t) ==
  /\ t \in ToSet(p.pending) \cup ToSet(p.failed)
  /\ \A n \in ToSet(g) : n.task = t => PrerequisiteOk(p, n)

\* It is a task, or there is none.
LEMMA NextIsTyped ==
  ASSUME NEW g \in Seq(TaskNodes), NEW p
  PROVE  CurrentTask(g, p) \in TaskName \cup {None}
  <1>1. \A i \in Open(g, p) : g[i].task \in TaskName
    <2>1. \A n \in TaskNodes : n.task \in TaskName
      BY DEF TaskNodes
    <2> QED BY <2>1 DEF Open
  <1> QED
    BY <1>1, CurrentIsOpen

\* Progress begins with every task pending.
LEMMA NewProgressKeeps ==
  ASSUME NEW g, WellMade(g)
  PROVE  ProgressOf(g, NewProgress(g))
  <1> DEFINE p == NewProgress(g)
  <1>1. /\ g \in Seq(TaskNodes) /\ IsInjective(Ids(g)) /\ \A n \in TaskNodes : n.task \in TaskName
    BY DEF WellMade, TaskNodes
  <1>2. Ids(g) \in Seq(TaskName) /\ Len(Ids(g)) = Len(g)
    <2>1. Len(g) \in Nat /\ \A i \in 1..Len(g) : g[i].task \in TaskName
      BY <1>1
    <2> QED BY <1>1, <2>1 DEF Ids
  <1>3. (IF g = <<>> THEN None ELSE g[1].task) \in TaskName \cup {None}
    <2>1. CASE g # <<>>
      <3>1. g[1] \in TaskNodes
        BY <1>1, <2>1
      <3> QED BY <1>1, <3>1
    <2> QED BY <2>1
  <1>4. <<>> \in Seq(TaskName)
    OBVIOUS
  <1>5. /\ p.completed = <<>> /\ p.pending = Ids(g) /\ p.failed = <<>> /\ p.retries = 0
        /\ p \in Progress
    BY <1>2, <1>3, <1>4 DEF NewProgress, Progress
  <1> HIDE DEF p
  <1>6. ToSet(<<>>) = {} /\ IsInjective(<<>>)
    BY DEF ToSet, IsInjective
  <1>7. ListsOf(p)
    BY <1>1, <1>5, <1>6 DEF ListsOf
  <1>8. Covers(g, p)
    <2>1. Len(p.completed) = 0 /\ Len(p.failed) = 0 /\ Len(p.pending) = Len(g) /\ Len(g) \in Nat
      BY <1>1, <1>2, <1>5
    <2> QED BY <1>5, <1>6, <2>1 DEF Covers
  <1>9. Begun(g, p)
    BY <1>5, <1>6 DEF Begun
  <1> QED
    BY <1>5, <1>7, <1>8, <1>9 DEF ProgressOf, p

\* One element moves from one list to another.
LEMMA SumKept ==
  ASSUME NEW x \in Nat, NEW y \in Nat, NEW z \in Nat
  PROVE  /\ (x + 1) + (y - 1) + z = x + y + z
         /\ (x + 1) + y + (z - 1) = x + y + z
         /\ x + (y - 1) + (z + 1) = x + y + z
  OBVIOUS

\* Completing a task that was ready keeps the progress right,
LEMMA CompletedKeeps ==
  ASSUME NEW g, WellMade(g), NEW p, ProgressOf(g, p), NEW t, Ready(g, p, t)
  PROVE  ProgressOf(g, MarkCompleted(g, p, t))
  <1> DEFINE a == RemoveFirst(p.pending, t)
             b == RemoveFirst(p.failed, t)
             c == AddOnce(p.completed, t)
             q == [p EXCEPT !.pending = a, !.failed = b, !.completed = c]
             r == MarkCompleted(g, p, t)
  <1>1. /\ p \in Progress /\ p.completed \in Seq(TaskName) /\ p.pending \in Seq(TaskName)
        /\ p.failed \in Seq(TaskName)
    BY DEF ProgressOf, Progress
  <1>2. t \in TaskName
    BY <1>1 DEF Ready, ToSet
  <1>3. ListsOf(p)
    BY DEF ProgressOf
  <1>4. /\ a \in Seq(TaskName) /\ IsInjective(a) /\ ToSet(a) = ToSet(p.pending) \ {t}
        /\ Len(a) = IF t \in ToSet(p.pending) THEN Len(p.pending) - 1 ELSE Len(p.pending)
    BY <1>1, <1>3, RemoveFirstRemoves DEF ListsOf
  <1>5. /\ b \in Seq(TaskName) /\ IsInjective(b) /\ ToSet(b) = ToSet(p.failed) \ {t}
        /\ Len(b) = IF t \in ToSet(p.failed) THEN Len(p.failed) - 1 ELSE Len(p.failed)
    BY <1>1, <1>3, RemoveFirstRemoves DEF ListsOf
  <1>6. /\ c \in Seq(TaskName) /\ IsInjective(c) /\ ToSet(c) = ToSet(p.completed) \cup {t}
        /\ Len(c) = IF t \in ToSet(p.completed) THEN Len(p.completed) ELSE Len(p.completed) + 1
    BY <1>1, <1>2, <1>3, AddOnceAdds DEF ListsOf
  <1> HIDE DEF a, b, c
  <1>7. q \in Progress /\ r = [q EXCEPT !.next = CurrentTask(g, q)]
    BY <1>1, <1>4, <1>5, <1>6 DEF Progress, MarkCompleted, a, b, c
  <1>8. CurrentTask(g, q) \in TaskName \cup {None}
    BY NextIsTyped DEF WellMade
  <1>9. q.completed = c /\ q.pending = a /\ q.failed = b
    BY <1>1 DEF Progress
  <1> HIDE DEF q, r
  <1>10. r \in Progress /\ r.completed = c /\ r.pending = a /\ r.failed = b
    BY <1>7, <1>8, <1>9 DEF Progress
  <1>11. ListsOf(r)
    BY <1>3, <1>4, <1>5, <1>6, <1>10 DEF ListsOf
  <1>12. Covers(g, r)
    <2>1. Covers(g, p) /\ t \in ToSet(p.pending) \cup ToSet(p.failed)
      BY DEF ProgressOf, Ready
    <2>2. ToSet(c) \cup ToSet(a) \cup ToSet(b) = ToSet(Ids(g))
      BY <1>4, <1>5, <1>6, <2>1 DEF Covers
    <2>3. Len(c) + Len(a) + Len(b) = Len(g)
      <3>1. t \notin ToSet(p.completed) /\ (t \in ToSet(p.pending) <=> t \notin ToSet(p.failed))
        BY <1>3, <2>1 DEF ListsOf
      <3>2. /\ Len(p.completed) \in Nat /\ Len(p.pending) \in Nat /\ Len(p.failed) \in Nat
            /\ Len(g) \in Nat
        BY <1>1 DEF WellMade
      <3>3. Len(p.completed) + Len(p.pending) + Len(p.failed) = Len(g)
        BY <2>1 DEF Covers
      <3>4. Len(c) = Len(p.completed) + 1
        BY <1>6, <3>1
      <3>5. CASE t \in ToSet(p.pending)
        <4>1. Len(a) = Len(p.pending) - 1 /\ Len(b) = Len(p.failed)
          BY <1>4, <1>5, <3>1, <3>5
        <4>2. Len(c) + Len(a) + Len(b) = (Len(p.completed) + 1) + (Len(p.pending) - 1) + Len(p.failed)
          BY <3>4, <4>1
        <4>3. Len(c) + Len(a) + Len(b) = Len(p.completed) + Len(p.pending) + Len(p.failed)
          BY <3>2, <4>2, SumKept
        <4> QED BY <3>3, <4>3
      <3>6. CASE t \notin ToSet(p.pending)
        <4>1. Len(a) = Len(p.pending) /\ Len(b) = Len(p.failed) - 1
          BY <1>4, <1>5, <3>1, <3>6
        <4>2. Len(c) + Len(a) + Len(b) = (Len(p.completed) + 1) + Len(p.pending) + (Len(p.failed) - 1)
          BY <3>4, <4>1
        <4>3. Len(c) + Len(a) + Len(b) = Len(p.completed) + Len(p.pending) + Len(p.failed)
          BY <3>2, <4>2, SumKept
        <4> QED BY <3>3, <4>3
      <3> QED BY <3>5, <3>6
    <2> QED BY <1>10, <2>2, <2>3 DEF Covers
  <1>13. Begun(g, r)
    <2> SUFFICES ASSUME NEW n \in ToSet(g), n.task \in ToSet(c) \cup ToSet(b)
                 PROVE  PrerequisiteOk(r, n)
      BY <1>10 DEF Begun
    <2>1. PrerequisiteOk(p, n)
      BY <1>5, <1>6 DEF ProgressOf, Begun, Ready
    <2> QED BY <1>6, <1>10, <2>1 DEF PrerequisiteOk
  <1> QED
    BY <1>10, <1>11, <1>12, <1>13 DEF ProgressOf, r

\* and so does failing it.
LEMMA FailedKeeps ==
  ASSUME NEW g, WellMade(g), NEW p, ProgressOf(g, p), NEW t, Ready(g, p, t)
  PROVE  ProgressOf(g, MarkFailed(g, p, t))
  <1> DEFINE a == RemoveFirst(p.pending, t)
             b == AddOnce(p.failed, t)
             q == [p EXCEPT !.pending = a, !.failed = b, !.retries = @ + 1]
             r == MarkFailed(g, p, t)
  <1>1. /\ p \in Progress /\ p.completed \in Seq(TaskName) /\ p.pending \in Seq(TaskName)
        /\ p.failed \in Seq(TaskName) /\ p.retries \in Nat
    BY DEF ProgressOf, Progress
  <1>2. t \in TaskName
    BY <1>1 DEF Ready, ToSet
  <1>3. ListsOf(p)
    BY DEF ProgressOf
  <1>4. /\ a \in Seq(TaskName) /\ IsInjective(a) /\ ToSet(a) = ToSet(p.pending) \ {t}
        /\ Len(a) = IF t \in ToSet(p.pending) THEN Len(p.pending) - 1 ELSE Len(p.pending)
    BY <1>1, <1>3, RemoveFirstRemoves DEF ListsOf
  <1>5. /\ b \in Seq(TaskName) /\ IsInjective(b) /\ ToSet(b) = ToSet(p.failed) \cup {t}
        /\ Len(b) = IF t \in ToSet(p.failed) THEN Len(p.failed) ELSE Len(p.failed) + 1
    BY <1>1, <1>2, <1>3, AddOnceAdds DEF ListsOf
  <1> HIDE DEF a, b
  <1>6. p.retries + 1 \in Nat
    BY <1>1
  <1>7. q \in Progress /\ r = [q EXCEPT !.next = CurrentTask(g, q)]
    <2>1. q \in Progress
      BY <1>1, <1>4, <1>5, <1>6 DEF Progress
    <2> QED BY <2>1 DEF MarkFailed, a, b
  <1>8. CurrentTask(g, q) \in TaskName \cup {None}
    BY NextIsTyped DEF WellMade
  <1>9. q.completed = p.completed /\ q.pending = a /\ q.failed = b
    BY <1>1 DEF Progress
  <1> HIDE DEF q, r
  <1>10. r \in Progress /\ r.completed = p.completed /\ r.pending = a /\ r.failed = b
    BY <1>7, <1>8, <1>9 DEF Progress
  <1>11. t \notin ToSet(p.completed)
    BY <1>3 DEF ListsOf, Ready
  <1>12. ListsOf(r)
    BY <1>3, <1>4, <1>5, <1>10, <1>11 DEF ListsOf
  <1>13. Covers(g, r)
    <2>1. Covers(g, p) /\ t \in ToSet(p.pending) \cup ToSet(p.failed)
      BY DEF ProgressOf, Ready
    <2>2. ToSet(p.completed) \cup ToSet(a) \cup ToSet(b) = ToSet(Ids(g))
      BY <1>4, <1>5, <2>1 DEF Covers
    <2>3. Len(p.completed) + Len(a) + Len(b) = Len(g)
      <3>1. t \in ToSet(p.pending) <=> t \notin ToSet(p.failed)
        BY <1>3, <2>1 DEF ListsOf
      <3>2. /\ Len(p.completed) \in Nat /\ Len(p.pending) \in Nat /\ Len(p.failed) \in Nat
            /\ Len(g) \in Nat
        BY <1>1 DEF WellMade
      <3>3. Len(p.completed) + Len(p.pending) + Len(p.failed) = Len(g)
        BY <2>1 DEF Covers
      <3>4. CASE t \in ToSet(p.pending)
        <4>1. Len(a) = Len(p.pending) - 1 /\ Len(b) = Len(p.failed) + 1
          BY <1>4, <1>5, <3>1, <3>4
        <4>2. Len(p.completed) + Len(a) + Len(b)
                = Len(p.completed) + (Len(p.pending) - 1) + (Len(p.failed) + 1)
          BY <4>1
        <4>3. Len(p.completed) + Len(a) + Len(b) = Len(p.completed) + Len(p.pending) + Len(p.failed)
          BY <3>2, <4>2, SumKept
        <4> QED BY <3>3, <4>3
      <3>5. CASE t \notin ToSet(p.pending)
        <4>1. Len(a) = Len(p.pending) /\ Len(b) = Len(p.failed)
          BY <1>4, <1>5, <3>1, <3>5
        <4> QED BY <3>2, <3>3, <4>1
      <3> QED BY <3>4, <3>5
    <2> QED BY <1>10, <2>2, <2>3 DEF Covers
  <1>14. Begun(g, r)
    <2> SUFFICES ASSUME NEW n \in ToSet(g), n.task \in ToSet(p.completed) \cup ToSet(b)
                 PROVE  PrerequisiteOk(r, n)
      BY <1>10 DEF Begun
    <2>1. PrerequisiteOk(p, n)
      BY <1>5 DEF ProgressOf, Begun, Ready
    <2> QED BY <1>10, <2>1 DEF PrerequisiteOk
  <1> QED
    BY <1>10, <1>12, <1>13, <1>14 DEF ProgressOf, r

\* The task begun, or begun again, is one that may be executed.
LEMMA CurrentIsReady ==
  ASSUME NEW g, WellMade(g), NEW p, ProgressOf(g, p), CurrentTask(g, p) # None
  PROVE  Ready(g, p, CurrentTask(g, p))
  <1>1. PICK i \in Open(g, p) : CurrentTask(g, p) = g[i].task
    BY CurrentIsOpen DEF WellMade
  <1>2. /\ i \in DOMAIN g /\ g[i].task \notin ToSet(p.completed) \cup ToSet(p.failed)
        /\ PrerequisiteOk(p, g[i])
    BY DEF Open
  <1>3. g[i].task \in ToSet(Ids(g))
    BY <1>2 DEF Ids, ToSet
  <1>4. g[i].task \in ToSet(p.pending)
    BY <1>2, <1>3 DEF ProgressOf, Covers
  <1>5. \A n \in ToSet(g) : n.task = g[i].task => n = g[i]
    <2> SUFFICES ASSUME NEW j \in DOMAIN g, g[j].task = g[i].task PROVE g[j] = g[i]
      BY DEF ToSet
    <2>1. j = i
      BY <1>2 DEF WellMade, Ids, IsInjective
    <2> QED BY <2>1
  <1> QED
    BY <1>1, <1>2, <1>4, <1>5 DEF Ready

\* A failed task is ready: it may be tried again.
LEMMA FailedIsReady ==
  ASSUME NEW g, NEW p, ProgressOf(g, p), NEW t \in ToSet(p.failed)
  PROVE  Ready(g, p, t)
  BY DEF Ready, ProgressOf, Begun

-----------------------------------------------------------------------------
(* The inductive invariant of the session: the records of its runs; what   *)
(* is asked for and stored; a graph of tasks, each named once, that comes  *)
(* from the goal pursued, so nothing in it is circular; the progress       *)
(* through it; and a task in hand that may be executed.                    *)
Pursued ==
  \/ goal = None /\ graph = <<>>
  \/ goal \in DOMAIN Milestones /\ FromGoal(graph, Milestones[goal])

InHand == task = None \/ (Ready(graph, progress, task) /\ goal # None)

IInv ==
  /\ ExecInv
  /\ asked \in Asked \cup {<<>>} /\ (asked # <<>> => goal = None)
  /\ store \in Seq(Experience)
  /\ WellMade(graph) /\ Pursued
  /\ ProgressOf(graph, progress)
  /\ InHand

\* What is asked of the scheduler.
LEMMA AskedAreRecords ==
  ASSUME NEW rs \in Asked
  PROVE  rs \in Seq(Records) /\ GoalsOnce(rs)
  <1>1. rs \in Seq(Records) /\ \A i, j \in DOMAIN rs : rs[i].goal = rs[j].goal => i = j
    BY GoalsAsked DEF Records
  <1>2. GoalsOnce(rs)
    BY <1>1 DEF GoalsOnce, ToSet
  <1> QED
    BY <1>1, <1>2

\* The tasks of a goal have names of their own.
LEMMA GoalsAreWellNamed ==
  ASSUME NEW g \in DOMAIN Milestones
  PROVE  WellNamed(Milestones[g])
  BY TasksOfGoals DEF WellNamed

\* The scheduler selects a goal that was asked for.
LEMMA SelectedIsGoal ==
  ASSUME NEW rs \in Asked, rs # <<>>
  PROVE  Schedule(rs).selected \in DOMAIN Milestones
  <1>1. rs \in Seq(Records)
    BY AskedAreRecords
  <1>2. Order(rs) \in Seq(Goals(rs)) /\ ToSet(Order(rs)) = Goals(rs)
    BY <1>1, OrderedGoals
  <1>3. rs[1] \in ToSet(rs) /\ rs[1].goal \in Goals(rs)
    BY <1>1 DEF ToSet, Goals
  <1>4. Order(rs) # <<>>
    BY <1>2, <1>3 DEF ToSet
  <1>5. Schedule(rs).selected = Head(Order(rs))
    BY <1>4 DEF Schedule
  <1>6. Head(Order(rs)) \in Goals(rs)
    BY <1>2, <1>4
  <1>7. Goals(rs) \subseteq DOMAIN Milestones
    <2>1. \A r \in Records : r.goal \in DOMAIN Milestones
      BY DEF Records
    <2> QED BY <1>1, <2>1 DEF Goals, ToSet
  <1> QED
    BY <1>5, <1>6, <1>7

\* A session begins without a goal and without a run: the invariant holds.
THEOREM HorizonInit == Init => IInv
  <1> SUFFICES ASSUME Init PROVE IInv
    OBVIOUS
  <1>1. ExecInv
    BY ExecInitHolds DEF Init
  <1>2. graph = <<>> /\ goal = None /\ task = None /\ asked = <<>> /\ store = <<>>
        /\ progress = NewProgress(<<>>)
    BY DEF Init
  <1>3. WellMade(<<>>)
    BY DEF WellMade, Ids, IsInjective
  <1>4. ProgressOf(<<>>, NewProgress(<<>>))
    BY <1>3, NewProgressKeeps
  <1>5. store \in Seq(Experience)
    BY <1>2
  <1> QED
    BY <1>1, <1>2, <1>3, <1>4, <1>5 DEF IInv, Pursued, InHand

\* An experience that is learned keeps the invariant;
LEMMA LearnKeeps == ASSUME IInv, Learn PROVE IInv'
  <1>1. ExecInv'
    BY ExecUnchanged DEF IInv, Learn
  <1>2. PICK x \in Experiences : store' = AddExperience(store, x)
    BY DEF Learn
  <1>3. x \in Experience
    BY ExperiencesTyped DEF Experience
  <1>4. store' \in Seq(Experience)
    BY <1>2, <1>3 DEF AddExperience, IInv
  <1> QED
    BY <1>1, <1>4 DEF IInv, Learn, learnVars, Pursued, InHand

\* so does a schedule,
LEMMA ScheduleKeeps == ASSUME IInv, ScheduleGoals PROVE IInv'
  <1>1. ExecInv'
    BY ExecUnchanged DEF IInv, ScheduleGoals
  <1>2. task = None
    BY DEF IInv, InHand, ScheduleGoals
  <1> QED
    BY <1>1, <1>2 DEF IInv, ScheduleGoals, learnVars, Pursued, InHand

\* a goal that is taken up and decomposed,
LEMMA TakeGoalKeeps == ASSUME IInv, TakeGoal PROVE IInv'
  <1>1. ExecInv'
    BY ExecUnchanged DEF IInv, TakeGoal
  <1>2. task = None /\ asked \in Asked /\ asked # <<>>
    BY DEF IInv, InHand, TakeGoal
  <1>3. goal' \in DOMAIN Milestones
    BY <1>2, SelectedIsGoal DEF TakeGoal
  <1>4. graph' = Decompose(Milestones[goal']) /\ WellNamed(Milestones[goal'])
    BY <1>3, GoalsAreWellNamed DEF TakeGoal
  <1>5. WellMade(graph') /\ FromGoal(graph', Milestones[goal'])
    BY <1>4, DecomposedGoal DEF WellMade, FromGoal
  <1>6. ProgressOf(graph', progress')
    BY <1>5, NewProgressKeeps DEF TakeGoal
  <1>7. asked' = <<>> /\ store' = store /\ task' = None
    BY <1>2 DEF TakeGoal
  <1> QED
    BY <1>1, <1>3, <1>5, <1>6, <1>7 DEF IInv, Pursued, InHand

\* the graph that experience recommends, which gets a progress of its own,
LEMMA OptimizeKeeps == ASSUME IInv, Optimize PROVE IInv'
  <1>1. ExecInv'
    BY ExecUnchanged DEF IInv, Optimize
  <1> DEFINE score == [i \in DOMAIN store |-> Likeness(store[i])]
             x == Retrieve(store, score, 1)[1]
  <1>2. store \in Seq(Experience) /\ store # <<>> /\ WellMade(graph) /\ Pursued
    BY DEF IInv, Optimize
  <1>3. score \in [DOMAIN store -> Int]
    <2>1. \A i \in DOMAIN store : Likeness(store[i]) \in Int
      BY <1>2, ScoreIsNumber DEF Likeness, WellMade
    <2> QED BY <2>1
  <1>4. graph' = OptimizedGraph(graph, x)
    BY DEF Optimize
  <1> HIDE DEF score
  <1>5. x \in Experience
    BY <1>2, <1>3, RetrievedIsStored
  <1> HIDE DEF x
  <1>6. graph' = PathOrder(graph, ToSet(x.failed), x.path) /\ x.path \in Seq(STRING)
    BY <1>4, <1>5 DEF OptimizedGraph, Experience
  <1>7. WellMade(graph') /\ ToSet(graph') \subseteq ToSet(graph)
    BY <1>2, <1>6, PathOrderKeeps DEF WellMade
  <1>8. goal' = goal /\ asked' = asked /\ store' = store /\ task' = None /\ progress' = NewProgress(graph')
    BY DEF Optimize
  <1>9. ProgressOf(graph', progress')
    BY <1>7, <1>8, NewProgressKeeps
  <1>10. goal # None
    BY DEF Optimize
  <1>11. Pursued'
    BY <1>2, <1>7, <1>8, <1>10 DEF Pursued, FromGoal
  <1>12. asked' \in Asked \cup {<<>>}
    BY <1>8 DEF IInv
  <1>13. asked' # <<>> => goal' = None
    BY <1>8 DEF IInv
  <1> QED
    BY <1>1, <1>2, <1>7, <1>8, <1>9, <1>11, <1>12, <1>13 DEF IInv, InHand

\* a task that is started,
LEMMA StartTaskKeeps == ASSUME IInv, StartTask PROVE IInv'
  <1>1. ExecInv'
    BY BeginKeeps DEF IInv, StartTask
  <1>2. WellMade(graph) /\ ProgressOf(graph, progress)
    BY DEF IInv
  <1>3. Ready(graph, progress, task')
    <2>1. CASE task' = CurrentTask(graph, progress)
      BY <1>2, <2>1, CurrentIsReady DEF StartTask
    <2>2. CASE task' \in ToSet(progress.failed)
      BY <1>2, <2>2, FailedIsReady
    <2> QED BY <2>1, <2>2 DEF StartTask
  <1>4. goal # None /\ UNCHANGED <<asked, goal, graph, store, progress>>
    BY DEF StartTask, planVars
  <1> QED
    BY <1>1, <1>3, <1>4 DEF IInv, Pursued, InHand

\* a step of its run,
LEMMA RunStepKeeps == ASSUME IInv, RunStep PROVE IInv'
  <1>1. ExecInv'
    BY ExecStepKeeps DEF IInv, RunStep
  <1> QED
    BY <1>1 DEF IInv, RunStep, planVars, learnVars, Pursued, InHand

\* a run that left nothing to reflect on,
LEMMA NothingKeeps == ASSUME IInv, NothingToReflect PROVE IInv'
  <1>1. ExecInv'
    BY ExecUnchanged DEF IInv, NothingToReflect
  <1> QED
    BY <1>1 DEF IInv, NothingToReflect, planVars, learnVars, Pursued, InHand

\* and the reflection, which marks the task.
LEMMA ReflectKeeps == ASSUME IInv, Reflect PROVE IInv'
  <1>1. ExecInv'
    BY ExecUnchanged DEF IInv, Reflect
  <1>2. WellMade(graph) /\ ProgressOf(graph, progress) /\ Ready(graph, progress, task)
    BY DEF IInv, InHand, Reflect
  <1>3. \/ progress' = MarkCompleted(graph, progress, task)
        \/ progress' = MarkFailed(graph, progress, task)
        \/ progress' = progress
    BY DEF Reflect
  <1>4. ProgressOf(graph, progress')
    BY <1>2, <1>3, CompletedKeeps, FailedKeeps
  <1>5. UNCHANGED <<asked, goal, graph, store>> /\ task' = None
    BY DEF Reflect, planVars
  <1> QED
    BY <1>1, <1>4, <1>5 DEF IInv, Pursued, InHand

\* The inductive invariant holds of every session.
THEOREM HorizonInvariance == Spec => []IInv
  <1>1. ASSUME IInv, [Next]_vars PROVE IInv'
    <2>1. CASE Next
      BY <1>1, <2>1, LearnKeeps, ScheduleKeeps, TakeGoalKeeps, OptimizeKeeps, StartTaskKeeps,
         RunStepKeeps, NothingKeeps, ReflectKeeps DEF Next
    <2>2. CASE UNCHANGED vars
      <3>1. ExecInv'
        BY <1>1, <2>2, ExecUnchanged DEF IInv, vars
      <3> QED BY <1>1, <2>2, <3>1 DEF IInv, vars, planVars, learnVars, Pursued, InHand
    <2> QED BY <1>1, <2>1, <2>2
  <1> QED
    BY <1>1, HorizonInit, PTL DEF Spec

-----------------------------------------------------------------------------
(* What a run leaves behind agrees with itself, whatever the executor      *)
(* answers: ExecutionOrchestrator.run and its transition table.            *)
THEOREM RecordsOfRuns == Spec => []RunAgreesWithRecords
  <1>1. IInv => RunAgreesWithRecords
    BY RecordsAgree DEF IInv
  <1> QED
    BY <1>1, HorizonInvariance, PTL

(* No task is completed before what it needs, each is in one list once,    *)
(* and work ends early only behind a failure or a prerequisite that the    *)
(* graph has lost: TaskExecutionStateManager.                              *)
THEOREM PrerequisitesAreKept == Spec => []PrerequisitesKept
  <1>1. ASSUME IInv PROVE PrerequisitesKept
    <2>1. WellMade(graph) /\ Pursued /\ ProgressOf(graph, progress)
      BY <1>1 DEF IInv
    <2>2. \A n \in ToSet(graph) : n.task \in ToSet(progress.completed) =>
            n.needs \in {None, MilestonePassed} \cup ToSet(progress.completed)
      BY <2>1 DEF ProgressOf, Begun, PrerequisiteOk
    <2>3. "incomplete" \notin StateIssues(graph, progress)
      <3>1. ToSet(progress.completed) \cup ToSet(progress.pending) \cup ToSet(progress.failed)
              = ToSet(Ids(graph))
        BY <2>1 DEF ProgressOf, Covers
      <3> QED BY <3>1 DEF StateIssues
    <2>4. Len(progress.completed) + Len(progress.pending) + Len(progress.failed) = Len(graph)
      BY <2>1 DEF ProgressOf, Covers
    <2>5. ASSUME Waiting # {}, CurrentTask(graph, progress) = None, progress.failed = <<>>,
                 \A n \in Waiting : n.needs \in {None, MilestonePassed} \cup ToSet(Ids(graph))
          PROVE  FALSE
      <3>1. Open(graph, progress) = {}
        <4>1. None \notin TaskName
          BY DEF TaskName
        <4> QED BY <2>1, <2>5, <4>1, CurrentIsOpen DEF WellMade
      <3>2. \A n \in Waiting : ~PrerequisiteOk(progress, n)
        BY <3>1 DEF Open, Waiting, ToSet
      <3> DEFINE S == {n.task : n \in Waiting}
      <3>3. S \in SUBSET ToSet(Ids(graph)) /\ S # {}
        <4>1. \A n \in ToSet(graph) : n.task \in ToSet(Ids(graph))
          BY DEF ToSet, Ids
        <4>2. \A n \in Waiting : n \in ToSet(graph)
          BY DEF Waiting
        <4>3. \A n \in Waiting : n.task \in ToSet(Ids(graph))
          BY <4>1, <4>2
        <4>4. PICK n \in Waiting : TRUE
          BY <2>5
        <4>5. n.task \in S
          OBVIOUS
        <4> QED BY <4>3, <4>5
      <3>4. graph # <<>>
        BY <2>5 DEF Waiting, ToSet
      <3>5. PICK ms : FromGoal(graph, ms)
        BY <2>1, <3>4 DEF Pursued
      <3>6. PICK n \in ToSet(graph) : n.task \in S /\ n.needs \notin S
        <4> HIDE DEF S
        <4> QED BY <3>3, <3>5, NothingCircular
      <3>7. n \in Waiting
        <4>1. PICK x \in Waiting : x.task = n.task
          BY <3>6
        <4> QED BY <4>1 DEF Waiting
      <3>8. n.needs \in ToSet(Ids(graph)) /\ n.needs \notin ToSet(progress.completed)
        BY <2>5, <3>2, <3>7 DEF PrerequisiteOk
      <3>9. PICK x \in ToSet(graph) : x.task = n.needs
        BY <3>8 DEF ToSet, Ids
      <3>10. x \in Waiting
        <4>1. ToSet(progress.failed) = {}
          BY <2>5 DEF ToSet
        <4> QED BY <3>8, <3>9, <4>1 DEF Waiting
      <3> QED BY <3>6, <3>9, <3>10
    <2> QED BY <2>2, <2>3, <2>4, <2>5 DEF PrerequisitesKept
  <1> QED
    BY <1>1, HorizonInvariance, PTL

-----------------------------------------------------------------------------
(* Advice: what schedules, orders and scores are accepted by.              *)
LEMMA CountedOnce ==
  ASSUME NEW S, NEW s \in Seq(S), IsInjective(s)
  PROVE  Cardinality(ToSet(s)) = Len(s)
  <1>1. s \in Surjection(1..Len(s), ToSet(s))
    <2>1. s \in [1..Len(s) -> ToSet(s)]
      BY DEF ToSet
    <2>2. \A t \in ToSet(s) : \E i \in 1..Len(s) : s[i] = t
      BY DEF ToSet
    <2> QED BY <2>1, <2>2 DEF Surjection
  <1>2. s \in Injection(1..Len(s), ToSet(s))
    BY <1>1 DEF Surjection, Injection
  <1>3. IsFiniteSet(1..Len(s)) /\ Cardinality(1..Len(s)) = Len(s)
    <2>1. Len(s) \in Nat
      OBVIOUS
    <2>2. IsFiniteSet(1..Len(s)) /\ Cardinality(1..Len(s)) = IF 1 > Len(s) THEN 0 ELSE Len(s) - 1 + 1
      BY <2>1, FS_Interval
    <2> QED BY <2>1, <2>2
  <1> QED
    BY <1>1, <1>2, <1>3, FS_Surjection

\* A share is a percentage.
LEMMA ShareInRange ==
  ASSUME NEW part, NEW whole, IsFiniteSet(whole)
  PROVE  Share(part, whole) \in 0..100
  <1>1. CASE whole = {}
    BY <1>1 DEF Share
  <1>2. CASE whole # {}
    <2> DEFINE a == Cardinality(part \cap whole)  b == Cardinality(whole)
    <2>1. b \in Nat /\ b # 0
      BY <1>2, FS_CardinalityType, FS_EmptySet
    <2>2. (part \cap whole) \in SUBSET whole
      OBVIOUS
    <2>3. IsFiniteSet(part \cap whole) /\ a <= b
      BY <2>2, FS_Subset
    <2>4. a \in Nat
      BY <2>3, FS_CardinalityType
    <2>5. Share(part, whole) = (100 * a) \div b
      BY <1>2 DEF Share
    <2> HIDE DEF a, b
    <2>6. (100 * a) \div b \in 0..100
      <3> DEFINE q == (100 * a) \div b
      <3>1. q \in Int /\ b * q <= 100 * a /\ 100 * a < b * (q + 1)
        BY <2>1, <2>4
      <3> HIDE DEF q
      <3>2. q <= 100
        <4> SUFFICES ASSUME q >= 101 PROVE FALSE
          BY <3>1
        <4>1. b * 101 <= b * q
          BY <2>1, <3>1
        <4>2. b * q <= 100 * a
          BY <3>1
        <4>3. 100 * a < b * 101
          BY <2>1, <2>3, <2>4
        <4>4. b * q \in Int /\ b * 101 \in Int /\ 100 * a \in Int
          BY <2>1, <2>4, <3>1
        <4> DEFINE left == b * q  right == b * 101  middle == 100 * a
        <4> HIDE DEF left, right, middle
        <4>5. right <= left /\ left <= middle /\ middle < right /\ {left, right, middle} \subseteq Int
          BY <4>1, <4>2, <4>3, <4>4 DEF left, right, middle
        <4> QED BY <4>5
      <3>3. q >= 0
        <4> SUFFICES ASSUME q + 1 <= 0 PROVE FALSE
          BY <3>1
        <4>1. b * (q + 1) <= 0
          BY <2>1, <3>1
        <4>2. 100 * a >= 0 /\ 100 * a < b * (q + 1)
          BY <2>4, <3>1
        <4>3. b * (q + 1) \in Int /\ 100 * a \in Int
          BY <2>1, <2>4, <3>1
        <4> DEFINE above == b * (q + 1)  below == 100 * a
        <4> HIDE DEF above, below
        <4>4. above <= 0 /\ below >= 0 /\ below < above /\ {above, below} \subseteq Int
          BY <4>1, <4>2, <4>3 DEF above, below
        <4> QED BY <4>4
      <3> QED BY <3>1, <3>2, <3>3 DEF q
    <2> QED BY <2>5, <2>6
  <1> QED
    BY <1>1, <1>2

\* The scheduler's validator accepts its schedules, but for chains of dependencies.
LEMMA ScheduleAccepted ==
  ASSUME NEW rs \in Asked, rs # <<>>
  PROVE  /\ ScheduleIssues(Schedule(rs), rs) \subseteq {"dependency"}
         /\ OneLevel(rs) => ScheduleIssues(Schedule(rs), rs) = {}
  <1> DEFINE o == Order(rs)  s == Schedule(rs)
  <1>1. rs \in Seq(Records) /\ GoalsOnce(rs)
    BY AskedAreRecords
  <1>2. /\ o \in Seq(Goals(rs)) /\ IsInjective(o) /\ ToSet(o) = Goals(rs)
        /\ OneLevel(rs) => DependenciesFirst(rs, o)
    BY <1>1, OrderedGoals
  <1>3. o # <<>>
    <2>1. rs[1] \in ToSet(rs) /\ rs[1].goal \in Goals(rs)
      BY <1>1 DEF ToSet, Goals
    <2> QED BY <1>2, <2>1 DEF ToSet
  <1>4. s.order = o /\ s.selected = Head(o)
    BY <1>3 DEF Schedule
  <1> HIDE DEF o, s
  <1>5. Head(o) \in ToSet(o)
    BY <1>2, <1>3 DEF ToSet
  <1>6. "empty" \notin ScheduleIssues(s, rs)
    BY <1>3, <1>4 DEF ScheduleIssues
  <1>7. "repeated" \notin ScheduleIssues(s, rs)
    BY <1>2, <1>4, CountedOnce DEF ScheduleIssues
  <1>8. "incomplete" \notin ScheduleIssues(s, rs)
    BY <1>2, <1>4 DEF ScheduleIssues
  <1>9. "selected" \notin ScheduleIssues(s, rs)
    BY <1>4, <1>5 DEF ScheduleIssues
  <1>10. ASSUME OneLevel(rs) PROVE "dependency" \notin ScheduleIssues(s, rs)
    <2> SUFFICES ASSUME NEW r \in ToSet(rs), {r.dependency, r.goal} \subseteq ToSet(o) \cap Goals(rs)
                 PROVE  ~(Position(o, r.dependency) > Position(o, r.goal))
      BY <1>4 DEF ScheduleIssues
    <2>1. \A g \in ToSet(o) : Position(o, g) \in DOMAIN o /\ o[Position(o, g)] = g
      BY DEF ToSet, Position
    <2>2. PICK i \in DOMAIN o : i < Position(o, r.goal) /\ o[i] = r.dependency
      BY <1>2, <1>10, <2>1 DEF DependenciesFirst
    <2>3. Position(o, r.dependency) = i
      BY <1>2, <2>1, <2>2 DEF IsInjective
    <2>4. Position(o, r.goal) \in Nat /\ i \in Nat
      BY <1>2, <2>1
    <2> QED BY <2>2, <2>3, <2>4
  <1>11. ScheduleIssues(s, rs) \subseteq {"empty", "repeated", "incomplete", "selected", "dependency"}
    BY DEF ScheduleIssues
  <1> QED
    BY <1>6, <1>7, <1>8, <1>9, <1>10, <1>11 DEF s

\* The planning validator accepts every recommended order, unless nothing is left of it.
LEMMA ReferenceAccepted ==
  ASSUME NEW g, WellMade(g), NEW orders, NEW x \in Experience
  PROVE  ReferenceIssues(Reference(orders, g, x), g) \subseteq {"empty"}
  <1> DEFINE extra == ToSet(Analysis(orders, g).redundant)
             out == extra \cup ToSet(x.failed)
             path == PathOrder(g, out, x.path)
             ref == Reference(orders, g, x)
  <1>1. /\ ref.order = Ids(path)
        /\ ref.removed = extra \cup (ToSet(x.failed) \cap (ToSet(Ids(g)) \ extra))
    BY DEF Reference
  <1> HIDE DEF extra, ref
  <1>2. x.path \in Seq(STRING)
    BY DEF Experience
  <1>3. path \in Seq(TaskNodes) /\ IsInjective(Ids(path)) /\ ToSet(path) = {n \in ToSet(g) : n.task \notin out}
    <2> HIDE DEF out
    <2> QED BY <1>2, PathOrderKeeps DEF WellMade
  <1> HIDE DEF path
  <1>4. ToSet(Ids(path)) = {n.task : n \in ToSet(path)} /\ ToSet(Ids(g)) = {n.task : n \in ToSet(g)}
    BY DEF ToSet, Ids
  <1>5. ToSet(Ids(path)) = ToSet(Ids(g)) \ out
    BY <1>3, <1>4
  <1>6. Ids(path) \in Seq({n.task : n \in TaskNodes})
    <2>1. Len(path) \in Nat /\ \A i \in 1..Len(path) : path[i].task \in {n.task : n \in TaskNodes}
      BY <1>3
    <2>2. DOMAIN path = 1..Len(path)
      BY <1>3
    <2> QED BY <2>1, <2>2 DEF Ids
  <1>7. "repeated" \notin ReferenceIssues(ref, g)
    BY <1>1, <1>3, <1>6, CountedOnce DEF ReferenceIssues
  <1>8. "removed" \notin ReferenceIssues(ref, g)
    <2>1. ref.removed \cap ToSet(ref.order) = {}
      BY <1>1, <1>5
    <2> QED BY <2>1 DEF ReferenceIssues
  <1>9. "incomplete" \notin ReferenceIssues(ref, g)
    <2>1. ToSet(ref.order) = ToSet(Ids(g)) \ ref.removed
      BY <1>1, <1>5
    <2> QED BY <2>1 DEF ReferenceIssues
  <1>10. ReferenceIssues(ref, g) \subseteq {"empty", "repeated", "removed", "incomplete"}
    BY DEF ReferenceIssues
  <1> QED
    BY <1>7, <1>8, <1>9, <1>10 DEF ref

\* Its score is a percentage.
LEMMA ScoreAccepted ==
  ASSUME NEW g, WellMade(g), NEW orders, NEW x \in Experience
  PROVE  PlanningScore(orders, g, x) \in 0..100
  <1> DEFINE a == Analysis(orders, g)
             alike == Share(ToSet(x.pattern), ToSet(Ids(g)))
             full == IF a.complete THEN 100 ELSE 40
             won == IF x.success THEN 100 ELSE 40
  <1>1. alike \in 0..100
    <2>1. IsFiniteSet(ToSet(Ids(g)))
      <3>1. Ids(g) \in Seq({n.task : n \in TaskNodes})
        <4>1. g \in Seq(TaskNodes)
          BY DEF WellMade
        <4>2. Len(g) \in Nat /\ \A i \in 1..Len(g) : g[i].task \in {n.task : n \in TaskNodes}
          BY <4>1
        <4>3. DOMAIN g = 1..Len(g)
          BY <4>1
        <4> QED BY <4>2, <4>3 DEF Ids
      <3> QED BY <3>1, PathIsFinite
    <2> QED BY <2>1, ShareInRange
  <1>2. a.failure \in {20, 40, 50, 70}
    BY DEF Analysis
  <1>3. full \in {40, 100} /\ won \in {40, 100}
    OBVIOUS
  <1>4. PlanningScore(orders, g, x) = (30 * full + 25 * alike + 25 * (100 - a.failure) + 20 * won) \div 100
    BY DEF PlanningScore
  <1> HIDE DEF a, alike, full, won
  <1> QED
    BY <1>1, <1>2, <1>3, <1>4

(* Schedules are accepted by their validator, but for dependencies of more *)
(* than one level; a graph and the order experience recommends for it are  *)
(* accepted by theirs, but for an empty one; a score is a percentage:      *)
(* goal_scheduler, goal_memory and planning_optimizer.                     *)
THEOREM AdviceIsAccepted == Spec => []AdviceAccepted
  <1>1. ASSUME IInv PROVE AdviceAccepted
    <2>1. asked # <<>> =>
            /\ ScheduleIssues(Schedule(asked), asked) \subseteq {"dependency"}
            /\ OneLevel(asked) => ScheduleIssues(Schedule(asked), asked) = {}
      BY <1>1, ScheduleAccepted DEF IInv
    <2>2. ASSUME goal # None PROVE GraphIssues(Orders(goal), graph) \subseteq {"empty"}
      <3>1. goal \in DOMAIN Milestones /\ FromGoal(graph, Milestones[goal])
        BY <1>1, <2>2 DEF IInv, Pursued
      <3>2. "order" \notin GraphIssues(Orders(goal), graph)
        <4> SUFFICES ASSUME NEW i \in DOMAIN Milestones[goal], NEW j \in DOMAIN Milestones[goal], i < j
                     PROVE  ~(Milestones[goal][i].order > Milestones[goal][j].order)
          BY DEF GraphIssues, Orders
        <4>1. Milestones[goal][i].order <= Milestones[goal][j].order
          BY <3>1, MilestonesInOrder
        <4>2. Milestones[goal][i].order \in Int /\ Milestones[goal][j].order \in Int
          <5> DEFINE Stage == [order : Int, tasks : Seq(TaskName)]
          <5>1. Milestones[goal] \in Seq(Stage) /\ \A s \in Stage : s.order \in Int
            BY <3>1 DEF FromGoal, WellNamed
          <5> HIDE DEF Stage
          <5> QED BY <5>1
        <4> QED BY <4>1, <4>2
      <3>3. ~HasCycle(graph)
        <4>1. ASSUME NEW S \in SUBSET ToSet(Ids(graph)), S # {},
                     \A t \in S : \E u \in S : <<u, t>> \in Before(graph)
              PROVE  FALSE
          <5>1. PICK n \in ToSet(graph) : n.task \in S /\ n.needs \notin S
            BY <3>1, <4>1, NothingCircular
          <5>2. PICK u \in S : <<u, n.task>> \in Before(graph)
            BY <4>1, <5>1
          <5>3. PICK x \in ToSet(graph) : <<u, n.task>> = <<x.needs, x.task>>
            BY <5>2 DEF Before
          <5>4. x = n
            <6>1. PICK i \in DOMAIN graph : graph[i] = x
              BY DEF ToSet
            <6>2. PICK j \in DOMAIN graph : graph[j] = n
              BY DEF ToSet
            <6>3. i = j
              BY <1>1, <5>3, <6>1, <6>2 DEF IInv, WellMade, IsInjective, Ids
            <6> QED BY <6>1, <6>2, <6>3
          <5> QED BY <5>1, <5>3, <5>4
        <4> QED BY <4>1 DEF HasCycle
      <3>4. "cycle" \notin GraphIssues(Orders(goal), graph)
        BY <3>3 DEF GraphIssues
      <3>5. GraphIssues(Orders(goal), graph) \subseteq {"order", "empty", "cycle"}
        BY DEF GraphIssues
      <3> QED BY <3>2, <3>4, <3>5
    <2>3. \A x \in ToSet(store) :
            /\ ReferenceIssues(Reference(Orders(goal), graph, x), graph) \subseteq {"empty"}
            /\ PlanningScore(Orders(goal), graph, x) \in 0..100
      <3> TAKE x \in ToSet(store)
      <3>1. x \in Experience
        BY <1>1 DEF IInv, ToSet
      <3>2. WellMade(graph)
        BY <1>1 DEF IInv
      <3> QED BY <3>1, <3>2, ReferenceAccepted, ScoreAccepted
    <2> QED BY <2>1, <2>2, <2>3 DEF AdviceAccepted
  <1> QED
    BY <1>1, HorizonInvariance, PTL

-----------------------------------------------------------------------------
(* Failures: what is remembered of them, predicted and matched.            *)
(* The failures that reflection concludes, and those of patterns stored.   *)
Failures ==
  {"EXECUTION_FAILED", "WORLD_MISMATCH", "KNOWLEDGE_ERROR", "LOW_CONFIDENCE",
   "OBSERVATION_FAILED", Success}

FailurePatterns ==
  [failure : STRING \cup Failures, tasks : SUBSET STRING, success : 0..100, confidence : 0..100]

\* Whatever is concluded from an execution has a percentage.
LEMMA ReflectionIsTyped ==
  ASSUME NEW result, NEW success, NEW world \in 0..NoWorld
  PROVE  LET r == Reflection(result, [Agreement EXCEPT !.success = success], world)
         IN  r.confidence \in 0..100 /\ r.failure \in Failures
  <1> DEFINE f == [Agreement EXCEPT !.success = success]
             c == ReflectConfidence(result, f, world)
  <1>1. f.saw = "expected" /\ f.success = success
    BY DEF Agreement
  <1>2. c \in 0..100
    <2>1. CASE world # NoWorld
      <3>1. c = world
        BY <2>1 DEF ReflectConfidence
      <3> QED BY <2>1, <3>1 DEF NoWorld
    <2>2. CASE world = NoWorld /\ result = "COMPLETED"
      <3>1. c = IF f.success THEN 100 ELSE 40
        BY <2>2 DEF ReflectConfidence
      <3> QED BY <3>1
    <2>3. CASE world = NoWorld /\ result # "COMPLETED"
      <3>1. c = 0
        BY <2>3 DEF ReflectConfidence
      <3> QED BY <3>1
    <2> QED BY <2>1, <2>2, <2>3
  <1>3. FailureOf(result, f, world) \in Failures
    <2> HIDE DEF c
    <2>1. FailureOf(result, f, world) =
            IF result \in {"FAILED", "BLOCKED"} THEN "EXECUTION_FAILED"
            ELSE IF c < MinConfidence THEN "LOW_CONFIDENCE"
            ELSE IF f.success THEN "none" ELSE "OBSERVATION_FAILED"
      BY <1>1 DEF FailureOf, Success, c
    <2> QED BY <2>1 DEF Failures, Success
  <1> QED
    BY <1>2, <1>3 DEF Reflection

\* FailureExtractor: the pattern of a task alone, which thinks nothing of it.
LEMMA PatternIsTyped ==
  ASSUME NEW r, r.confidence \in 0..100, r.failure \in Failures, NEW t \in TaskName
  PROVE  LET p == Pattern(r, {}, t)
         IN  p \in FailurePatterns /\ p.tasks = {t} /\ p.success = 0
  <1>1. Affected({}, t) = {t} /\ t \in STRING
    BY DEF Affected, TaskName, None
  <1> QED
    BY <1>1 DEF Pattern, FailurePatterns

\* What a pattern gives is a percentage,
LEMMA BaseIsPercentage ==
  ASSUME NEW p \in FailurePatterns PROVE Base(p) \in 0..100
  <1>1. p.success \in 0..100
    BY DEF FailurePatterns
  <1> QED BY <1>1 DEF Base

\* and so is the worst that patterns give for a task, which is that of one of them.
LEMMA WorstOfRates ==
  ASSUME NEW ps, NEW t, NEW i \in Naming(ps, t), Base(ps[i]) = 50,
         \A j \in Naming(ps, t) : Base(ps[j]) \in 0..100
  PROVE  Probability(ps, t) \in 50..100
  <1> DEFINE S == {0} \cup {Base(ps[j]) : j \in Naming(ps, t)}
  <1>1. Probability(ps, t) = Max(S)
    BY DEF Probability
  <1>2. S \in SUBSET (0..100) /\ 50 \in S
    OBVIOUS
  <1> HIDE DEF S
  <1>3. S # {} /\ 100 \in Nat
    BY <1>2
  <1>4. Max(S) \in S /\ \A x \in S : x <= Max(S)
    BY <1>2, <1>3, GreatestOfBounded, Zenon
  <1>5. Max(S) \in 0..100 /\ 50 <= Max(S)
    BY <1>2, <1>4, Zenon
  <1>6. Max(S) \in 50..100
    BY <1>5
  <1> QED
    BY <1>1, <1>6

\* FailurePredictor.predict: a pattern without success makes its tasks probable to fail,
\* whatever others say of them.
LEMMA FailureIsProbable ==
  ASSUME NEW ps \in Seq(FailurePatterns), NEW i \in DOMAIN ps, NEW t, t \in ps[i].tasks,
         ps[i].success = 0
  PROVE  Probability(ps, t) \in 50..100
  <1>1. i \in Naming(ps, t) /\ Base(ps[i]) = 50
    BY DEF Naming, Base
  <1>2. \A j \in Naming(ps, t) : ps[j] \in FailurePatterns
    BY DEF Naming
  <1>3. \A j \in Naming(ps, t) : Base(ps[j]) \in 0..100
    BY <1>2, BaseIsPercentage
  <1> QED
    BY <1>1, <1>3, WorstOfRates, Zenon

\* build_prevention_reference: then it is advised against or given a recovery point.
LEMMA ProbableIsWarnedOf ==
  ASSUME NEW ps, NEW tasks, NEW t \in tasks, Probability(ps, t) \in 50..100
  PROVE  t \in Prevention(ps, tasks).avoid \cup Prevention(ps, tasks).recovery
  BY DEF Prevention

\* Of scores in a list one is the first of the best.
LEMMA BestExists ==
  ASSUME NEW n \in Nat, n # 0, NEW score \in [1..n -> Int]
  PROVE  \E i \in 1..n : \A j \in 1..n : score[i] > score[j] \/ (score[i] = score[j] /\ i <= j)
  <1> DEFINE Best(i, m) == \A j \in 1..m : score[i] > score[j] \/ (score[i] = score[j] /\ i <= j)
             T == {m \in Nat : m < n => \E i \in 1..(m + 1) : Best(i, m + 1)}
  <1>1. 0 \in T
    <2>1. Best(1, 1)
      OBVIOUS
    <2> QED BY <2>1
  <1>2. ASSUME NEW m \in T PROVE m + 1 \in T
    <2> SUFFICES ASSUME m + 1 < n PROVE \E i \in 1..(m + 2) : Best(i, m + 2)
      OBVIOUS
    <2>1. PICK i \in 1..(m + 1) : Best(i, m + 1)
      OBVIOUS
    <2>2. /\ m + 2 \in 1..n /\ \A j \in 1..(m + 2) : j \in 1..(m + 1) \/ j = m + 2
          /\ \A j \in 1..(m + 1) : j \in 1..n /\ j <= m + 2
      OBVIOUS
    <2>3. \A j \in 1..n : score[j] \in Int
      OBVIOUS
    <2>4. CASE score[m + 2] > score[i]
      <3>1. \A j \in 1..(m + 1) : score[m + 2] > score[j]
        BY <2>1, <2>2, <2>3, <2>4
      <3>2. Best(m + 2, m + 2)
        BY <2>2, <2>3, <3>1
      <3> QED BY <3>2
    <2>5. CASE ~(score[m + 2] > score[i])
      <3>1. score[i] > score[m + 2] \/ (score[i] = score[m + 2] /\ i <= m + 2)
        BY <2>2, <2>3, <2>5
      <3>2. Best(i, m + 2)
        BY <2>1, <2>2, <3>1
      <3> QED BY <3>2
    <2> QED BY <2>4, <2>5
  <1>3. T = Nat
    <2>1. T \in SUBSET Nat
      OBVIOUS
    <2> HIDE DEF T
    <2> QED BY <1>1, <1>2, <2>1, SetInduction
  <1>4. n - 1 \in T /\ n - 1 < n /\ (n - 1) + 1 = n
    <2> HIDE DEF T
    <2> QED BY <1>3
  <1> QED
    BY <1>4

\* The share of a graph that a pattern names: nothing, or that of one task.
LEMMA OverlapOfOne ==
  ASSUME NEW n \in Nat \ {0}, NEW m \in {0, 1}
  PROVE  (30 * m) \div n \in Nat /\ (30 * m) \div n <= 30 \div n
  <1> DEFINE q == 30 \div n
  <1>1. q \in Int /\ n * q <= 30 /\ 30 < n * (q + 1)
    OBVIOUS
  <1>2. 0 \div n = 0
    <2> DEFINE z == 0 \div n
    <2>1. z \in Int /\ n * z <= 0 /\ 0 < n * (z + 1)
      OBVIOUS
    <2> HIDE DEF z
    <2>2. CASE z >= 1
      <3>1. n * 1 <= n * z
        BY <2>1, <2>2
      <3> QED BY <2>1, <3>1
    <2>3. CASE z <= -1
      <3>1. n * (z + 1) <= n * 0
        BY <2>1, <2>3
      <3> QED BY <2>1, <3>1
    <2> QED BY <2>1, <2>2, <2>3 DEF z
  <1>3. q >= 0
    <2> HIDE DEF q
    <2> SUFFICES ASSUME q <= -1 PROVE FALSE
      BY <1>1
    <2>1. n * (q + 1) <= n * 0
      BY <1>1
    <2> QED BY <1>1, <2>1
  <1>4. 30 * 0 = 0 /\ 30 * 1 = 30
    OBVIOUS
  <1> HIDE DEF q
  <1>5. CASE m = 0
    BY <1>1, <1>2, <1>3, <1>4, <1>5 DEF q
  <1>6. CASE m = 1
    BY <1>1, <1>3, <1>4, <1>6 DEF q
  <1> QED
    BY <1>5, <1>6

\* Confidence adds at most a fifth, and all of it only when it is complete.
LEMMA ConfidenceAdds ==
  ASSUME NEW c \in 0..99
  PROVE  (20 * c) \div 100 \in 0..19
  <1> DEFINE q == (20 * c) \div 100
  <1>1. q \in Int /\ 100 * q <= 20 * c /\ 20 * c < 100 * (q + 1)
    OBVIOUS
  <1> HIDE DEF q
  <1>2. q \in 0..19
    BY <1>1
  <1> QED
    BY <1>2 DEF q

\* A pattern that is comparable scores for its tasks, its failure and its confidence,
LEMMA ScoreOfPattern ==
  ASSUME NEW T, IsFiniteSet(T), T # {}, NEW p \in FailurePatterns, p.confidence < 100,
         Cardinality(T \cap p.tasks) <= 1, NEW h \in {0, 1}, NEW failure
  PROVE  \E m \in {0, 1}, c \in 0..19 :
           /\ m = Cardinality(T \cap p.tasks)
           /\ PatternScore(p, h, T, failure)
                = 10 * h + ((30 * m) \div Cardinality(T)) + (IF failure = p.failure THEN 20 ELSE 0) + c
  <1> DEFINE m == Cardinality(T \cap p.tasks)
             c == (20 * p.confidence) \div 100
  <1>1. m \in {0, 1}
    <2>1. IsFiniteSet(T \cap p.tasks)
      BY FS_Intersection
    <2>2. m \in Nat
      BY <2>1, FS_CardinalityType
    <2> QED BY <2>2
  <1>2. p.confidence \in 0..99
    BY DEF FailurePatterns
  <1>3. c \in 0..19
    BY <1>2, ConfidenceAdds
  <1>4. PatternScore(p, h, T, failure)
          = 10 * h + ((30 * m) \div Cardinality(T)) + (IF failure = p.failure THEN 20 ELSE 0) + c
    BY DEF PatternScore
  <1> QED
    BY <1>1, <1>3, <1>4

\* so the score is a number,
LEMMA ScoreIsInteger ==
  ASSUME NEW T, IsFiniteSet(T), T # {}, NEW p \in FailurePatterns, p.confidence < 100,
         Cardinality(T \cap p.tasks) <= 1, NEW h \in {0, 1}, NEW failure
  PROVE  PatternScore(p, h, T, failure) \in Int
  <1> DEFINE n == Cardinality(T)
  <1>1. PICK m \in {0, 1}, c \in 0..19 :
          /\ m = Cardinality(T \cap p.tasks)
          /\ PatternScore(p, h, T, failure)
               = 10 * h + ((30 * m) \div n) + (IF failure = p.failure THEN 20 ELSE 0) + c
    BY ScoreOfPattern
  <1>2. n \in Nat \ {0}
    BY FS_CardinalityType, FS_EmptySet
  <1> DEFINE q == (30 * m) \div n
  <1>3. q \in Nat
    <2> HIDE DEF n
    <2> QED BY <1>2, OverlapOfOne
  <1>4. PatternScore(p, h, T, failure) = 10 * h + q + (IF failure = p.failure THEN 20 ELSE 0) + c
    BY <1>1
  <1> HIDE DEF q
  <1> QED
    BY <1>3, <1>4

\* which no other of another failure reaches that one scores that is of the task and
\* failed the same way.
LEMMA SameOutweighs ==
  ASSUME NEW T, IsFiniteSet(T), NEW t \in T,
         NEW p \in FailurePatterns, p.confidence < 100, p.tasks = {t},
         NEW o \in FailurePatterns, o.confidence < 100, Cardinality(T \cap o.tasks) <= 1,
         o.failure # p.failure
  PROVE  /\ PatternScore(o, Hits(o, t), T, p.failure) \in Int
         /\ PatternScore(p, Hits(p, t), T, p.failure) \in Int
         /\ PatternScore(o, Hits(o, t), T, p.failure) < PatternScore(p, Hits(p, t), T, p.failure)
  <1> DEFINE n == Cardinality(T)
  <1>1. n \in Nat \ {0}
    BY FS_CardinalityType, FS_EmptySet
  <1>2. Cardinality(T \cap p.tasks) = 1
    <2>1. T \cap p.tasks = {t}
      OBVIOUS
    <2> QED BY <2>1, FS_Singleton
  <1>3. Hits(p, t) = 1 /\ Hits(o, t) \in {0, 1}
    BY DEF Hits
  <1>4. PICK c \in 0..19 : PatternScore(p, Hits(p, t), T, p.failure) = 10 + ((30 * 1) \div n) + 20 + c
    <2>1. Cardinality(T \cap p.tasks) <= 1 /\ T # {}
      BY <1>2
    <2>2. PICK m \in {0, 1}, c \in 0..19 :
            /\ m = Cardinality(T \cap p.tasks)
            /\ PatternScore(p, Hits(p, t), T, p.failure)
                 = 10 * Hits(p, t) + ((30 * m) \div n) + (IF p.failure = p.failure THEN 20 ELSE 0) + c
      BY <1>3, <2>1, ScoreOfPattern
    <2> QED BY <1>2, <1>3, <2>2
  <1>5. PICK m \in {0, 1}, d \in 0..19 :
          PatternScore(o, Hits(o, t), T, p.failure) = 10 * Hits(o, t) + ((30 * m) \div n) + 0 + d
    <2>1. T # {}
      OBVIOUS
    <2>2. PICK m \in {0, 1}, d \in 0..19 :
            /\ m = Cardinality(T \cap o.tasks)
            /\ PatternScore(o, Hits(o, t), T, p.failure)
                 = 10 * Hits(o, t) + ((30 * m) \div n) + (IF p.failure = o.failure THEN 20 ELSE 0) + d
      BY <1>3, <2>1, ScoreOfPattern
    <2> QED BY <2>2
  <1> DEFINE a == (30 * m) \div n
             b == (30 * 1) \div n
             e == 30 \div n
  <1>6. a \in Nat /\ a <= e /\ b = e
    BY <1>1, OverlapOfOne
  <1>7. e \in Int
    BY <1>1
  <1> DEFINE x == PatternScore(o, Hits(o, t), T, p.failure)
             y == PatternScore(p, Hits(p, t), T, p.failure)
             h == Hits(o, t)
  <1>8. x = 10 * h + a + 0 + d /\ y = 10 + b + 20 + c /\ h \in {0, 1}
    BY <1>3, <1>4, <1>5
  <1> HIDE DEF a, b, e, x, y, h
  <1>9. x \in Int /\ y \in Int /\ x < y
    BY <1>6, <1>7, <1>8
  <1> QED
    BY <1>9 DEF x, y

\* FailurePatternMatcher: a pattern is matched, and none scores more than it does.
LEMMA BestIsBest ==
  ASSUME NEW ps \in Seq(FailurePatterns), ps # <<>>, NEW hits, NEW T, NEW failure,
         \A k \in DOMAIN ps : PatternScore(ps[k], hits[k], T, failure) \in Int
  PROVE  /\ BestPattern(ps, hits, T, failure) \in DOMAIN ps
         /\ \A k \in DOMAIN ps :
              LET b == BestPattern(ps, hits, T, failure)
              IN  ~(PatternScore(ps[b], hits[b], T, failure) < PatternScore(ps[k], hits[k], T, failure))
  <1> DEFINE n == Len(ps)
             score == [k \in 1..n |-> PatternScore(ps[k], hits[k], T, failure)]
             First(i) == \A j \in DOMAIN ps :
                           LET a == PatternScore(ps[i], hits[i], T, failure)
                               b == PatternScore(ps[j], hits[j], T, failure)
                           IN  a > b \/ (a = b /\ i <= j)
             best == BestPattern(ps, hits, T, failure)
  <1>1. n \in Nat /\ n # 0 /\ DOMAIN ps = 1..n
    OBVIOUS
  <1>2. score \in [1..n -> Int]
    BY <1>1
  <1>3. \E i \in 1..n : \A j \in 1..n : score[i] > score[j] \/ (score[i] = score[j] /\ i <= j)
    <2> HIDE DEF score, n
    <2> QED BY <1>1, <1>2, BestExists
  <1>4. \E i \in DOMAIN ps : First(i)
    BY <1>1, <1>3
  <1>5. best = CHOOSE i \in DOMAIN ps : First(i)
    BY DEF BestPattern
  <1>6. best \in DOMAIN ps /\ First(best)
    <2> HIDE DEF First, best
    <2> QED BY <1>4, <1>5
  <1>7. ASSUME NEW k \in DOMAIN ps
        PROVE  ~(PatternScore(ps[best], hits[best], T, failure) < PatternScore(ps[k], hits[k], T, failure))
    <2> DEFINE a == PatternScore(ps[best], hits[best], T, failure)
               b == PatternScore(ps[k], hits[k], T, failure)
    <2>1. (a > b \/ (a = b /\ best <= k)) /\ a \in Int /\ b \in Int
      BY <1>6
    <2> HIDE DEF a, b
    <2>2. ~(a < b)
      BY <2>1
    <2> QED BY <2>2 DEF a, b
  <1> QED
    BY <1>6, <1>7

\* A pattern of a failure; patterns that are comparable for the tasks of a graph.
OfFailure(ps, b, failure) == b \in DOMAIN ps /\ ps[b].failure = failure

ComparableFor(ps, T) ==
  \A p \in ToSet(ps) : p.confidence < 100 /\ Cardinality(T \cap p.tasks) <= 1

\* The pattern matched to a task that failed is one of the failure it failed with.
LEMMA MatchedIsOfFailure ==
  ASSUME NEW ps \in Seq(FailurePatterns), NEW T, IsFiniteSet(T), NEW t \in T,
         NEW i \in DOMAIN ps, ps[i].tasks = {t},
         ComparableFor(ps, T)
  PROVE  OfFailure(ps, BestPattern(ps, [k \in DOMAIN ps |-> Hits(ps[k], t)], T, ps[i].failure),
                   ps[i].failure)
  <1> DEFINE hits == [k \in DOMAIN ps |-> Hits(ps[k], t)]
             f == ps[i].failure
             b == BestPattern(ps, hits, T, f)
  <1>1. \A k \in DOMAIN ps : ps[k] \in FailurePatterns /\ ps[k] \in ToSet(ps)
    BY DEF ToSet
  <1>2. \A k \in DOMAIN ps : ps[k].confidence < 100 /\ Cardinality(T \cap ps[k].tasks) <= 1
    BY <1>1 DEF ComparableFor
  <1>3. \A k \in DOMAIN ps : hits[k] = Hits(ps[k], t) /\ hits[k] \in {0, 1}
    BY DEF Hits
  <1>4. ASSUME NEW k \in DOMAIN ps PROVE PatternScore(ps[k], hits[k], T, f) \in Int
    <2>1. /\ ps[k] \in FailurePatterns /\ ps[k].confidence < 100
          /\ Cardinality(T \cap ps[k].tasks) <= 1 /\ T # {} /\ hits[k] \in {0, 1}
      BY <1>1, <1>2, <1>3
    <2> HIDE DEF hits, f
    <2> QED BY <2>1, ScoreIsInteger, Zenon
  <1>5. b \in DOMAIN ps /\ ~(PatternScore(ps[b], hits[b], T, f) < PatternScore(ps[i], hits[i], T, f))
    <2>1. ps # <<>>
      OBVIOUS
    <2> HIDE DEF hits, f
    <2> QED BY <1>4, <2>1, BestIsBest
  <1>6. ps[b].failure = f
    <2> HIDE DEF b
    <2> SUFFICES ASSUME ps[b].failure # f PROVE FALSE
      OBVIOUS
    <2>1. ps[b] \in FailurePatterns /\ ps[b].confidence < 100 /\ Cardinality(T \cap ps[b].tasks) <= 1
      BY <1>1, <1>2, <1>5
    <2>2. PatternScore(ps[b], Hits(ps[b], t), T, f) < PatternScore(ps[i], Hits(ps[i], t), T, f)
      BY <1>1, <1>2, <2>1, SameOutweighs
    <2>3. hits[b] = Hits(ps[b], t) /\ hits[i] = Hits(ps[i], t)
      BY <1>3, <1>5
    <2> HIDE DEF hits, f
    <2> QED BY <1>5, <2>2, <2>3
  <1> QED
    BY <1>5, <1>6 DEF OfFailure

-----------------------------------------------------------------------------
(* Every failure of the session is remembered: the patterns extracted have *)
(* one of the task alone, and the memory counts as many as the progress.   *)
Known(ps, t) == \E i \in DOMAIN ps : ps[i].tasks = {t} /\ ps[i].success = 0

WInv ==
  /\ IInv
  /\ patterns \in Seq(FailurePatterns)
  /\ \A t \in ToSet(progress.failed) : Known(patterns, t)
  /\ memory.retries \in Nat /\ progress.retries <= memory.retries

\* What is known stays known when a pattern is added, which is known as well.
LEMMA KnownStays ==
  ASSUME NEW ps \in Seq(FailurePatterns), NEW p \in FailurePatterns
  PROVE  /\ Append(ps, p) \in Seq(FailurePatterns)
         /\ \A t : Known(ps, t) => Known(Append(ps, p), t)
         /\ \A t : p.tasks = {t} /\ p.success = 0 => Known(Append(ps, p), t)
  <1>1. Append(ps, p) \in Seq(FailurePatterns)
    OBVIOUS
  <1>2. /\ \A i \in DOMAIN ps : i \in DOMAIN Append(ps, p) /\ Append(ps, p)[i] = ps[i]
        /\ Len(ps) + 1 \in DOMAIN Append(ps, p) /\ Append(ps, p)[Len(ps) + 1] = p
    OBVIOUS
  <1>3. ASSUME NEW t, Known(ps, t) PROVE Known(Append(ps, p), t)
    BY <1>2, <1>3 DEF Known
  <1>4. ASSUME NEW t, p.tasks = {t}, p.success = 0 PROVE Known(Append(ps, p), t)
    BY <1>2, <1>4 DEF Known
  <1> QED
    BY <1>1, <1>3, <1>4

\* Nothing of a task has failed when it is begun,
LEMMA NewHasNoFailure ==
  ASSUME NEW g
  PROVE  ToSet(NewProgress(g).failed) = {} /\ NewProgress(g).retries = 0
  BY DEF NewProgress, ToSet

FewerFailed(p, q) == ToSet(q.failed) \subseteq ToSet(p.failed) /\ q.retries = p.retries

AlsoFailed(p, q, t) ==
  ToSet(q.failed) \subseteq ToSet(p.failed) \cup {t} /\ q.retries = p.retries + 1

\* a task completed has not failed any more, one that fails is counted.
LEMMA FailuresOfMarks ==
  ASSUME NEW g, NEW p \in Progress, ListsOf(p), NEW t \in TaskName
  PROVE  FewerFailed(p, MarkCompleted(g, p, t)) /\ AlsoFailed(p, MarkFailed(g, p, t), t)
  <1>1. p.failed \in Seq(TaskName) /\ IsInjective(p.failed)
    BY DEF Progress, ListsOf
  <1>2. /\ MarkCompleted(g, p, t).failed = RemoveFirst(p.failed, t)
        /\ MarkCompleted(g, p, t).retries = p.retries
    BY DEF MarkCompleted, Progress
  <1>3. /\ MarkFailed(g, p, t).failed = AddOnce(p.failed, t)
        /\ MarkFailed(g, p, t).retries = p.retries + 1
    BY DEF MarkFailed, Progress
  <1>4. ToSet(RemoveFirst(p.failed, t)) = ToSet(p.failed) \ {t}
    BY <1>1, RemoveFirstRemoves
  <1>5. ToSet(AddOnce(p.failed, t)) = ToSet(p.failed) \cup {t}
    BY <1>1, AddOnceAdds
  <1> QED
    BY <1>2, <1>3, <1>4, <1>5 DEF FewerFailed, AlsoFailed

\* A session begins with nothing but the patterns stored.
LEMMA WarnInit == Init => WInv
  <1> SUFFICES ASSUME Init PROVE WInv
    OBVIOUS
  <1>1. IInv
    BY HorizonInit
  <1>2. patterns \in Stored /\ progress = NewProgress(<<>>) /\ memory = NoMemory
    BY DEF Init
  <1>3. \A q \in Stored : q \in Seq(FailurePatterns)
    <2> DEFINE R == [failure : STRING, tasks : SUBSET STRING, success : 0..100, confidence : 0..100]
    <2>1. \A q \in Stored : q \in Seq(R)
      BY FailuresTyped
    <2>2. R \subseteq FailurePatterns
      BY DEF FailurePatterns
    <2> HIDE DEF R
    <2>3. Seq(R) \subseteq Seq(FailurePatterns)
      BY <2>2
    <2> QED BY <2>1, <2>3
  <1>4. memory.retries = 0
    BY <1>2 DEF NoMemory
  <1>5. ToSet(progress.failed) = {} /\ progress.retries = 0
    BY <1>2, NewHasNoFailure
  <1> QED
    BY <1>1, <1>2, <1>3, <1>4, <1>5 DEF WInv

\* Reflection: a failure is counted, and either nothing follows, or its pattern
\* is extracted with it.
LEMMA ReflectRemembers == ASSUME WInv, IInv', Reflect PROVE WInv'
  <1>1. /\ progress \in Progress /\ ListsOf(progress) /\ Ready(graph, progress, task)
        /\ progress.retries \in Nat
    BY DEF WInv, IInv, InHand, Reflect, ProgressOf, Progress
  <1>2. task \in TaskName
    BY <1>1 DEF Ready, Progress, ToSet
  <1>3. PICK world \in Worlds :
          LET last     == Last(records)
              feedback == [Agreement EXCEPT !.success = ~last.observed \/ last.result = "COMPLETED"]
              r        == Reflection(last.result, feedback, world)
          IN  /\ memory' = Remember(memory, r)
              /\ \/ /\ ~ReplanRequired(r)
                    /\ progress' = MarkCompleted(graph, progress, task)
                    /\ UNCHANGED <<patterns, recovery>>
                 \/ /\ ReplanRequired(r)
                    /\ progress' = MarkFailed(graph, progress, task)
                    /\ recovery' = RecoveryAction(r.failure)
                    /\ patterns' = Append(patterns, Pattern(r, {}, task))
                 \/ /\ Len(memory'.history) <= MaxFailures
                    /\ UNCHANGED <<progress, patterns, recovery>>
    BY DEF Reflect
  <1> DEFINE last     == Last(records)
             feedback == [Agreement EXCEPT !.success = ~last.observed \/ last.result = "COMPLETED"]
             r        == Reflection(last.result, feedback, world)
             p        == Pattern(r, {}, task)
  <1>4. world \in 0..NoWorld
    BY FailuresTyped
  <1>5. r.confidence \in 0..100 /\ r.failure \in Failures
    BY <1>4, ReflectionIsTyped
  <1>6. /\ memory' = Remember(memory, r)
        /\ \/ ~ReplanRequired(r) /\ progress' = MarkCompleted(graph, progress, task) /\ patterns' = patterns
           \/ ReplanRequired(r) /\ progress' = MarkFailed(graph, progress, task)
              /\ patterns' = Append(patterns, p)
           \/ progress' = progress /\ patterns' = patterns
    BY <1>3
  <1> HIDE DEF r
  <1>7. p \in FailurePatterns /\ p.tasks = {task} /\ p.success = 0
    BY <1>2, <1>5, PatternIsTyped
  <1> HIDE DEF p
  <1>8. /\ memory'.retries = IF ReplanRequired(r) THEN memory.retries + 1 ELSE memory.retries
        /\ memory.retries \in Nat /\ progress.retries <= memory.retries
    BY <1>6 DEF Remember, ReplanRequired, WInv
  <1>9. patterns \in Seq(FailurePatterns) /\ \A t \in ToSet(progress.failed) : Known(patterns, t)
    BY DEF WInv
  <1> DEFINE c == MarkCompleted(graph, progress, task)
             d == MarkFailed(graph, progress, task)
  <1>10. FewerFailed(progress, c) /\ AlsoFailed(progress, d, task)
    BY <1>1, <1>2, FailuresOfMarks, Zenon
  <1> HIDE DEF c, d
  <1>11. \/ /\ progress'.retries = progress.retries
            /\ ToSet(progress'.failed) \subseteq ToSet(progress.failed)
            /\ patterns' = patterns
         \/ /\ ReplanRequired(r) /\ progress'.retries = progress.retries + 1
            /\ ToSet(progress'.failed) \subseteq ToSet(progress.failed) \cup {task}
            /\ patterns' = Append(patterns, p)
    <2>1. CASE progress' = c /\ patterns' = patterns
      BY <1>10, <2>1 DEF FewerFailed
    <2>2. CASE ReplanRequired(r) /\ progress' = d /\ patterns' = Append(patterns, p)
      BY <1>10, <2>2 DEF AlsoFailed
    <2>3. CASE progress' = progress /\ patterns' = patterns
      BY <2>3
    <2> QED BY <1>6, <2>1, <2>2, <2>3 DEF c, d
  <1> DEFINE m == memory.retries
             n == memory'.retries
             x == progress.retries
             y == progress'.retries
  <1>12. m \in Nat /\ x \in Nat /\ x <= m
    BY <1>1, <1>8
  <1>13. n = m \/ (ReplanRequired(r) /\ n = m + 1)
    BY <1>8
  <1>14. ReplanRequired(r) => n = m + 1
    BY <1>8
  <1>15. y = x \/ (ReplanRequired(r) /\ y = x + 1)
    BY <1>11
  <1>16. n \in Nat /\ y <= n
    <2> HIDE DEF m, n, x, y
    <2> QED BY <1>12, <1>13, <1>14, <1>15
  <1>17. patterns' \in Seq(FailurePatterns) /\ \A t \in ToSet(progress'.failed) : Known(patterns', t)
    <2>1. CASE patterns' = patterns /\ ToSet(progress'.failed) \subseteq ToSet(progress.failed)
      BY <1>9, <2>1
    <2>2. CASE patterns' = Append(patterns, p) /\ ToSet(progress'.failed) \subseteq ToSet(progress.failed) \cup {task}
      BY <1>7, <1>9, <2>2, KnownStays
    <2> QED BY <1>11, <2>1, <2>2
  <1> QED
    BY <1>16, <1>17 DEF WInv

\* Every other step leaves memory and patterns as they are, and begins a progress
\* anew if it changes it.
LEMMA OthersRemember ==
  ASSUME WInv, IInv', UNCHANGED <<memory, patterns>>,
         progress' = progress \/ \E g : progress' = NewProgress(g)
  PROVE  WInv'
  <1>1. CASE progress' = progress
    BY <1>1 DEF WInv
  <1>2. CASE \E g : progress' = NewProgress(g)
    <2>1. ToSet(progress'.failed) = {} /\ progress'.retries = 0
      BY <1>2, NewHasNoFailure
    <2> QED BY <2>1 DEF WInv
  <1> QED
    BY <1>1, <1>2

\* So the invariant holds of every session.
THEOREM FailuresAreKnown == Spec => []WInv
  <1>1. ASSUME WInv, IInv', [Next]_vars PROVE WInv'
    <2>1. CASE Reflect
      BY <1>1, <2>1, ReflectRemembers
    <2>2. CASE TakeGoal \/ Optimize
      <3>1. UNCHANGED <<memory, patterns>> /\ progress' = NewProgress(graph')
        BY <2>2 DEF TakeGoal, Optimize, learnVars
      <3> QED BY <1>1, <3>1, OthersRemember
    <2>3. CASE Learn \/ ScheduleGoals \/ StartTask \/ RunStep \/ NothingToReflect \/ UNCHANGED vars
      <3>1. UNCHANGED <<memory, patterns, progress>>
        BY <2>3 DEF Learn, ScheduleGoals, StartTask, RunStep, NothingToReflect, vars, learnVars
      <3> QED BY <1>1, <3>1, OthersRemember
    <2> QED BY <1>1, <2>1, <2>2, <2>3 DEF Next
  <1> QED
    BY <1>1, WarnInit, HorizonInvariance, PTL DEF Spec

(* Whatever has failed in the session is warned of, the pattern matched to *)
(* it failed the same way, and as many failures are remembered as counted: *)
(* failure_intelligence/.                                                  *)
THEOREM FailuresAreWarnedOf == Spec => []FailuresWarned
  <1>1. ASSUME WInv PROVE FailuresWarned
    <2> DEFINE T == ToSet(Ids(graph))
    <2>1. patterns \in Seq(FailurePatterns) /\ progress.retries <= memory.retries
      BY <1>1 DEF WInv
    <2>2. IsFiniteSet(T) /\ ToSet(progress.failed) \subseteq T
      <3>1. graph \in Seq(TaskNodes) /\ ProgressOf(graph, progress)
        BY <1>1 DEF WInv, IInv, WellMade
      <3>2. Ids(graph) \in Seq(TaskName)
        <4>1. \A n \in TaskNodes : n.task \in TaskName
          BY DEF TaskNodes
        <4>2. Len(graph) \in Nat /\ \A i \in 1..Len(graph) : graph[i].task \in TaskName
          BY <3>1, <4>1
        <4> QED BY <3>1, <4>2 DEF Ids
      <3>3. IsFiniteSet(T)
        BY <3>2, PathIsFinite
      <3> QED BY <3>1, <3>3 DEF ProgressOf, Covers
    <2> HIDE DEF T
    <2> DEFINE reference == Prevention(patterns, T)
    <2>3. ASSUME NEW t \in ToSet(progress.failed) PROVE t \in reference.avoid \cup reference.recovery
      <3>1. PICK i \in DOMAIN patterns : patterns[i].tasks = {t} /\ patterns[i].success = 0
        BY <1>1 DEF WInv, Known
      <3>2. t \in patterns[i].tasks
        BY <3>1
      <3>3. Probability(patterns, t) \in 50..100
        BY <2>1, <3>1, <3>2, FailureIsProbable
      <3> QED BY <2>2, <3>3, ProbableIsWarnedOf
    <2>4. ASSUME NEW t \in ToSet(progress.failed), Comparable
          PROVE  Matched(t) \in DOMAIN patterns /\ patterns[Matched(t)].failure = FailedBy(t)
      <3> DEFINE of == {i \in DOMAIN patterns : patterns[i].tasks = {t}}
                 k == Max(of)
      <3>1. of # {} /\ of \in SUBSET (1..Len(patterns)) /\ Len(patterns) \in Nat
        <4>1. PICK i \in DOMAIN patterns : patterns[i].tasks = {t}
          BY <1>1 DEF WInv, Known
        <4>2. DOMAIN patterns = 1..Len(patterns) /\ Len(patterns) \in Nat
          BY <2>1
        <4> QED BY <4>1, <4>2
      <3>2. k \in of
        <4> HIDE DEF of
        <4> QED BY <3>1, GreatestIsMember
      <3>3. FailedBy(t) = patterns[k].failure
        BY DEF FailedBy
      <3>4. k \in DOMAIN patterns /\ patterns[k].tasks = {t}
        BY <3>2
      <3> HIDE DEF of, k
      <3>5. ComparableFor(patterns, T)
        BY <2>4 DEF Comparable, ComparableFor, T
      <3>6. t \in T /\ IsFiniteSet(T)
        BY <2>2
      <3> DEFINE b == BestPattern(patterns, [j \in DOMAIN patterns |-> Hits(patterns[j], t)], T,
                                  patterns[k].failure)
      <3>7. OfFailure(patterns, b, patterns[k].failure)
        BY <2>1, <3>4, <3>5, <3>6, MatchedIsOfFailure
      <3>8. Matched(t) = b
        BY <3>3 DEF Matched, T
      <3> HIDE DEF b
      <3> QED BY <3>3, <3>7, <3>8 DEF OfFailure
    <2>5. ASSUME NEW t \in ToSet(progress.failed), Comparable,
                 \A p \in {q \in ToSet(patterns) : q.failure = FailedBy(t)} : p.success = 0
          PROVE  RiskLevel(0, patterns[Matched(t)].success) # "LOW"
      <3>1. Matched(t) \in DOMAIN patterns /\ patterns[Matched(t)].failure = FailedBy(t)
        BY <2>4, <2>5
      <3>2. patterns[Matched(t)] \in ToSet(patterns)
        BY <3>1 DEF ToSet
      <3>3. patterns[Matched(t)].success = 0
        BY <2>5, <3>1, <3>2
      <3>4. RiskLevel(0, 0) # "LOW"
        BY DEF RiskLevel
      <3> QED BY <3>3, <3>4
    <2> QED
      BY <2>1, <2>3, <2>4, <2>5 DEF FailuresWarned, T
  <1> QED
    BY <1>1, FailuresAreKnown, PTL
=============================================================================
