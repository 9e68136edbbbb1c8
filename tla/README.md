# A TLA+ model of the Maple companion agent

The repository is a read-only "companion agent": it samples a game window, builds a picture of the
game, plans, asks its user for permission, and hands permitted steps to an executor that (in this
version) only pretends to act. Everything runs in one Python process, on one asyncio loop, with a
FastAPI console. This directory holds TLA+ modules translated from that code, TLC configurations
that check them on small instances, and theorems about them checked by TLAPS.

All source paths below are relative to `src/src/maple_agent/`, those under `scripts/` to `src/`.

## 1. What there is, and what is hard about it

### The parts that keep state over time

| Part | State it keeps | Operations | Whom it touches | What is hard, and what makes it correct |
|---|---|---|---|---|
| Runtime life cycle, `runtime/` | one of seven states, the user's confirmation, the binding of the window | `start`, `start_agent`, `resume`, `pause`, `stop`, `fail`, `reset`, `confirm`, `bind_window`, `mark_window_lost`, `_on_event` | publishes every move on the bus, takes commands from the bus and from the console | A move is made before it is announced, the bus may refuse the announcement, and `start` and `stop` are two moves each. Nothing runs unconfirmed; observers end up with the right state |
| Event bus, `events/` | a heap of (priority, number, event), a counter, subscribers, the dispatcher task | `publish`, `subscribe`, `start`, `stop`, `wait_idle` | called by every part; calls every subscriber | Subscribers that suspend, `stop` in the middle of a dispatch, a full queue, callers of `wait_idle`. Order per priority, and an exact count of unfinished events |
| Sampling worker, `vision/` | its state, the loop task, the latest result of each stage, files on disk | `start`, `stop`, `tick`, `_loop` | calls the capture and OCR providers, publishes on the bus, writes the sessions directory | A tick may fail at any of its stages, a stop falls into a sleep, a clean-up deletes files between their save and their use |
| Providers, `providers/` | CREATED, INITIALIZED, SHUTDOWN | `initialize`, `shutdown`, `_run_call` | called by the worker, started and stopped by the lifespan | Calls in the wrong phase; a call that succeeds but cannot announce it |
| Agent loop, `agent/` | the state of a round, the latest context, plan, quest plan and execution, the active goal | `run_once`, `reset`, `mark_goal_completed` | context builder, goal selector, quest planner, planner, gate, executor, bus | Every stage may raise; results of older rounds survive beside newer ones; a retry loop |
| Goals, `goal/` | the status of every goal | `activate`, `complete`, `save_goal_status`, `select` | the agent loop | Which goal is active and who has been told so |
| Cognitive loop, `agent_loop/` | the last context, its trace and verdict | `run` with nine stages | evaluation, decision, plan, confirmation, sandbox, reflection, benchmark | Blocked and failed runs must leave a verdict that fits what was done |
| Human confirmation, `confirmation/` | requests and permission tokens | `create`, `approve`, `reject`, `expire` | cognitive loop, console, sandbox | A request and its token can disagree; time passes between issue and use |
| Permission sandbox, `executor_sandbox/` | nothing but its last result | `validate`, `execute` | uses the tokens | Only allowed, approved, unexpired actions |
| Web console, `webui/` | the event flow of each connection | lifespan, runtime commands, confirmation endpoints, forwarding of events | starts and stops worker, bus and providers; drives runtime and confirmations | The order of start and stop; a lifespan entered twice |
| Execution orchestration, `execution/` | step records, the state of the run | `run` | task graph, gate, executor | Retry, stop at the first failure, records that agree with the run |
| Task planning, `task_planning/` | the completed, pending and failed tasks of a graph | `decompose`, `mark_completed`, `mark_failed`, `current_task`, `validate`, `plan` (recovery) | goals, execution, experience | Progress never skips a prerequisite, although experience rewrites the graph under it |
| Goal scheduling, `goal_scheduler/` | the last schedule, its conflicts and priorities | `schedule`, `validate` | goals | Dependencies against priorities |
| Goal memory, failures, reflection, `goal_memory/`, `failure_intelligence/`, `reflection/` | stores by id, the memory of retries | `add`, `retrieve`, `reflect`, `record`, `extract`, `match`, `predict` | task planning | New failures against older patterns of better standing |
| Companion session, `companion_runtime/` | observation history, last snapshot and reasoning, session records | `process_observation`, `record`, `session` | temporal memory, knowledge, planning references | What is told must rest on the observation that is the latest, whatever the order of arrival |
| Temporal memory, `game_state/` | the history of observations, the last semantic state and transition | `append`, `reduce` | companion session | Late, repeated and expired observations |
| Environment, preferences, memory graph, `environment*/`, `world_model/`, `human_alignment/`, `memory_graph/`, `memory_association/` | snapshots and timeline, the user's answers, nodes and edges | `observe`, `reason`, `align`, `record`, `consolidate`, `retrieve` | decision references | The state reasoned about is not the newest one; answers outlive their round; limits cut memories off |
| World, navigation, `world_knowledge/`, `spatial_world/`, `navigation/` | the graph a planner built last | `import`, `update`, `plan` | quest reasoning | A way over the world of an earlier question |
| Action verification and recovery, `action_verification/`, `recovery/` | the expectation and the two looks of an action | `expect`, `verify`, `detect`, `plan` | proposals, perception | Either look missing or uncertain; a death in between |
| Safety contracts, `safety_gate/`, `safety_vnext/` | none (policies, budgets and permissions are passed in) | `evaluate` | proposals, verification | Parts of a contract that belong to different actions |
| Windows and capture, `window/`, `real_vision/` | the condition told, the providers found available | `find`, `capture`, `validate`, `reevaluate` | hybrid vision | Whose picture a capture is when windows cover one another, move or close |
| Local and external vision, `hybrid_vision/`, `vision_runtime/` | the previous frame, the time of each call, ephemeral frame files | `detect`, `plan`, `put`, `delete`, `evaluate`, `observe` | sampling, companion session | Stale frames, agreement of two sources, files that outlive their use |

### The parts that compute one result from one input

Knowledge base and knowledge graph; quest reasoning; perception and fusion; context reasoning and
planning references; behaviours and proposals. Nothing interleaves in them, but the parts above
compose them, and what they conclude is stale, ungrounded or contradictory only in composition. They
are modules of operators here, and the composed runs state properties across them. Knowledge
quality, evaluation and the validation reports are left to their tests (section 5).

`PROJECT.json` lists every part with its files and its status.

### How the parts meet

    user ── console ──► RuntimeManager ──► bus ──► console's event flow
                │             ▲             ▲ ▲
                │             └─ commands ──┘ │
                ├──► confirmations ◄── cognitive loop ──► sandbox
                └──► lifespan ──► providers, worker ──────┤
                                   agent loop ────────────┘

    schedule ──► task graph ──► execution ──► reflection ──► failure patterns ──► (task graph)
    evidence, screens, candidates ──► history ──► semantic state ──► context ──► references
    environment ──► opportunities, risk ──► decision reference ──► the user's answer ──► memory graph
    screen + context ──► quests ──► route ──► proposals ──► gates ──► (nobody) ──► verification
    windows ──► capture ──► change ──► OCR, visual model ──► samples ──► readiness ──► safety contract

The first picture is the console's process. The chains of the second are put together by the programs
under `scripts/` (`demo_webui.py` and the vision programs) and by the packages' coordinators; in them
nothing is concurrent within the process, and what is hard is between its steps: time passes, windows
move, observations come late, calls fail, and the results of an earlier round are still there.

Two facts of the code decide how fine a step is in the console's process. No method of the runtime,
of the agent loop, of the worker's `tick` or of the cognitive loop awaits anything: a call holds the
loop until it returns, so nothing can be dispatched in the middle of it. And `publish` is `put_nowait`: on a full
queue it raises, in the middle of whoever called it. So the interleavings are those of whole calls
with bus dispatches, sleeps and time, and the failures are exceptions that cut a call short.

## 2. Modules

| Module | Models | Notes |
|---|---|---|
| `EventLanes` | the queue of the bus as FIFO lanes, one per priority | an abstract data type: operators only |
| `LaneBus` | what the bus promises: one event at a time, the oldest of the highest priority; nothing accepted beyond its room | abstract specification |
| `EventBus` | `events/bus.py` on `asyncio.PriorityQueue` | heap, numbers, unfinished count, suspended subscribers, `stop`, `wait_idle`; implements `LaneBus` |
| `RuntimeLifecycle` | what one whole call does to the life cycle | abstract specification |
| `RuntimeManager` | `runtime/` together with the bus (through `EventLanes`), the console's endpoints and its event flow | implements `RuntimeLifecycle` |
| `VisionWorker` | `vision/worker.py`, provider life cycles, the sessions directory, the lifespan | |
| `AgentLoop` | `agent/loop.py` with goal provider, selector and the bus's free room | |
| `Authorization` | `confirmation/` and `executor_sandbox/` | part of a specification; composed by the next |
| `CognitiveLoop` | `agent_loop/orchestrator.py`, its trace and its validator | EXTENDS `Authorization` |
| `RuntimeProofs`, `EventBusProofs`, `VisionProofs`, `LoopProofs`, `CognitiveProofs` | theorems | each EXTENDS the module it is named after, `LoopProofs` the agent loop; `LoopProofs` has those of `CompanionRuntime` too, and `CognitiveProofs` those of `Advice` |
| `Execution` | `execution/` with `executor/`: one run over the steps of a plan | part of a specification |
| `TaskProgress`, `GoalSchedule`, `FailureLearning` | `task_planning/` with `planning_optimizer/` and the optimizer of `goal_memory/`; `goal_scheduler/`; `reflection/` and `failure_intelligence/` | operators |
| `LongHorizon` | a session of goals as `scripts/demo_webui.py` puts it together | EXTENDS `Execution` and the three before |
| `TemporalState`, `ScreenState`, `Knowledge`, `ContextReference` | `game_state/`; the detection and parsing of screens; the two knowledge graphs and the contract between them; `context_reasoning/` and `planning_reference/` | operators |
| `CompanionRuntime` | `companion_runtime/`: cycle, session, trace, validator | composes the four before |
| `Environment`, `Alignment`, `MemoryGraph` | `environment*/` and `world_model/`; `decision_reference/` and `human_alignment/`; `memory_graph/` and `memory_association/` | operators |
| `Advice` | a companion that looks, reasons, advises, is answered, and remembers | composes the three before |
| `QuestReasoning`, `CompanionContext`, `Navigation`, `Proposals`, `Verification`, `SafetyContracts` | `quest_reasoning/` over `maple_knowledge/`; `perception/`, `maple_context/`, `perception_fusion/`; `world_knowledge/`, `spatial_world/`, `navigation/`; `reflex/`, `behavior/`, `action_proposal/`, `safety_gate/`; `action_verification/`, `recovery/`; `safety_vnext/` | operators |
| `ActionChain` | from a look at the screen to what became of an action | composes the six before |
| `ScreenCapture`, `FrameReading` | window discovery and the capture providers; `hybrid_vision/` and the reading of labels and gauges | operators |
| `LiveVision` | the programs that put the vision to a real client, the semantic gate, the visual model, the readiness | composes the two before |
| `HorizonProofs`, `ChainProofs`, `LiveProofs` | theorems of `LongHorizon`, `ActionChain`, `LiveVision` | |
| `MCHorizon`, `MCCompanion`, `MCAdvice`, `MCActionChain`, `MCLiveVision` | the data of the composed chains for TLC | the other runs take a component's module as it is, with its `MC*.cfg` |

### How state and actions correspond to the code

* **RuntimeManager.** `state`, `confirmed` and `binding` are the manager's fields, `queue` is the
  bus's, `current` and `handlersLeft` are the local variables of `_dispatch`, `shown` is what the
  last state event of the console's flow said. A call of a public method is one action. Its two or
  three assignments are threaded through a record (`Move`, `StartUp`, `ShutDown`) that also carries
  the exception, because `_transition` assigns the state (line 169) before it publishes (line 184):
  after a refused event the first assignment stands and the second move does not happen. `Take`,
  `Deliver` and `Show` are one dispatch; nothing else runs between them. `attach()` has no guard, so
  `attached` counts how often the handler is subscribed.
* **EventBus.** `heap` is the priority queue (a set of tuples with distinct numbers), `item` the
  tuple in the hands of `_run`, `rest` the callbacks of it not yet called. `task` says where the
  dispatcher is: in `get()`, calling a subscriber, suspended inside a coroutine subscriber, or back
  at the top of its loop. Only in the first and third can the loop switch to another task; that is
  the meaning of `HoldsLoop`. Cancellation is two steps: `StopBus` requests it, `EndTask` is the
  exception arriving where the task is suspended, with the `finally` clause of `_run` when that is
  inside a dispatch.
* **VisionWorker.** A tick is one step that says how many of its stages it got through
  (`TickReaches`) and, if not all, that it raised there. `Steps` lists what it does after the capture:
  the results and the up to six files written between them, of which `Due` says when each is written
  (the OCR image without a saved frame, `capture_context.json` for a real window,
  `vision_coordinate.json` with a coordinate mapper, `knowledge_match.json` when the fusion recognized
  a map). `results` says of each stage's `latest_*` field whether it belongs to the latest frame.
  `files` is the sessions directory by age; other components write into it too (`OthersWrite`, counted
  by the history variable `others` from one clean-up to the next). The loop task is in one of two
  sleeps. `NewProcess` is a crash or a restart: memory is lost, files stay.
* **AgentLoop.** `pc` is the stage of `run_once`. Each stage is an action with its ways to fail; the
  `except` clause is `Handler`. `room` is the number of free places on the bus: while the round
  holds the loop it only shrinks. `made` says of the fields that survive a round which round they
  are of.
* **Authorization, CognitiveLoop.** Requests and tokens are sequences, in order of creation. A token
  names its request, action, target and time of expiry. `done` is a history of executions. `ctx` and
  `stages` are the context's fields and the trace the validator sees at the end. A stage that raises
  throws away the context built so far (`run` falls back on the one it began with); that is `Fail`.
* **LongHorizon.** `plan`, `cur` and `done` are the local state of `ExecutionOrchestrator.run`,
  `records` and `run` what it leaves. A step of a plan is one action (`RunStep`) with whatever the
  gate, the executor, its retry and the feedback answer; no step gives the loop away. A record has two
  statuses, the step's and that of the task it carries (`task`), which the code sets in different
  places. Around it:
  `ScheduleGoals` and `TakeGoal` (schedule, decomposition), `Learn` and `Optimize` (the graph that
  the best experience recommends gets a manager of its own), `StartTask`, and `Reflect`, which is
  everything the session does with the last record: conclusion, memory, mark, pattern. Scores are
  computed in hundredths with the code's weights; similarity of texts is equality.
* **CompanionRuntime.** `history` is the list of observations with identifier, time and items;
  everything else is what `process_observation` computed from the whole of it at `clock`. An action
  is one observation through one of the three adapters; the time at which it was made may lie before
  that of the last one, and its identifier may be used again. `TemporalState` keeps the order the
  reducer works in (time, then place in the list), which is where the late and repeated ones bite.
* **Advice.** A round is two looks, `ReasonAbout` one of the last two snapshots, `Decide`, an answer
  or none, `Remember`. `history`, `timeline` and the preferences outlast it. The memory graph is
  rebuilt each time, as the code does it, with its limits on snapshots and on what is retrieved.
* **ActionChain.** `phase` is the place in the chain. `before` and `screen` are the looks before and
  after an action, `edges` the graph the planner holds, `contract` the last contract asked for, so
  what an earlier round or an earlier action left is there to be mistaken for the present one.
  `missed` says which of the two looks the verifier was not given: the one before, the one after, both.
  `doubts` collects what the validators of the parts would complain of.
* **LiveVision.** `program` says which of the three programs runs. A desktop is a set of windows with
  their order, state and content; it is chosen anew at every look, which is what "between two looks"
  means. A frame remembers whose content it shows; no code reads that, only the properties do.
  `samples` is a bag of what was sampled; metrics are computed from it as in `benchmark.py`. The
  semantic gate has no caller but tests, so what it is told is enumerated (`Ask`, `Leave`).

Left out everywhere: message texts, logging, ids, the contents of replay files (but not the failure
to write one, which is an exception in the middle of a call).

## 3. Runs

| Run | Instance | States | What it shows |
|---|---|---|---|
| `runtime` | queue of 3, two lifespans | 871,108 | The gate, the convergence of the console, idempotent handlers, a lost window that pauses, and the refinement of `RuntimeLifecycle`, under every interleaving of requests, commands and dispatches |
| `runtime_full` | queue of 2 | violation | `start()` and `stop()` can leave STARTING or STOPPING behind |
| `event_bus` | room for 2, 4 publications of 2 priorities, 2 subscriptions, 1 suspending subscriber | 367,390 | Exact accounting, honest and returning `wait_idle`, order, and the refinement of `LaneBus` |
| `vision` | 3 places on the bus, 2 images kept, saving on, a real window with a coordinate mapper, 1 file of others between clean-ups | 54,936 | Results in pipeline order, providers up whenever a tick may run, the OCR image present, files bounded, sampling that goes on |
| `vision_files` | saving off, a virtual window without a mapper | violation | OCR images pile up beyond the policy |
| `agent_loop` | 3 goals (2 with quests), 1 retry, 10 places | 850,653 | A settled loop after every failure, coherent results, announced goals, the goals' life cycle, every call ends |
| `cognitive_loop` | 2 requests, 2 actions (1 allowed), 2 targets, tokens of 1 tick in 3 | 1,434,501 | Permission for whatever was executed, decisions made once, verdicts that fit, completed runs that did what was confirmed |
| `long_horizon` | 3 goals, plans of 2 steps, 2 failures, 2 experiences, 1 older pattern | 831,681 | Records that agree with their run and task, prerequisites kept, schedules and recommended orders accepted, failures warned of |
| `companion` | 6 entities, 3 observations, times 0 to 3, delays of 0 and 2 | 153,452 | References grounded in what is seen now; what is not seen again does not come back |
| `advice` | 3 looks, 2 answers, 3 places, room for 2 snapshots and 4 memories | 288,530 | Advice that fits the danger and the user's answers; memories of now |
| `action_chain` | 3 maps in 2 worlds, 5 screens, 2 contexts, 7 contracts, either look or both missed | 634,488 | Routes over the world of now, success only for what is seen, failure and a blocked gate after a death, nothing eligible out of turn |
| `live_vision` | 3 frames and 3 answers in time 0 to 4; sessions of up to 20 samples | 614,952 | Frames of the game, two moments for a confirmation, a readiness that is earned |

### The properties, and why they might fail

* `OnlyConfirmedRuns`: RUNNING is reached through requests, commands, resumption and lost windows
  in any order. `ConsoleConverges`: ERROR reports overtake waiting reports, and refused reports are
  never repeated; the property states exactly when the console is nevertheless right.
  `HandlersIdempotent`: a second lifespan subscribes the handler again. `WindowLossPauses`: the
  event waits while other calls move the agent.
* `Accounting`, `JoinHonest`, `JoinReturns`: one `task_done` too few hangs `wait_idle`, one too many
  lets it return early; the count has to survive refusals, cancellations and restarts. `InOrder` and
  `ImplementsLanes`: numbers are drawn before the queue may refuse.
* `InPipelineOrder`: the console reads `latest_*` fields that a failed tick leaves half renewed.
  `ProvidersUp`: the worker must be stopped before its providers. `ImageForOcr`, `FilesBounded`: the
  clean-up runs between save and use, over files of every kind, those of others too; after it a tick
  writes up to five records more. `KeepsSampling`: no failure ends the
  loop.
* `Settled`: the handler's own transition may be illegal. `ReturnedIsCoherent`: old plans beside new
  ones. `ChangesAnnounced`: a goal is activated before it is announced. `GoalLifeCycle`,
  `CallReturns`: selection after completions; retries that end.
* `ExecutedWithPermission`, `DecidedOnce`, `CompletedAsConfirmed`: tokens outlive their request's
  expiry, are reused, and can be mistaken for each other; one is only issued while its request is
  pending. `VerdictFits`: the validator sees only
  what the run leaves.
* `RunAgreesWithRecords`: the executor may answer with any status, a failed call is repeated once, and
  the count, the trail and the last result must be of the same attempt; the trail stays inside the
  transition table. The status of a step and that of its task part in one case, and always in that one:
  the observation denied the result. `PrerequisitesKept`: experience removes and reorders tasks but leaves the
  prerequisites of the others. `AdviceAccepted`: the scheduler places only the goal's own dependency
  before it, its validator demands all; the two agree unless dependencies form a chain, and so the
  property is stated. `FailuresWarned`: a new failure meets patterns of better standing. That it is
  warned of always holds; that the pattern matched to it failed the same way holds while patterns are
  comparable (`Comparable`): an older pattern of full confidence ties with a new one of none and is
  matched first, and one that spreads over several tasks of the graph can outweigh it.
* `ReferencesGrounded`, `SeenAgainToReturn`: late, repeated and expired observations, ambiguous names
  and conflicting places, in any order of arrival.
* `AdviceConsistent`: one snapshot is reasoned about with the history of another, and alternatives are
  identified by number, so that an answer to one suggestion prefers another. `MemoryOfNow`: limits.
* `RouteFollowsTheMap` compares the planner's way with reachability by any number of portals, in the
  world of now. `DoneOnlyIfSeen`: looks that are missing, uncertain, or of a dead player; and after a death that was
  seen, nothing more of the chain passes the gate.
  `NothingRunsYet`: the contract is handed its parts one by one.
* `ShownIsTheGame`: conditions told by a person, windows that cover one another, providers that find
  the window each for itself. `ConfirmedByTwoMoments`: time-outs, repeated requests, a store that is
  closed. `ReadyIsEarned`: failed captures and frames of something else are samples too, and rates are
  over what has a truth or was read at all. Rates are rounded to four decimals before they are compared,
  so the property allows what the rounding allows: 1001 wrong in 20,000 labelled, not 1000.

The type invariant is checked in `runtime` and `event_bus` and proved for those two, the worker, the
agent loop and the cognitive loop; of the composed chains the inductive invariants of the theorems say
what their variables hold.

Where the code does what a hazard of `PROJECT.json` fears, the property says that nothing else does: a refused
announcement, a token of an expired request, a chain of dependencies, an identifier used twice, an
alternative both rejected and accepted, a window found by its title alone. The hazard's note names the
case. `ImplementsLifecycle` permits a manager to rest between two moves; `runtime_full` is the run about
that. `ImplementsLanes` says what is accepted and in which order it leaves, not that nothing is refused
needlessly.

Each of them has, in `PROJECT.json`, a small mutation of the code's model (a dropped guard, a
swapped order, a missing reset) under which TLC finds it violated; the mutated forms stand in the
modules beside the definitions they vary, marked as slips.

### Bounds, and why they are enough

* A queue of 3 lets one call fill it by its two reports with an older report or command still
  waiting, or leaves it empty; 2 suffices for a call to be refused in its middle. With four
  publications and room for two, refusals, overtaking and a dispatcher that is behind all occur.
  The theorems below hold for every queue size.
* `MaxAttach = 2` is the second lifespan; a third is no different from the second.
* `MaxSubs = 2`: a typed and an untyped subscription, or two of the same callback.
* `MaxFiles = 8` bounds the directory in the run where it grows for ever. In `vision` it is 2 images
  kept, five records and one file of others, the most there can be: no step is held back by it.
  `MaxOthers = 1` lets a file of others push out one of the worker's.
* `MaxRoom = 10` exceeds what a whole round with one step of execution publishes, so every
  publication of a round can be the refused one, and none need be.
* Three goals let a new one push an active one aside while a third waits; one retry distinguishes a
  first from a last attempt.
* Two requests are the least for which a token can be another request's; a token's lifetime of one
  tick in three allows use before, at, and after expiry. `MaxDone` bounds only what outsiders
  execute; a run may always add its own.
* `long_horizon`: three goals are the least with a chain of dependencies; an empty milestone between two
  others, a graph that experience shortens and one it reorders are among them; two steps make a first
  and a later failure differ. Every assignment of dependencies to the goals is scheduled.
* `companion`: three observations allow one that is late behind one that is repeated; a delay of 2 is
  beyond the stale threshold of 1 and at the expiry of 2. The names include an alias of two persons,
  two places at once, and a name nothing is known of.
* `advice`: room for two snapshots with three looks, and room for fewer memories than there are.
* `action_chain`: each contract holds but for one thing. The planner meets the second world with the
  graph of the first; of the five screens one shows a dead player and one is too uncertain.
* `live_vision`: 20 samples are the least with which one bad sample is 5 %, the limit of the verdict, and
  10 is the default of the code's `minimum_sample_count`. A cooldown of 2 in 4 allows two answers within and
  beyond it.

### Fairness

Weak fairness is assumed of what asyncio schedules by itself: the dispatcher while it can go on
(`event_bus`, `runtime`), a waiter that has been woken, the worker's sleeps and ticks and the
draining of the bus (`vision`), the steps of a call that has begun (`agent_loop`). A coroutine
subscriber is taken to return in the end; one that does not would stop the bus, as it would in the
code. Users, the console, commands, time, failures and the lifespan have no fairness: nobody has to
call anything. The cognitive loop has none, and no liveness is claimed of it. The five
composed chains (`long_horizon` to `live_vision`) have none either: each is driven from outside, and
their properties are safety properties.

Deadlock is checked in the first seven runs and in `action_chain`; there somebody can always act (a
call, a refused publication, the restart of the process, another round). It is not checked where the
system stops: a session whose goals are done or given up (`long_horizon`), histories at their bound
(`companion`, `advice`), and programs that end (`live_vision`).

### Where the code and its documentation part

* `runtime_full`: `runtime/manager.py` documents `start()` as completing synchronously and `stop()`
  as ending in OFFLINE. With a full queue `QueueFull` is raised between the two moves; the manager
  rests in STARTING or STOPPING, and from STOPPING only `reset` or `fail` lead on.
* `vision_files`: `vision/policy.py` promises that screenshots do not pile up. The capacity control
  is called only when a frame is saved by policy. With saving off (the default) each tick saves an
  image for OCR that nothing ever deletes.

Smaller things met while modelling, which the models reproduce and no run singles out:

* A death that is seen during an action is a FAILED outcome, with the recovery of a failure (REPLAN, or
  WAIT_OBSERVATION for a fight; if the look after it is missing, INCONCLUSIVE with WAIT_OBSERVATION). The
  documents of the planned execution want a hard stop
  (`docs/architecture/safety_vnext/10_outcome_verification_requirement.md:28`,
  `docs/architecture/execution_transition/02_controlled_execution_contract.md:103` and
  `05_execution_state_machine.md:59`). In the code ABORT comes only of a BLOCKED gate: what stops the
  chain after a death is that the gate blocks every further action of the round, which
  `DoneOnlyIfSeen` states. It leaves open whether the death itself is answered by ABORT.
* `_execute_task` sets `task.status` to COMPLETED after any feedback (`execution/orchestrator.py:241`),
  also after one whose `next_state` is FAILED, although the comment above it (line 237) speaks of
  success only. The replay then shows a FAILED step with a COMPLETED task; `RunAgreesWithRecords` states
  that this is the one disagreement.
* An observation identifier that is used again makes what its older copy showed count as seen now
  (`game_state/temporal.py`); with equal times the older location is kept. A conflict of location
  between two kinds of evidence gives UNKNOWN without a conflict notice.
* One-way portals become two-way when the graph is built (`add_edge`); the planner keeps its graph when
  a later world has no connections; default portal ids of different maps overwrite each other.
* COLLECT, VERIFY, WAIT and OBSERVE can never be judged SUCCESS; a result that is late but matches in
  full is SUCCESS; the target of a fight without a hint is the quest's name, so it is always absent.
* An execution contract is eligible only under a policy that violates `validate_mode_invariant`; the
  session's `kill_switch_state` and `max_rate` are not read; `max_actions` 0 means no limit, a rate of 0
  blocks.
* `GoalScheduler._mark` reads the clock instead of the `now` it is given; `SUCCESS_PATTERN` never fires.
* A label that drifts by less than the change threshold per frame is never read again; "1 %" is read as
  full; black frames count as captured although `_black_frame` is documented to exclude them; a truncated
  text resolves to the first candidate it lies within.
* Output of the command line that cannot be decoded leaves `observe` before the call is recorded, so no
  cooldown starts; the bridge overwrites `frame_reference`, so the check for a mismatch cannot fail; a
  re-evaluation always reports a tested client, but never PASSED, for it has no capture rate.

## 4. Theorems

TLC checks small instances; the following hold for every value of the constants. The provers are
Z3, Zenon and, for the temporal steps, LS4.

**Runtime** (`RuntimeProofs`, assuming only that the queue has at least one place). `TypeCorrect`,
`GateHolds`, `ConsoleIsRight`, `SecondDelivery` and `LifecycleImplemented`, from one inductive
invariant `IInv`. The properties are not inductive by themselves: the console converges only
because ERROR reports are the only ones outside the NORMAL lane, which is a fact of how every event
was enqueued, so `IInv` says that each event waits in the lane of its own priority; and the gate
needs that the report in dispatch, not only the waiting ones, presupposes the confirmation. Calls
are proved once each about `Move` and composed, as the code composes `_transition`; a lemma on the
sum of the lanes' lengths carries the bound of the queue. `LifecycleImplemented` maps each step to
a step of `RuntimeLifecycle` or a stutter.

**Event bus** (`EventBusProofs`, for every queue size, any priorities and subscribers).
`BusTypes`, `CountIsExact`, `JoinIsHonest`, `DeliveryOrder`, from `BusInv`. The count alone is not
inductive: one has to know that exactly a dispatcher inside `_dispatch` holds an event. `JoinHonest`
needs the woken caller as well as the returned one, and that nothing in the heap has a number from
the future. The order of delivery needs three relations at once: what was seen, what is in hand and
what waits, per priority. Cardinalities come from the library's theorems on finite sets.

**Cognitive loop** (`CognitiveProofs`, for any actions, targets, lifetimes and numbers of requests).
`LoopTypes`, `PermissionGiven`, `OneDecision`, `VerdictIsRight`, `DoneAsConfirmed`, from `LoopInv`.
Its first part is about permissions only (`AuthInv`: a token is its request's only one, agrees with
it, and the request was approved) and is kept by each of the seven things that may happen to them
(`AuthStep`); `Kept` collects what no step undoes. The second part says, for each stage, what the
context and the trace contain, and from which stage on the run owns its request, its token and its
execution. That makes the validator's verdict computable at the end of a run (`CompleteIsValid`),
and `Kept` carries it on while users go on acting.

**Advice** (`CognitiveProofs`, for any observations, goals, experiences, stores, limits and answers).
`AdviceIsConsistent` and `MemoryIsOfNow`, from `AdviceInv`: in a round there is at most one of each kind of
result, each was made from the one before it (`Weighed`, `Decided`, and an alignment by the very answers there
are), and the history consists of collected states. Without that, danger and advice could be of different
looks. `AdviceIsConsistent` adds what alignment may change (`AnswersAreHeeded`). For `MemoryIsOfNow` the nodes
of the graph are traced back to the snapshots and to the decision they come from (`NodesAre`), similarity is
bounded by its division (`SimilarityIs`), a node of the place asked of is shown to be more relevant than one of
another place that was not seen more clearly (`HereBeforeThere`), and the ranking to keep the best
(`BestAreKept`).

**Refinement of the lanes** (`LanesImplemented`, in `EventBusProofs`). The mapping sends the heap to
one lane per level, with the entries of that level in the order of their numbers; the mapping sorts a
set, which says nothing about how it changes when an entry comes or goes. So what is proved is that a
tuple that lists a set by number is unique (`OneEnumeration`), that a new entry goes to its end because
numbers are drawn in order (`EnumerationAppended`), and that the least entry of the highest level is
the head of its lane (`EnumerationTaken`, `DequeueIs`). Every step then is an enqueue, a refusal at
exactly the bound, a dequeue, a completion, or a stutter.

**Sampling worker** (`VisionProofs`, for every bus, every capacity, saving or not). `VisionTypes`,
`ProvidersAreUp`, `ResultsInOrder`, `OcrFindsItsImage`, `DirectoryBounded` (with saving on: the images
kept, the five records of a tick, and what others wrote since). The properties need one fact
beside them, `Lifespan`: a worker that is not stopped belongs to an application that is up or stopping,
and only a stopping one cancels the task. A tick is proved once, for every number of stages it gets
through (`TickWorks`); both of the worker's sleeps use it. What it adds to the directory follows from the
steps it got through without a repetition (`StepsAddFive`).

**Agent loop** (`LoopProofs`, for any goals, retries and room on the bus). `LoopTypes`, `LoopSettles`,
`ReturnsCoherent`, `ChangesAreAnnounced`, and the action property `GoalsLiveOnce`. The invariant adds
for every stage the state the loop is in (`StateAt`: without it the transition of the `except` clause
could be illegal), which results are of this round (`Fresh`, `QuestOfGoal`), and that nothing is
reported before a failure (`NothingReported`).

**Companion session** (`LoopProofs`, for any knowledge of the game, any observations with any delays).
`ToldIsGrounded` and `SeenAgainIsShown`, from `CompanionInv`: times are in order, the history consists of
entries that an adapter made, and what is told is what the last `process_observation` made of the whole
history at its time (`AsProcessed`), however late it is asked for. The rest is about the pure part. The
reducer's order (time, then place in the list) is total, so among the observations of an entity there is a
latest and it stays the latest when an older one arrives (`LatestRemains`); what is visible is of
what the latest shows and neither stale nor expired (`VisibleIs`), and was visible before when the new
observation is not the latest (`VisibleBefore`);
whatever rests on several references is as certain as the weakest of them (`MadeIsWeakest`); and the
validator finds nothing to object to (`GeneratedIsOK`). Sums of confidences are folds over a finite set; what
is proved of them (that they are numbers, and positive ones of positive numbers) is proved on the function
that the fold chooses, by induction on the number of members (`SumsExist`, `SumsAreTyped`).

**A session of goals** (`HorizonProofs`, for any goals, requests, experiences and plans).
`RecordsOfRuns`, `PrerequisitesAreKept`, `AdviceIsAccepted`. The first rests on what is known of one
record after every sequence of validation, call, retry and failure (`ExecInv`). The second needs that
the graph in use is the goal's own decomposition with tasks left out and moved (`FromGoal`, kept by
`PathOrderKeeps`), that completed, pending and failed tasks divide its tasks (`ProgressOf`), and that
the task in hand is ready; it does not matter that the graph changed since, because prerequisites are
always of an earlier place in the goal (`PriorIsEarlier`, `NothingCircular`). The third goes through
the scheduler's insertion of goals one by one (`OrderedGoals`, an induction on the number placed) and
through sorting by a key (`SortedPositions`). `FailuresAreWarnedOf` has an invariant of its own on top of
that one (`WInv`, `FailuresAreKnown`): for every task that failed there is a pattern of that task alone whose
rate of success is zero, and as many retries are remembered as were counted. A pattern of that kind
makes the task's failure probable whatever else is stored (`FailureIsProbable`), so it is avoided or gets a
recovery point; and of two comparable patterns the one of the same failure scores more (`SameOutweighs`), so
the one matched is of that failure (`MatchedIsOfFailure`). The attempt to prove it without `Comparable` is
what showed that it does not hold without.

**From a look to a verdict** (`ChainProofs`, for every world, screen, contract and goal).
`DoneIsSeenToBeDone`, `NothingIsExecutedYet` and `RoutesFollowTheMap`. For the first an action is
followed through the chain: it has the target its way was found for, the verdict of the gate is the
one for this action, and a way to another map has a target. `DoneIsSeen` says what a SUCCESS takes of the
two looks, `FailuresAreTold` what a missing look, a death and a blocked action lead to. The second is a case analysis of the
contract's rules (`EligibleBreaksARule`). The third is the correctness of the breadth-first search,
against what can be reached in n steps. After n turns of its loop (`Searching`): the queue holds
shortest ways in order of length, with lengths at most one apart; whatever was visited has all its
neighbours visited or waits as the end of a queued way; everything nearer than the first of the queue
was visited; and turns plus queue are as many as were visited, so as many turns suffice as there are
names. Each turn keeps that (`Expanded`, `TurnStands`); an empty queue means that nothing more can be
reached (`AllIsVisited`); and a way that is found is as long as the distance (`WayOn`).

**Live vision** (`LiveProofs`, for every desktop, time-out, cooldown and set of sights). `CollectedIsTheGame`,
`TwoMomentsConfirm` and `ReadinessIsEarned`. The first shows for each provider what a good frame of it can show, for any
windows: the game, a window found by nothing but its title, or an admitted region of the screen. The
second needs that the gate knows the time of the last call (`GateKnows`), that answers are apart by a
cooldown and none is from the future, and that an image is held only during a call. The third
(`Earned`) needs that only the end of a session, after which no sample is taken, gives a verdict that
passes: a re-evaluation has no capture rate, and a backend that reads nothing has no rate of quests. What
the rates say of the samples is arithmetic about counts: a count is a sum over a finite set, which does
not depend on the order in which the library's fold takes the members (`CountWithout`), adds up over
parts (`CountOfBoth`), and ignores what has no sample (`CountOfNone`); a rounded rate that reaches its
limit leaves that much for the part (`RateReaches`). Here too the proof corrected the property: stated
without the rounding it fails for sessions of more than about a thousand samples.

### What the theorems assume of the constants

| Assumption | In | Why the code justifies it |
|---|---|---|
| bounds are numbers; a queue has a place | all | durations, counts and capacities; every bus is made with the default of 1000 places |
| `Priorities` within 0 to 3 | `EventBus` | `EventPriority` has these four values |
| `TasksOfGoals`, `MilestonesInOrder` | `LongHorizon` | goals are data; those of the repository (`scripts/demo_webui.py`) name every task once and number their milestones in order. No code checks it: all of it refers to a task by its id, so a goal that uses one twice has no meaning for progress or prerequisites |
| `GoalsAsked`, `ExperiencesTyped`, `FailuresTyped` | `LongHorizon` | the provider of goals holds each by its id; experiences and failure patterns are records of the code's models, their rates within 0 to 100 % |
| `KnownEntities`, `ContextConstants`, `TemporalConstants` | `CompanionRuntime` | knowledge is a list and a finite set of relations read from files, with numbers for confidences; a threshold is a share of one; the constructor of `StateReducer` refuses an expiry that is not beyond the stale threshold |
| `CompanionConstants` | `CompanionRuntime` | observations carry lists of items with numbers for confidences; delays are durations |
| `AdviceConstants` | `Advice` | limits are counts, stores of experiences are finite, confidences are numbers, and an observed map has a name |
| `NamedEnds`, `MapsAreListed` | `ActionChain` | the importer drops a connection without both of its ends; the list only stands for the order of strings |
| `Confidences` | `ActionChain` | both are numbers wherever they are made |
| `Times`, `SightsAreFew`, `Handles`, `ProcessesNamed` | `LiveVision` | durations; of what can be sampled a session shows finitely many things, each captured or not; a handle 0 means "no window" to Win32; a process the profile names is the game's (a window's title is the weaker evidence, and is not assumed) |

TLC evaluates each of them in its run. An argument by induction on a number is made where needed from
the well-foundedness of the natural numbers (`SetInduction`), on a set of numbers that is written
down; recursive functions (the search, what can be reached, insertion) are unfolded by it.

### What is only model-checked

* Liveness (`WindowLossPauses`, `JoinReturns`, `KeepsSampling`, `CallReturns`): the provers installed
  do not reason about fairness and ENABLED.
* That the data of a run is what the code reads: the theorems take any, the runs a few of each kind.

Every other property of a run that passes is a theorem.

## 5. Plan

What the models do not have yet, in this order.

1. **WebSocket forwarding** in full: the queues of the connections, the log handler, a sender that
   fails.
2. **Fairness for the session of goals**: that a graph without failures is worked off.

### Not modelled, and why

* The arithmetic of images, bars and perceptual hashes, OCR, the ranking of texts: numbers and strings
  that no property tells apart. Their outcomes are enumerated where something rests on them.
* The Win32 calls and the vendors' APIs: external, with the outcomes the code guards against.
* Knowledge quality, evaluation, benchmarks and report writers: they read static data or finished
  traces off line, and nothing at run time reads them but the readiness flag, which is modelled.
* The earlier perception packages (views over one observation and their replay files), replaced by the
  parts modelled here.
* The experience store: appended to and searched by text; nothing is decided by it.
* Configuration, game profiles, logging, the command line: wiring and data read once.
* The console's endpoints that only render state.

## 6. Running it

    tlc -workers 2 -config MCRuntime.cfg RuntimeManager   # likewise MCEventBus.cfg EventBus, MCLoop.cfg AgentLoop,
                                                          # MCVision.cfg VisionWorker, MCCognitive.cfg CognitiveLoop
    tlc -workers 2 -config MCFull.cfg RuntimeManager      # the violation of runtime_full
    tlc -workers 2 -config MCVisionFiles.cfg VisionWorker # the violation of vision_files
    tlc -workers 2 -config MCLiveVision.cfg MCLiveVision  # the longest of the five chains; the others likewise
    tlapm ChainProofs.tla                                 # and the other *Proofs.tla
