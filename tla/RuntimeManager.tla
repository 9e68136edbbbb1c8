--------------------------- MODULE RuntimeManager ---------------------------
(***************************************************************************)
(* The agent's life cycle: RuntimeManager (runtime/manager.py), the table  *)
(* of legal moves (runtime/states.py), the bus that carries its state      *)
(* events and its commands (events/bus.py), and the web console that       *)
(* drives it and shows its state (webui/app.py, webui/ws.py).              *)
(*                                                                         *)
(* Everything runs on one asyncio loop and no method here awaits, so a     *)
(* call is one step.  What interleaves are whole calls: console requests,  *)
(* calls of the embedding program, publishers of commands, and the bus     *)
(* task that dispatches one waiting event at a time.                       *)
(***************************************************************************)
EXTENDS EventLanes, FiniteSets

CONSTANTS
  MaxQueue,   \* maxsize of the bus queue; put_nowait raises QueueFull beyond it
  MaxAttach   \* bound: how often attach() is called (once per application lifespan)

ASSUME BoundsAssumption == MaxQueue \in Nat \ {0} /\ MaxAttach \in Nat \ {0}

VARIABLES
  state,      \* RuntimeManager._state
  confirmed,  \* RuntimeManager._user_confirmed
  binding,    \* RuntimeManager._binding_status
  queue,      \* EventBus._queue
  attached,   \* number of times the manager's _on_event is subscribed
  serving,    \* the lifespan is entered: the bus task runs
  current,    \* the event being dispatched, or Nothing
  handlersLeft, \* subscriptions of the manager it has still to be passed to
  shown,      \* the state in the last state event of the console's event flow
  announced   \* history: the event of the latest move was accepted by the queue

vars == <<state, confirmed, binding, queue, attached, serving, current,
          handlersLeft, shown, announced>>

States == {"OFFLINE", "STARTING", "READY", "RUNNING", "PAUSED", "STOPPING", "ERROR"}

\* target state -> the states it may be entered from
TransitionTable ==
  [OFFLINE  |-> {"STOPPING", "ERROR"},
   STARTING |-> {"OFFLINE"},
   READY    |-> {"STARTING"},
   RUNNING  |-> {"READY", "PAUSED"},
   PAUSED   |-> {"RUNNING"},
   STOPPING |-> {"STARTING", "READY", "RUNNING", "PAUSED"},
   ERROR    |-> {"STARTING", "READY", "RUNNING", "PAUSED", "STOPPING"}]

\* validate_transition.  Before it, two slips its table invites: PAUSED from
\* READY too, a ready agent started again; and an agent resumed out of ERROR.
LooseTransition(from, target) ==
  \/ from \in TransitionTable[target]
  \/ from = "READY" /\ target \in {"STARTING", "PAUSED"}

ResumableError(from, target) ==
  \/ from \in TransitionTable[target]
  \/ from = "ERROR" /\ target = "RUNNING"

LegalTransition(from, target) == from \in TransitionTable[target]

Commands == {"START", "PAUSE", "STOP", "GAME_WINDOW_LOST"}

(***************************************************************************)
(* An event is its kind: the state it reports (own events: source is the   *)
(* manager itself), the loss of the bound window, or a command published   *)
(* by somebody else.  PAUSE is both a command and the PAUSED report in the *)
(* code; only the source tells them apart.                                 *)
(***************************************************************************)
Report(s) == [own |-> TRUE, about |-> s]
Command(c) == [own |-> FALSE, about |-> c]
BindLost == [own |-> TRUE, about |-> "WINDOW_BIND_LOST"]

Event == {Report(s) : s \in States} \cup {Command(c) : c \in Commands} \cup {BindLost}

Nothing == [own |-> FALSE, about |-> "nothing"]

IsReport(e) == e.own /\ e.about \in States

\* (A slip: the end of a run reported as housekeeping, at LOW.)
QuietPriority(e) ==
  CASE e.about = "ERROR" -> CRITICAL
    [] e.about \in {"GAME_WINDOW_LOST", "WINDOW_BIND_LOST"} -> HIGH
    [] e.about = "OFFLINE" -> LOW
    [] OTHER -> NORMAL

\* Event.create's priority: explicit for reports, _DEFAULT_PRIORITY otherwise.
Priority(e) ==
  CASE e.about = "ERROR" -> CRITICAL
    [] e.about \in {"GAME_WINDOW_LOST", "WINDOW_BIND_LOST"} -> HIGH
    [] OTHER -> NORMAL

HasRoomOffByOne(q) == Pending(q) <= MaxQueue   \* a slip

HasRoom(q) == Pending(q) < MaxQueue

(***************************************************************************)
(* A call works on a record m of the three parts it may change and the     *)
(* exception it has raised ("no", "illegal" for IllegalTransitionError,    *)
(* "full" for asyncio.QueueFull); after an exception nothing more happens. *)
(***************************************************************************)
Here == [state |-> state, queue |-> queue, announced |-> announced, raised |-> "no"]

\* _transition: the state is assigned before the event is published, so a
\* full queue raises after the move was made.
Move(m, target) ==
  IF m.raised # "no" THEN m
  ELSE IF ~LegalTransition(m.state, target) THEN [m EXCEPT !.raised = "illegal"]
  ELSE IF HasRoom(m.queue)
       THEN [state     |-> target,
             queue     |-> Enqueue(m.queue, Priority(Report(target)), Report(target)),
             announced |-> TRUE,
             raised    |-> "no"]
       ELSE [state |-> target, queue |-> m.queue, announced |-> FALSE, raised |-> "full"]

StartUp(m)  == Move(Move(m, "STARTING"), "READY")
ShutDown(m) == Move(Move(m, "STOPPING"), "OFFLINE")

\* (A slip: the loss of the window is not handled.)
HandleCommandsOnly(m, e) ==
  IF e = Command("START") THEN StartUp(m)
  ELSE IF e = Command("PAUSE") THEN Move(m, "PAUSED")
  ELSE IF e = Command("STOP") THEN ShutDown(m)
  ELSE m

\* _on_event: own events are ignored, a lost window pauses a running agent.
Handle(m, e) ==
  IF e = Command("START") THEN StartUp(m)
  ELSE IF e = Command("PAUSE") THEN Move(m, "PAUSED")
  ELSE IF e = Command("STOP") THEN ShutDown(m)
  ELSE IF e = Command("GAME_WINDOW_LOST") /\ m.state = "RUNNING" THEN Move(m, "PAUSED")
  ELSE m

Effect(m) == state' = m.state /\ queue' = m.queue /\ announced' = m.announced

-----------------------------------------------------------------------------
Init ==
  /\ state = "OFFLINE" /\ confirmed = FALSE /\ binding = "UNBOUND"
  /\ queue = NoEvents /\ attached = 0 /\ serving = FALSE
  /\ current = Nothing /\ handlersLeft = 0
  /\ shown = "OFFLINE" /\ announced = TRUE

\* A call starts only when no callback of the bus task is running.
Idle == current = Nothing

bus == <<attached, serving, current, handlersLeft, shown>>

Call(m) == Idle /\ Effect(m) /\ UNCHANGED <<confirmed, binding, bus>>

\* start, pause, stop: the console's endpoints, prepare_for_start and callers.
Start == Call(StartUp(Here))
Pause == Call(Move(Here, "PAUSED"))
Stop  == Call(ShutDown(Here))
Fail  == Call(Move(Here, "ERROR"))
Reset == Call(Move(Here, "OFFLINE"))

Confirm ==
  /\ Idle
  /\ confirmed' = TRUE
  /\ UNCHANGED <<state, binding, queue, announced, bus>>

\* start_agent and resume: the same gate, then the same move.  Without a
\* detector the window is not looked for.
StartAgent(detector) ==
  /\ confirmed
  /\ detector # "finds nothing"
  /\ Call(Move(Here, "RUNNING"))

BindWindow ==
  /\ Idle
  /\ binding' = "BOUND"
  /\ UNCHANGED <<state, confirmed, queue, announced, bus>>

\* mark_window_lost: again the status changes before the publication.
MarkWindowLost ==
  /\ Idle
  /\ binding = "BOUND"
  /\ binding' = "LOST"
  /\ queue' = IF HasRoom(queue) THEN Enqueue(queue, Priority(BindLost), BindLost) ELSE queue
  /\ UNCHANGED <<state, confirmed, announced, bus>>

\* Any other component publishes a command (a full queue refuses it).
PublishCommand(c) ==
  /\ Idle
  /\ HasRoom(queue)
  /\ queue' = Enqueue(queue, Priority(Command(c)), Command(c))
  /\ UNCHANGED <<state, confirmed, binding, announced, bus>>

\* lifespan of the application: every entry subscribes the manager again
\* (attach() has no guard); the exit stops the bus task and leaves the queue.
EnterLifespan ==
  /\ Idle
  /\ ~serving /\ attached < MaxAttach
  /\ serving' = TRUE
  /\ attached' = attached + 1
  /\ UNCHANGED <<state, confirmed, binding, queue, current, handlersLeft, shown, announced>>

ExitLifespan ==
  /\ Idle
  /\ serving
  /\ serving' = FALSE
  /\ UNCHANGED <<state, confirmed, binding, queue, attached, current, handlersLeft, shown, announced>>

(***************************************************************************)
(* _dispatch of one event: the subscriptions for its type (the manager's,  *)
(* for commands) and then the console's, without giving up the loop.       *)
(***************************************************************************)
Take ==
  /\ Idle /\ serving
  /\ Pending(queue) > 0
  /\ current' = NextEvent(queue)
  /\ queue' = Dequeue(queue)
  /\ handlersLeft' = IF NextEvent(queue).own THEN 0 ELSE attached
  /\ UNCHANGED <<state, confirmed, binding, attached, serving, shown, announced>>

\* What the manager's handler raises is logged and swallowed.
Deliver ==
  /\ handlersLeft > 0
  /\ handlersLeft' = handlersLeft - 1
  /\ Effect(Handle(Here, current))
  /\ UNCHANGED <<confirmed, binding, attached, serving, current, shown>>

\* WebSocketManager._on_event, the last subscriber.
Show ==
  /\ ~Idle /\ handlersLeft = 0
  /\ shown' = IF IsReport(current) THEN current.about ELSE shown
  /\ current' = Nothing
  /\ UNCHANGED <<state, confirmed, binding, queue, attached, serving, handlersLeft, announced>>

Dispatch == Take \/ Deliver \/ Show

Next ==
  \/ Start \/ Pause \/ Stop \/ Fail \/ Reset \/ Confirm
  \/ \E d \in {"no detector", "finds window", "finds nothing"} : StartAgent(d)
  \/ BindWindow \/ MarkWindowLost
  \/ \E c \in Commands : PublishCommand(c)
  \/ EnterLifespan \/ ExitLifespan
  \/ Dispatch

\* The bus task is scheduled by the loop while it has something to do; users,
\* publishers and the server's lifespan owe nothing.
Spec == Init /\ [][Next]_vars /\ WF_vars(Dispatch)

-----------------------------------------------------------------------------
TypeOK ==
  /\ state \in States /\ confirmed \in BOOLEAN
  /\ binding \in {"UNBOUND", "BOUND", "LOST"}
  /\ queue \in [Levels -> Seq(Event)] /\ Pending(queue) <= MaxQueue
  /\ attached \in 0..MaxAttach /\ serving \in BOOLEAN
  /\ current \in Event \cup {Nothing} /\ handlersLeft \in 0..attached
  /\ shown \in States /\ announced \in BOOLEAN

\* The agent runs, is paused, or tells anyone that it runs, only after the user
\* confirmed: no order of commands, requests and lost windows passes the gate.
OnlyConfirmedRuns ==
  /\ state \in {"RUNNING", "PAUSED"} => confirmed
  /\ shown = "RUNNING" => confirmed
  /\ \A i \in DOMAIN queue[NORMAL] : queue[NORMAL][i] = Report("RUNNING") => confirmed

NoReports(lane) == \A i \in DOMAIN lane : ~IsReport(lane[i])

\* What the console will show once the waiting events q are dispatched is s.
WillShow(q, s) ==
  \/ \E i \in DOMAIN q[NORMAL] :
       /\ q[NORMAL][i] = Report(s)
       /\ \A j \in DOMAIN q[NORMAL] : j > i => ~IsReport(q[NORMAL][j])
  \/ /\ NoReports(q[NORMAL]) /\ NoReports(q[CRITICAL])
     /\ s = IF IsReport(current) THEN current.about ELSE shown

\* Unless the last report was refused by a full queue, or the agent is in
\* ERROR (whose report overtakes the ones still waiting), the console ends up
\* showing the state the manager is in.
ConsoleConverges == announced /\ state # "ERROR" => WillShow(queue, state)

Settled(m) == [state |-> m.state, queue |-> m.queue, announced |-> m.announced]

\* attach() may subscribe the handler twice (a lifespan entered again): the
\* second delivery of any command changes nothing more.
HandlersIdempotent ==
  \A c \in Commands :
    LET once  == Handle(Here, Command(c))
        twice == Handle([once EXCEPT !.raised = "no"], Command(c))
    IN  Settled(twice) = Settled(once)

\* A window loss that is published while the agent runs stops it running, if
\* the bus keeps running and critical errors cease.
LossPublished ==
  \E i \in DOMAIN queue[HIGH] : queue[HIGH][i] = Command("GAME_WINDOW_LOST")

WindowLossPauses ==
  <>[](serving /\ queue[CRITICAL] = <<>>)
    => (LossPublished /\ state = "RUNNING" ~> state # "RUNNING")

\* The abstract life cycle: what one call can do to the state.
LifeCycle == INSTANCE RuntimeLifecycle

ImplementsLifecycle == LifeCycle!Spec

\* Documented (manager.py: start completes synchronously, stop goes through
\* STOPPING to OFFLINE): STARTING and STOPPING are never states at rest.
NoRestInTransit == state \notin {"STARTING", "STOPPING"}
=============================================================================
