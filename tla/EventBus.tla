------------------------------ MODULE EventBus ------------------------------
(***************************************************************************)
(* events/bus.py: publish, subscribe, the dispatcher task with its         *)
(* subscribers (plain functions, or coroutines that may suspend), start,   *)
(* stop and wait_idle, on asyncio's PriorityQueue.                         *)
(*                                                                         *)
(* The loop runs one task at a time, until that task suspends: while the   *)
(* dispatcher is "running" or "looping" it holds the loop, and only the    *)
(* subscriber it is calling can publish or subscribe.  start and stop are  *)
(* called by one owner, the application's lifespan.                        *)
(***************************************************************************)
EXTENDS Naturals, Sequences, FiniteSets, FiniteSetsExt, SequencesExt

CONSTANTS
  MaxQueue,     \* maxsize of the queue
  Subscriber,   \* callbacks
  Async,        \* those that are coroutine functions
  Type,         \* event types
  Priorities,       \* priorities in use, numbered as in _PRIORITY_ORDER
  MaxSeq,       \* bound: number of calls of publish
  MaxSubs       \* bound: number of calls of subscribe

ASSUME BusAssumption ==
  /\ MaxQueue \in Nat \ {0} /\ MaxSeq \in Nat /\ MaxSubs \in Nat
  /\ Async \subseteq Subscriber
  /\ Priorities \subseteq 0..3

VARIABLES
  heap,       \* _queue: the waiting (priority, sequence number, event) tuples
  nextSeq,    \* _seq
  unfinished, \* the queue's count of events not yet marked done
  typed,      \* _subscribers
  untyped,    \* _all_subscribers
  task,       \* the dispatcher: "none", or where it is
  cancelled,  \* stop() has cancelled it and waits for its end
  item,       \* the tuple being dispatched, in a sequence of at most one
  rest,       \* the callbacks it has still to be passed to
  waiter,     \* a caller of wait_idle
  waitMark,   \* history: nextSeq when it called
  seen        \* history: per subscriber and priority, one more than the number
              \* of the event it was passed last

vars == <<heap, nextSeq, unfinished, typed, untyped, task, cancelled, item,
          rest, waiter, waitMark, seen>>

Entry == [level : Priorities, seq : Nat, type : Type]

\* (Two slips: the priority not negated; the newest first.)
LowFirst(x, y) == x.level < y.level \/ (x.level = y.level /\ x.seq < y.seq)
NewestFirst(x, y) == x.level > y.level \/ (x.level = y.level /\ x.seq > y.seq)

\* The order of the heap's tuples: falling priority, then rising number.
Before(x, y) == x.level > y.level \/ (x.level = y.level /\ x.seq < y.seq)

Callbacks(t) == typed[t] \o untyped

HoldsLoop == task \in {"running", "looping"}

\* asyncio.Queue.task_done: the last one wakes whoever joins.
TaskDone ==
  /\ unfinished' = unfinished - 1
  /\ waiter' = IF unfinished = 1 /\ waiter = "waiting" THEN "woken" ELSE waiter

Init ==
  /\ heap = {} /\ nextSeq = 0 /\ unfinished = 0
  /\ typed = [t \in Type |-> <<>>] /\ untyped = <<>>
  /\ task = "none" /\ cancelled = FALSE /\ item = <<>> /\ rest = <<>>
  /\ waiter = "no" /\ waitMark = 0
  /\ seen = [s \in Subscriber |-> [l \in Priorities |-> 0]]

-----------------------------------------------------------------------------
Subscriptions == Len(untyped) + MapThenSumSet(LAMBDA t : Len(typed[t]), Type)

SubscribeAll(s) ==
  /\ Subscriptions < MaxSubs
  /\ untyped' = Append(untyped, s)
  /\ UNCHANGED <<heap, nextSeq, unfinished, typed, task, cancelled, item, rest,
                 waiter, waitMark, seen>>

SubscribeTo(s, t) ==
  /\ Subscriptions < MaxSubs
  /\ typed' = [typed EXCEPT ![t] = Append(@, s)]
  /\ UNCHANGED <<heap, nextSeq, unfinished, untyped, task, cancelled, item, rest,
                 waiter, waitMark, seen>>

\* publish: the number is drawn first; put_nowait may then raise QueueFull.
Publish(l, t) ==
  /\ nextSeq < MaxSeq
  /\ nextSeq' = nextSeq + 1
  /\ IF Cardinality(heap) < MaxQueue
     THEN /\ heap' = heap \cup {[level |-> l, seq |-> nextSeq, type |-> t]}
          /\ unfinished' = unfinished + 1
     ELSE UNCHANGED <<heap, unfinished>>
  /\ UNCHANGED <<typed, untyped, task, cancelled, item, rest, waiter, waitMark, seen>>

\* start(): does nothing while there is a task, one that is being stopped too.
StartBus ==
  /\ ~HoldsLoop /\ task = "none"
  /\ task' = "waiting"
  /\ UNCHANGED <<heap, nextSeq, unfinished, typed, untyped, cancelled, item, rest,
                 waiter, waitMark, seen>>

\* stop(): cancel, then await the task's end.
StopBus ==
  /\ ~HoldsLoop /\ task # "none" /\ ~cancelled
  /\ cancelled' = TRUE
  /\ UNCHANGED <<heap, nextSeq, unfinished, typed, untyped, task, item, rest,
                 waiter, waitMark, seen>>

(***************************************************************************)
(* The dispatcher.  queue.get() suspends only when the queue is empty, so  *)
(* a dispatcher with work left goes on to the next event at once.          *)
(***************************************************************************)
Take ==
  /\ \/ task = "waiting" /\ ~cancelled
     \/ task = "looping"
  /\ \E x \in heap :
       /\ \A y \in heap \ {x} : Before(x, y)
       /\ item' = <<x>>
       /\ heap' = heap \ {x}
       /\ rest' = Callbacks(x.type)
  /\ task' = "running"
  /\ UNCHANGED <<nextSeq, unfinished, typed, untyped, cancelled, waiter, waitMark, seen>>

GetSuspends ==
  /\ task = "looping" /\ heap = {}
  /\ task' = "waiting"
  /\ UNCHANGED <<heap, nextSeq, unfinished, typed, untyped, cancelled, item, rest,
                 waiter, waitMark, seen>>

\* One callback; what it raises is logged.  A coroutine may suspend.
CallNext ==
  /\ task = "running" /\ rest # <<>>
  /\ seen' = [seen EXCEPT ![Head(rest)][item[1].level] = item[1].seq + 1]
  /\ rest' = Tail(rest)
  /\ \/ task' = "running"
     \/ Head(rest) \in Async /\ task' = "awaiting"
  /\ UNCHANGED <<heap, nextSeq, unfinished, typed, untyped, cancelled, item,
                 waiter, waitMark>>

Resume ==
  /\ task = "awaiting" /\ ~cancelled
  /\ task' = "running"
  /\ UNCHANGED <<heap, nextSeq, unfinished, typed, untyped, cancelled, item, rest,
                 waiter, waitMark, seen>>

\* (A slip: the event is not marked done.)
EndDispatchUnmarked ==
  /\ task = "running" /\ rest = <<>>
  /\ item' = <<>>
  /\ task' = "looping"
  /\ UNCHANGED <<heap, nextSeq, unfinished, waiter, typed, untyped, cancelled, rest,
                 waitMark, seen>>

EndDispatch ==
  /\ task = "running" /\ rest = <<>>
  /\ TaskDone
  /\ item' = <<>>
  /\ task' = "looping"
  /\ UNCHANGED <<heap, nextSeq, typed, untyped, cancelled, rest, waitMark, seen>>

\* (Two slips: task_done not in the finally clause; the finally clause around
\* get() as well.)
EndTaskUnmarked ==
  /\ cancelled /\ task \in {"waiting", "awaiting"}
  /\ task' = "none" /\ cancelled' = FALSE
  /\ item' = <<>> /\ rest' = <<>>
  /\ UNCHANGED <<heap, nextSeq, unfinished, typed, untyped, waiter, waitMark, seen>>

EndTaskAlwaysMarks ==
  /\ cancelled /\ task \in {"waiting", "awaiting"}
  /\ task' = "none" /\ cancelled' = FALSE
  /\ item' = <<>> /\ rest' = <<>>
  /\ TaskDone
  /\ UNCHANGED <<heap, nextSeq, typed, untyped, waitMark, seen>>

\* CancelledError reaches the dispatcher where it is suspended: in get(), or
\* in a coroutine subscriber, whose event the finally clause marks done.
EndTask ==
  /\ cancelled /\ task \in {"waiting", "awaiting"}
  /\ task' = "none" /\ cancelled' = FALSE
  /\ item' = <<>> /\ rest' = <<>>
  /\ IF task = "awaiting"
     THEN TaskDone
     ELSE UNCHANGED <<unfinished, waiter>>
  /\ UNCHANGED <<heap, nextSeq, typed, untyped, waitMark, seen>>

-----------------------------------------------------------------------------
\* (A slip: wait_idle looks whether the queue is empty.)
WaitEmpty ==
  /\ ~HoldsLoop /\ waiter = "no"
  /\ waiter' = IF heap = {} THEN "returned" ELSE "waiting"
  /\ waitMark' = nextSeq
  /\ UNCHANGED <<heap, nextSeq, unfinished, typed, untyped, task, cancelled, item,
                 rest, seen>>

\* wait_idle: join() returns at once when nothing is unfinished.
WaitIdle ==
  /\ ~HoldsLoop /\ waiter = "no"
  /\ waiter' = IF unfinished = 0 THEN "returned" ELSE "waiting"
  /\ waitMark' = nextSeq
  /\ UNCHANGED <<heap, nextSeq, unfinished, typed, untyped, task, cancelled, item,
                 rest, seen>>

WaitReturns ==
  /\ ~HoldsLoop /\ waiter = "woken"
  /\ waiter' = "returned"
  /\ UNCHANGED <<heap, nextSeq, unfinished, typed, untyped, task, cancelled, item,
                 rest, waitMark, seen>>

Dispatcher == Take \/ GetSuspends \/ CallNext \/ Resume \/ EndDispatch \/ EndTask

Next ==
  \/ \E s \in Subscriber : SubscribeAll(s)
  \/ \E s \in Subscriber, t \in Type : SubscribeTo(s, t)
  \/ \E l \in Priorities, t \in Type : Publish(l, t)
  \/ StartBus \/ StopBus
  \/ Dispatcher
  \/ WaitIdle \/ WaitReturns

\* The loop schedules every task that can go on; a coroutine subscriber
\* eventually returns, or the dispatcher would wait for it for ever.
Spec == Init /\ [][Next]_vars /\ WF_vars(Dispatcher) /\ WF_vars(WaitReturns)

-----------------------------------------------------------------------------
TypeOK ==
  /\ heap \subseteq Entry /\ IsFiniteSet(heap) /\ nextSeq \in Nat /\ unfinished \in Nat
  /\ typed \in [Type -> Seq(Subscriber)] /\ untyped \in Seq(Subscriber)
  /\ task \in {"none", "waiting", "running", "looping", "awaiting"}
  /\ cancelled \in BOOLEAN /\ item \in Seq(Entry) /\ rest \in Seq(Subscriber)
  /\ waiter \in {"no", "waiting", "woken", "returned"} /\ waitMark \in Nat
  /\ seen \in [Subscriber -> [Priorities -> Nat]]

\* The count join() waits on is the number of events waiting or in dispatch,
\* through refusals, cancellations and restarts: it never sticks above zero
\* with nothing left to do, and never reaches zero with something left.
Accounting == unfinished = Cardinality(heap) + Len(item)

\* Every subscriber is passed the events of one priority in the order they
\* were published, across suspended subscribers, stops and restarts.
InOrder == [][\A s \in Subscriber, l \in Priorities : seen[s][l] <= seen'[s][l]]_vars

\* When wait_idle returns, every event published before the call was refused,
\* dispatched to its last subscriber, or cut short by stop().
JoinHonest ==
  waiter = "returned" =>
    /\ \A x \in heap : x.seq >= waitMark
    /\ \A i \in DOMAIN item : item[i].seq >= waitMark

\* A caller of wait_idle is not left waiting, if the bus stays started.
JoinReturns ==
  <>[](task # "none" /\ ~cancelled) => (waiter = "waiting" ~> waiter = "returned")

\* The heap implements the lanes: seen per priority and in number order.
InNumberOrder(S) ==
  [n \in 1..Cardinality(S) |-> CHOOSE x \in S : Cardinality({y \in S : y.seq < x.seq}) = n - 1]
OfLevel(waiting, l) == {x \in waiting : x.level = l}
LanesOf(waiting) == [l \in 0..3 |-> InNumberOrder(OfLevel(waiting, l))]

Lanes == INSTANCE LaneBus WITH
  lanes  <- LanesOf(heap),
  inHand <- item,
  Event  <- [level : Priorities, seq : 0..MaxSeq, type : Type],
  Level  <- LAMBDA e : e.level

ImplementsLanes == Lanes!Spec
=============================================================================
