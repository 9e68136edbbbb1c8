---------------------------- MODULE EventBusProofs ----------------------------
(***************************************************************************)
(* Theorems of EventBus for every queue size, every number of publications *)
(* and every set of subscribers: the count join() waits on is exact, and   *)
(* wait_idle and the order of delivery can rely on it.                     *)
(***************************************************************************)
EXTENDS EventBus, Integers, FiniteSetTheorems, TLAPS

\* At most one event is in dispatch, and only by a dispatcher inside _dispatch.
OneInHand ==
  IF task \in {"running", "awaiting"} THEN Len(item) = 1 ELSE item = <<>>

\* Sequence numbers are drawn once each and count upwards.
Numbered ==
  /\ \A x \in heap : x.seq < nextSeq
  /\ \A x, y \in heap : x.seq = y.seq => x = y
  /\ item # <<>> => item[1].seq < nextSeq
  /\ waitMark <= nextSeq

\* What still waits comes after what was taken, and that after what was seen.
Ahead ==
  /\ \A s \in Subscriber, l \in Priorities : seen[s][l] <= nextSeq
  /\ \A s \in Subscriber : \A x \in heap : seen[s][x.level] <= x.seq
  /\ item # <<>> =>
       /\ \A s \in Subscriber : seen[s][item[1].level] <= item[1].seq + 1
       /\ \A x \in heap : x.level = item[1].level => item[1].seq < x.seq

\* Once woken, a caller of wait_idle has nothing of its own left to wait for.
Finished ==
  waiter \in {"woken", "returned"} =>
    /\ \A x \in heap : x.seq >= waitMark
    /\ item # <<>> => item[1].seq >= waitMark

BusInv == TypeOK /\ OneInHand /\ Accounting /\ Numbered /\ Ahead /\ Finished

-----------------------------------------------------------------------------
\* An empty bus satisfies the invariant.
LEMMA StartsInvariant == Init => BusInv
  <1> SUFFICES ASSUME Init PROVE BusInv
    OBVIOUS
  <1>1. heap = {} /\ IsFiniteSet(heap) /\ Cardinality(heap) = 0
    BY FS_EmptySet DEF Init
  <1>2. item = <<>> /\ Len(item) = 0 /\ item \in Seq(Entry)
    BY DEF Init
  <1>3. typed \in [Type -> Seq(Subscriber)] /\ untyped \in Seq(Subscriber) /\ rest \in Seq(Subscriber)
    BY DEF Init
  <1>4. seen \in [Subscriber -> [Priorities -> Nat]]
    BY DEF Init
  <1>5. TypeOK
    BY <1>1, <1>2, <1>3, <1>4 DEF Init, TypeOK
  <1>6. OneInHand /\ Accounting
    BY <1>1, <1>2 DEF Init, OneInHand, Accounting
  <1>7. Numbered /\ Finished
    BY <1>1, <1>2 DEF Init, Numbered, Finished
  <1>8. Ahead
    BY <1>1, <1>2 DEF Init, Ahead
  <1>9. QED
    BY <1>5, <1>6, <1>7, <1>8 DEF BusInv

\* Steps that leave the queue and the event in dispatch alone.
LEMMA QueueUntouched ==
  ASSUME BusInv, TypeOK',
         UNCHANGED <<heap, nextSeq, unfinished, item, seen>>,
         task' \in {"running", "awaiting"} <=> task \in {"running", "awaiting"},
         waiter' \in {"woken", "returned"} =>
           waiter \in {"woken", "returned"} \/ unfinished = 0,
         waitMark' = waitMark \/ (waitMark' = nextSeq /\ waiter \notin {"woken", "returned"})
  PROVE  BusInv'
  <1>1. OneInHand'
    BY DEF BusInv, OneInHand
  <1>2. Accounting'
    BY DEF BusInv, Accounting
  <1>3. Numbered' /\ Ahead'
    BY DEF BusInv, Numbered, Ahead, TypeOK
  <1>4. Finished'
    <2>1. CASE waiter' \notin {"woken", "returned"}
      BY <2>1 DEF Finished
    <2>2. CASE unfinished = 0
      <3>1. Cardinality(heap) \in Nat /\ Len(item) \in Nat
        BY FS_CardinalityType DEF BusInv, TypeOK
      <3>2. heap = {} /\ item = <<>>
        BY <2>2, <3>1, FS_EmptySet DEF BusInv, Accounting, TypeOK
      <3>3. QED
        BY <3>2 DEF Finished
    <2>3. CASE waiter \in {"woken", "returned"}
      BY <2>3 DEF BusInv, Finished
    <2>4. QED
      BY <2>1, <2>2, <2>3
  <1>5. QED
    BY <1>1, <1>2, <1>3, <1>4 DEF BusInv

-----------------------------------------------------------------------------
\* Facts about the state every step starts from.
LEMMA AtHand ==
  ASSUME BusInv
  PROVE  /\ TypeOK /\ IsFiniteSet(heap) /\ Cardinality(heap) \in Nat
         /\ item # <<>> => /\ item[1] \in Entry /\ Len(item) = 1
                           /\ item[1].level \in Priorities /\ item[1].seq \in Nat
                           /\ unfinished = Cardinality(heap) + 1
         /\ item = <<>> => unfinished = Cardinality(heap)
         /\ \A x \in heap : x.level \in Priorities /\ x.seq \in Nat /\ x.type \in Type
  <1>1. TypeOK /\ IsFiniteSet(heap) /\ Cardinality(heap) \in Nat
    BY FS_CardinalityType DEF BusInv, TypeOK
  <1>2. ASSUME item # <<>> PROVE Len(item) = 1 /\ item[1] \in Entry
    BY <1>1, <1>2 DEF BusInv, OneInHand, TypeOK
  <1>3. item # <<>> => unfinished = Cardinality(heap) + 1
    BY <1>1, <1>2 DEF BusInv, Accounting
  <1>4. item = <<>> => unfinished = Cardinality(heap)
    BY <1>1 DEF BusInv, Accounting
  <1>5. \A x \in Entry : x.level \in Priorities /\ x.seq \in Nat /\ x.type \in Type
    BY DEF Entry
  <1>6. QED
    BY <1>1, <1>2, <1>3, <1>4, <1>5 DEF TypeOK

\* publish: the new tuple is the last of its priority.
LEMMA PublishKeeps ==
  ASSUME BusInv, NEW l \in Priorities, NEW t \in Type, Publish(l, t)
  PROVE  BusInv'
  <1> DEFINE e == [level |-> l, seq |-> nextSeq, type |-> t]
  <1>1. /\ TypeOK /\ IsFiniteSet(heap) /\ Cardinality(heap) \in Nat
        /\ nextSeq' = nextSeq + 1
        /\ UNCHANGED <<typed, untyped, task, cancelled, item, rest, waiter, waitMark, seen>>
    BY AtHand DEF Publish
  <1>2. e \in Entry /\ e.level = l /\ e.seq = nextSeq
    BY <1>1 DEF Entry, TypeOK
  <1>3. e \notin heap
    BY <1>1, <1>2 DEF BusInv, Numbered, TypeOK
  <1>4. \/ heap' = heap \cup {e} /\ unfinished' = unfinished + 1
        \/ heap' = heap /\ unfinished' = unfinished
    BY DEF Publish
  <1> HIDE DEF e
  <1>5. IsFiniteSet(heap') /\ unfinished' \in Nat
    <2>1. IsFiniteSet(heap \cup {e})
      BY <1>1, FS_AddElement
    <2>2. unfinished \in Nat /\ unfinished + 1 \in Nat
      BY <1>1 DEF TypeOK
    <2>3. CASE heap' = heap \cup {e} /\ unfinished' = unfinished + 1
      BY <2>1, <2>2, <2>3
    <2>4. CASE heap' = heap /\ unfinished' = unfinished
      BY <1>1, <2>2, <2>4
    <2>5. QED
      BY <1>4, <2>3, <2>4
  <1>6. TypeOK'
    BY <1>1, <1>2, <1>4, <1>5 DEF TypeOK
  <1>7. OneInHand'
    BY <1>1 DEF BusInv, OneInHand
  <1>8. Accounting'
    <2>1. CASE heap' = heap \cup {e} /\ unfinished' = unfinished + 1
      <3>1. Cardinality(heap') = Cardinality(heap) + 1
        BY <1>1, <1>3, <2>1, FS_AddElement
      <3>2. Len(item) \in Nat /\ item' = item
        BY <1>1 DEF TypeOK
      <3>3. QED
        BY <1>1, <2>1, <3>1, <3>2 DEF BusInv, Accounting
    <2>2. CASE heap' = heap /\ unfinished' = unfinished
      BY <1>1, <2>2 DEF BusInv, Accounting
    <2>3. QED
      BY <1>4, <2>1, <2>2
  <1>9. \A x \in heap' : x \in heap \/ x = e
    BY <1>4
  <1>10. Numbered'
    <2>1. nextSeq \in Nat /\ waitMark \in Nat /\ waitMark <= nextSeq
      BY <1>1 DEF BusInv, Numbered, TypeOK
    <2>2. \A x \in heap : x.seq \in Nat /\ x.seq < nextSeq
      BY AtHand DEF BusInv, Numbered
    <2>3. \A x, y \in heap' : x.seq = y.seq => x = y
      BY <1>2, <1>9, <2>1, <2>2 DEF BusInv, Numbered
    <2>4. \A x \in heap' : x.seq < nextSeq'
      BY <1>1, <1>2, <1>9, <2>1, <2>2
    <2>5. item' # <<>> => item'[1].seq < nextSeq'
      BY <1>1, <2>1, AtHand DEF BusInv, Numbered
    <2>6. QED
      BY <1>1, <2>1, <2>3, <2>4, <2>5 DEF Numbered
  <1>11. Ahead'
    <2>1. \A s \in Subscriber, k \in Priorities : seen'[s][k] <= nextSeq'
      BY <1>1 DEF BusInv, Ahead, TypeOK
    <2>2. \A s \in Subscriber : \A x \in heap' : seen'[s][x.level] <= x.seq
      BY <1>1, <1>2, <1>9 DEF BusInv, Ahead
    <2>3. item # <<>> => item[1].seq < nextSeq
      BY DEF BusInv, Numbered
    <2>4. QED
      BY <1>1, <1>2, <1>9, <2>1, <2>2, <2>3 DEF BusInv, Ahead
  <1>12. Finished'
    BY <1>1, <1>2, <1>9, AtHand DEF BusInv, Finished, Numbered, TypeOK
  <1>13. QED
    BY <1>6, <1>7, <1>8, <1>10, <1>11, <1>12 DEF BusInv

\* The dispatcher takes the first tuple: fewer wait, one is in hand.
LEMMA TakeKeeps ==
  ASSUME BusInv, Take
  PROVE  BusInv'
  <1>1. PICK x \in heap : /\ \A y \in heap \ {x} : Before(x, y)
                          /\ item' = <<x>>
                          /\ heap' = heap \ {x}
                          /\ rest' = Callbacks(x.type)
    BY DEF Take
  <1>2. /\ TypeOK /\ IsFiniteSet(heap) /\ Cardinality(heap) \in Nat
        /\ item = <<>> /\ unfinished = Cardinality(heap)
        /\ task' = "running"
        /\ UNCHANGED <<nextSeq, unfinished, typed, untyped, cancelled, waiter, waitMark, seen>>
    BY AtHand DEF Take, BusInv, OneInHand
  <1>3. x \in Entry /\ x.level \in Priorities /\ x.seq \in Nat /\ x.type \in Type
    BY <1>2, AtHand DEF TypeOK
  <1>4. Callbacks(x.type) \in Seq(Subscriber)
    BY <1>2, <1>3 DEF Callbacks, TypeOK
  <1>5. /\ IsFiniteSet(heap') /\ Cardinality(heap') = Cardinality(heap) - 1
        /\ Cardinality(heap') \in Nat
    BY <1>1, <1>2, FS_RemoveElement, FS_CardinalityType
  <1>6. item' \in Seq(Entry) /\ Len(item') = 1 /\ item'[1] = x /\ item' # <<>>
    BY <1>1, <1>3
  <1>7. TypeOK'
    BY <1>1, <1>2, <1>4, <1>5, <1>6 DEF TypeOK
  <1>8. OneInHand' /\ Accounting'
    BY <1>2, <1>5, <1>6 DEF OneInHand, Accounting
  <1>9. Numbered'
    BY <1>1, <1>2, <1>6 DEF BusInv, Numbered
  <1>10. Ahead'
    <2>1. \A s \in Subscriber : seen[s][x.level] \in Nat /\ seen[s][x.level] <= x.seq
      BY <1>2, <1>3 DEF BusInv, Ahead, TypeOK
    <2>2. \A y \in heap' : y.level = x.level => x.seq < y.seq
      <3>1. x.level \in Nat
        <4>1. \A l \in Priorities : l \in Nat
          BY BusAssumption
        <4>2. QED
          BY <1>3, <4>1
      <3>2. SUFFICES ASSUME NEW y \in heap', y.level = x.level PROVE x.seq < y.seq
        OBVIOUS
      <3>3. Before(x, y)
        BY <1>1, <3>2
      <3>4. QED
        BY <3>1, <3>2, <3>3 DEF Before
    <2>3. QED
      BY <1>1, <1>2, <1>3, <1>6, <2>1, <2>2 DEF BusInv, Ahead
  <1>11. Finished'
    BY <1>1, <1>2, <1>6 DEF BusInv, Finished
  <1>12. QED
    BY <1>7, <1>8, <1>9, <1>10, <1>11 DEF BusInv

\* A callback is passed the event in hand: nothing older of its priority waits.
LEMMA CallKeeps ==
  ASSUME BusInv, CallNext
  PROVE  /\ BusInv'
         /\ \A s \in Subscriber, l \in Priorities : seen[s][l] <= seen'[s][l]
  <1> DEFINE n == item[1].seq + 1
             c == Head(rest)
             k == item[1].level
  <1>1. /\ TypeOK
        /\ seen' = [seen EXCEPT ![c][k] = n]
        /\ rest' = Tail(rest) /\ task' \in {"running", "awaiting"}
        /\ UNCHANGED <<heap, nextSeq, unfinished, typed, untyped, cancelled, item,
                       waiter, waitMark>>
    BY DEF CallNext, BusInv
  <1>2. item # <<>> /\ Len(item) = 1
    BY DEF CallNext, BusInv, OneInHand
  <1>3. k \in Priorities /\ item[1].seq \in Nat /\ n \in Nat
    BY <1>2, AtHand
  <1>4. c \in Subscriber /\ rest' \in Seq(Subscriber)
    BY <1>1 DEF CallNext, TypeOK
  <1>5. n <= nextSeq /\ nextSeq \in Nat
    BY <1>1, <1>2, <1>3 DEF BusInv, Numbered, TypeOK
  <1> HIDE DEF n, c, k
  <1>6. /\ seen' \in [Subscriber -> [Priorities -> Nat]]
        /\ \A s \in Subscriber, l \in Priorities :
             seen'[s][l] = IF s = c /\ l = k THEN n ELSE seen[s][l]
    BY <1>1, <1>3, <1>4 DEF TypeOK
  <1>7. TypeOK'
    BY <1>1, <1>4, <1>6 DEF TypeOK
  <1>8. OneInHand' /\ Accounting' /\ Numbered' /\ Finished'
    BY <1>1, <1>2 DEF BusInv, OneInHand, Accounting, Numbered, Finished
  <1>9. Ahead'
    <2>1. \A s \in Subscriber, l \in Priorities : seen'[s][l] <= nextSeq'
      BY <1>1, <1>5, <1>6 DEF BusInv, Ahead
    <2>2. ASSUME NEW s \in Subscriber, NEW x \in heap PROVE seen'[s][x.level] <= x.seq
      <3>1. x.level \in Priorities /\ x.seq \in Nat
        BY AtHand
      <3>2. CASE s = c /\ x.level = k
        <4>1. item[1].seq < x.seq
          BY <1>2, <3>2 DEF BusInv, Ahead, k
        <4>2. n <= x.seq
          BY <1>3, <3>1, <4>1 DEF n
        <4>3. QED
          BY <1>6, <3>1, <3>2, <4>2
      <3>3. CASE ~(s = c /\ x.level = k)
        BY <1>6, <3>1, <3>3 DEF BusInv, Ahead
      <3>4. QED
        BY <3>2, <3>3
    <2>3. ASSUME NEW s \in Subscriber PROVE seen'[s][k] <= n
      <3>1. seen[s][k] <= n
        BY <1>2 DEF BusInv, Ahead, n, k
      <3>2. QED
        BY <1>3, <1>6, <3>1
    <2>4. \A x \in heap : x.level = item[1].level => item[1].seq < x.seq
      BY <1>2 DEF BusInv, Ahead
    <2>5. QED
      BY <1>1, <2>1, <2>2, <2>3, <2>4 DEF Ahead, n, k
  <1>10. \A s \in Subscriber, l \in Priorities : seen[s][l] <= seen'[s][l]
    <2>1. \A s \in Subscriber : seen[s][k] \in Nat /\ seen[s][k] <= n
      BY <1>1, <1>2, <1>3 DEF BusInv, Ahead, TypeOK, n, k
    <2>2. \A s \in Subscriber, l \in Priorities : seen[s][l] \in Nat
      BY <1>1 DEF TypeOK
    <2>3. QED
      BY <1>6, <2>1, <2>2
  <1>11. QED
    BY <1>7, <1>8, <1>9, <1>10 DEF BusInv

\* task_done: whoever it wakes finds the queue empty and nothing in hand.
LEMMA MarkedDone ==
  ASSUME BusInv, item # <<>>, TaskDone, item' = <<>>, rest' \in Seq(Subscriber),
         task' \in {"none", "looping"}, cancelled' \in BOOLEAN,
         UNCHANGED <<heap, nextSeq, typed, untyped, waitMark, seen>>
  PROVE  BusInv'
  <1>1. /\ TypeOK /\ IsFiniteSet(heap) /\ Cardinality(heap) \in Nat
        /\ unfinished = Cardinality(heap) + 1
    BY AtHand
  <1>2. unfinished' = Cardinality(heap) /\ Len(item') = 0 /\ item' \in Seq(Entry)
    BY <1>1 DEF TaskDone
  <1>3. /\ waiter' \in {"no", "waiting", "woken", "returned"}
        /\ waiter' # waiter => unfinished = 1
    BY <1>1 DEF TaskDone, TypeOK
  <1>4. TypeOK'
    BY <1>1, <1>2, <1>3 DEF TypeOK
  <1>5. OneInHand' /\ Accounting'
    BY <1>1, <1>2 DEF OneInHand, Accounting
  <1>6. Numbered' /\ Ahead'
    BY DEF BusInv, Numbered, Ahead
  <1>7. Finished'
    <2>1. CASE waiter' = waiter
      BY <2>1 DEF BusInv, Finished
    <2>2. CASE unfinished = 1
      <3>1. heap = {}
        BY <1>1, <2>2, FS_EmptySet
      <3>2. QED
        BY <3>1 DEF Finished
    <2>3. QED
      BY <1>3, <2>1, <2>2
  <1>8. QED
    BY <1>4, <1>5, <1>6, <1>7 DEF BusInv

\* The end of the task: from get() with nothing in hand, from a subscriber
\* with the event it was passed.
LEMMA EndTaskKeeps ==
  ASSUME BusInv, EndTask
  PROVE  BusInv'
  <1>1. /\ item' = <<>> /\ rest' = <<>> /\ rest' \in Seq(Subscriber)
        /\ task' = "none" /\ cancelled' = FALSE
        /\ UNCHANGED <<heap, nextSeq, typed, untyped, waitMark, seen>>
    BY DEF EndTask
  <1>2. CASE task = "awaiting"
    <2>1. item # <<>> /\ TaskDone
      BY <1>2 DEF EndTask, BusInv, OneInHand
    <2>2. QED
      BY <1>1, <2>1, MarkedDone
  <1>3. CASE task = "waiting"
    <2>1. item = <<>> /\ UNCHANGED <<unfinished, waiter>>
      BY <1>3 DEF EndTask, BusInv, OneInHand
    <2>2. TypeOK'
      BY <1>1, <2>1 DEF BusInv, TypeOK
    <2>3. QED
      BY <1>1, <1>3, <2>1, <2>2, QueueUntouched DEF BusInv, Finished
  <1>4. QED
    BY <1>2, <1>3 DEF EndTask

\* The end of a dispatch, whether the loop goes on or the bus was stopped, keeps the invariant.
LEMMA EndDispatchKeeps ==
  ASSUME BusInv, EndDispatch
  PROVE  BusInv'
  <1>1. /\ item # <<>> /\ TaskDone /\ item' = <<>> /\ task' = "looping"
        /\ rest' = rest /\ cancelled' = cancelled
        /\ UNCHANGED <<heap, nextSeq, typed, untyped, waitMark, seen>>
    BY DEF EndDispatch, BusInv, OneInHand
  <1>2. rest' \in Seq(Subscriber) /\ cancelled' \in BOOLEAN
    BY <1>1 DEF BusInv, TypeOK
  <1>3. QED
    BY <1>1, <1>2, MarkedDone

\* Subscriptions, starts, stops, and suspensions of the dispatcher.
LEMMA OthersKeep ==
  ASSUME BusInv,
         \/ \E s \in Subscriber : SubscribeAll(s)
         \/ \E s \in Subscriber, t \in Type : SubscribeTo(s, t)
         \/ StartBus \/ StopBus \/ GetSuspends \/ Resume
  PROVE  BusInv'
  <1>1. /\ UNCHANGED <<heap, nextSeq, unfinished, item, rest, waiter, waitMark, seen>>
        /\ task' \in {"running", "awaiting"} <=> task \in {"running", "awaiting"}
        /\ task' \in {task, "waiting", "running"} /\ cancelled' \in {cancelled, TRUE}
    BY DEF SubscribeAll, SubscribeTo, StartBus, StopBus, GetSuspends, Resume
  <1>2. typed' \in [Type -> Seq(Subscriber)] /\ untyped' \in Seq(Subscriber)
    <2>1. typed \in [Type -> Seq(Subscriber)] /\ untyped \in Seq(Subscriber)
      BY DEF BusInv, TypeOK
    <2>2. ASSUME NEW s \in Subscriber, SubscribeAll(s)
          PROVE  typed' \in [Type -> Seq(Subscriber)] /\ untyped' \in Seq(Subscriber)
      BY <2>1, <2>2 DEF SubscribeAll
    <2>3. ASSUME NEW s \in Subscriber, NEW t \in Type, SubscribeTo(s, t)
          PROVE  typed' \in [Type -> Seq(Subscriber)] /\ untyped' \in Seq(Subscriber)
      <3>1. Append(typed[t], s) \in Seq(Subscriber)
        BY <2>1
      <3>2. QED
        BY <2>1, <2>3, <3>1 DEF SubscribeTo
    <2>4. CASE StartBus \/ StopBus \/ GetSuspends \/ Resume
      BY <2>1, <2>4 DEF StartBus, StopBus, GetSuspends, Resume
    <2>5. QED
      BY <2>2, <2>3, <2>4
  <1>3. TypeOK'
    BY <1>1, <1>2 DEF BusInv, TypeOK
  <1>4. QED
    BY <1>1, <1>3, QueueUntouched

\* A caller of wait_idle keeps it, for it only looks.
LEMMA WaitersKeep ==
  ASSUME BusInv, WaitIdle \/ WaitReturns
  PROVE  BusInv'
  <1>1. UNCHANGED <<heap, nextSeq, unfinished, item, seen, typed, untyped, task, cancelled, rest>>
    BY DEF WaitIdle, WaitReturns
  <1>2. TypeOK'
    BY DEF BusInv, TypeOK, WaitIdle, WaitReturns
  <1>3. /\ waiter' \in {"woken", "returned"} => waiter \in {"woken", "returned"} \/ unfinished = 0
        /\ waitMark' = waitMark \/ (waitMark' = nextSeq /\ waiter \notin {"woken", "returned"})
    BY DEF WaitIdle, WaitReturns
  <1>4. QED
    BY <1>1, <1>2, <1>3, QueueUntouched

-----------------------------------------------------------------------------
\* Every step keeps the invariant, and no subscriber's history goes back.
LEMMA StepKeeps ==
  ASSUME BusInv, [Next]_vars
  PROVE  /\ BusInv'
         /\ \A s \in Subscriber, l \in Priorities : seen[s][l] <= seen'[s][l]
  <1>1. \A s \in Subscriber, l \in Priorities : seen[s][l] \in Nat
    BY DEF BusInv, TypeOK
  <1>2. ASSUME UNCHANGED seen
        PROVE  \A s \in Subscriber, l \in Priorities : seen[s][l] <= seen'[s][l]
    BY <1>1, <1>2
  <1>3. CASE UNCHANGED vars
    <2>1. BusInv'
      BY <1>3
      DEF BusInv, TypeOK, OneInHand, Accounting, Numbered, Ahead, Finished, vars
    <2>2. QED
      BY <1>2, <1>3, <2>1 DEF vars
  <1>4. CASE \E l \in Priorities, t \in Type : Publish(l, t)
    BY <1>2, <1>4, PublishKeeps DEF Publish
  <1>5. CASE Take
    BY <1>2, <1>5, TakeKeeps DEF Take
  <1>6. CASE CallNext
    BY <1>6, CallKeeps
  <1>7. CASE EndDispatch
    BY <1>2, <1>7, EndDispatchKeeps DEF EndDispatch
  <1>8. CASE EndTask
    <2>1. UNCHANGED seen
      BY <1>8 DEF EndTask
    <2>2. QED
      BY <1>2, <1>8, <2>1, EndTaskKeeps
  <1>9. CASE WaitIdle \/ WaitReturns
    BY <1>2, <1>9, WaitersKeep DEF WaitIdle, WaitReturns
  <1>10. CASE \/ \E s \in Subscriber : SubscribeAll(s)
              \/ \E s \in Subscriber, t \in Type : SubscribeTo(s, t)
              \/ StartBus \/ StopBus \/ GetSuspends \/ Resume
    <2>1. UNCHANGED seen
      BY <1>10
      DEF SubscribeAll, SubscribeTo, StartBus, StopBus, GetSuspends, Resume
    <2>2. QED
      BY <1>2, <1>10, <2>1, OthersKeep
  <1>11. QED
    BY <1>3, <1>4, <1>5, <1>6, <1>7, <1>8, <1>9, <1>10 DEF Next, Dispatcher

\* The inductive invariant: through refused publications, suspended
\* subscribers, cancellations and restarts of the dispatcher.
THEOREM BusInvariance == Spec => []BusInv
  <1>1. BusInv /\ [Next]_vars => BusInv'
    BY StepKeeps
  <1>2. QED
    BY StartsInvariant, <1>1, PTL DEF Spec

\* Every variable of the bus keeps its type; the heap stays finite and the
\* count of unfinished events (EventBus._run, finally) never falls below zero.
THEOREM BusTypes == Spec => []TypeOK
  <1>1. BusInv => TypeOK
    BY DEF BusInv
  <1>2. QED
    BY <1>1, BusInvariance, PTL

\* The count wait_idle joins on is exact for every queue size: one task_done
\* per event taken, whether it was dispatched or cut short by stop().
THEOREM CountIsExact == Spec => []Accounting
  <1>1. BusInv => Accounting
    BY DEF BusInv
  <1>2. QED
    BY <1>1, BusInvariance, PTL

\* wait_idle does not return while an event published before it still waits
\* or is in dispatch.
THEOREM JoinIsHonest == Spec => []JoinHonest
  <1>1. ASSUME BusInv PROVE JoinHonest
    <2>1. item = <<>> \/ DOMAIN item = {1}
      BY <1>1 DEF BusInv, OneInHand, TypeOK
    <2>2. QED
      BY <1>1, <2>1 DEF BusInv, Finished, JoinHonest
  <1>2. QED
    BY <1>1, BusInvariance, PTL

\* publish numbers its tuples and the heap yields the lowest number of a
\* priority first, so no subscriber is ever passed an older event of a
\* priority after a newer one.
THEOREM DeliveryOrder == Spec => InOrder
  <1>1. BusInv /\ [Next]_vars
          => [\A s \in Subscriber, l \in Priorities : seen[s][l] <= seen'[s][l]]_vars
    BY StepKeeps
  <1>2. QED
    BY <1>1, BusInvariance, PTL DEF Spec, InOrder

-----------------------------------------------------------------------------
(* Refinement: the heap, seen per priority in the order of the numbers, is *)
(* the lanes of LaneBus.                                                    *)
\* A sequence has the tuples of a set in the order of their numbers.
Enumerates(q, S) ==
  /\ q \in Seq(S)
  /\ \A x \in S : \E i \in 1..Len(q) : q[i] = x
  /\ \A i, j \in 1..Len(q) : i < j => q[i].seq < q[j].seq

\* There is one such sequence only.
LEMMA OneEnumeration ==
  ASSUME NEW S, \A x \in S : x.seq \in Nat, NEW q, Enumerates(q, S)
  PROVE  IsFiniteSet(S) /\ Cardinality(S) = Len(q) /\ q = InNumberOrder(S)
  <1> DEFINE n == Len(q)
             below(x) == {y \in S : y.seq < x.seq}
  <1>1. n \in Nat /\ q \in [1..n -> S]
    BY DEF Enumerates
  <1>2. \A x \in S : \E i \in 1..n : q[i] = x
    BY DEF Enumerates
  <1>3. \A i, j \in 1..n : q[i].seq < q[j].seq <=> i < j
    <2> TAKE i, j \in 1..n
    <2>1. i < j => q[i].seq < q[j].seq
      BY DEF Enumerates
    <2>2. j < i => q[j].seq < q[i].seq
      BY DEF Enumerates
    <2>3. q[i].seq \in Nat /\ q[j].seq \in Nat
      BY <1>1
    <2> QED BY <2>1, <2>2, <2>3
  <1> HIDE DEF n
  <1>4. \A k \in 0..n : \A T : T = {q[j] : j \in 1..k} => IsFiniteSet(T) /\ Cardinality(T) = k
    <2> TAKE k \in 0..n
    <2> TAKE T
    <2> HAVE T = {q[j] : j \in 1..k}
    <2> DEFINE f == [j \in 1..k |-> q[j]]
    <2>1. IsFiniteSet(1..k) /\ Cardinality(1..k) = k
      <3>1. IsFiniteSet(1..k) /\ Cardinality(1..k) = IF 1 > k THEN 0 ELSE k - 1 + 1
        BY FS_Interval
      <3> QED BY <3>1
    <2>2. f \in Injection(1..k, T) /\ f \in Surjection(1..k, T)
      <3>1. f \in [1..k -> T]
        OBVIOUS
      <3>2. \A i, j \in 1..k : f[i] = f[j] => i = j
        <4> TAKE i, j \in 1..k
        <4> HAVE f[i] = f[j]
        <4>1. i \in 1..n /\ j \in 1..n /\ q[i] = q[j]
          BY <1>1
        <4>2. q[i].seq \in Nat /\ ~(q[i].seq < q[i].seq)
          BY <1>1, <4>1
        <4>3. ~(i < j) /\ ~(j < i)
          BY <1>3, <4>1, <4>2
        <4> QED BY <4>3
      <3>3. \A x \in T : \E j \in 1..k : f[j] = x
        OBVIOUS
      <3> QED BY <3>1, <3>2, <3>3 DEF Injection, Surjection, IsInjective
    <2> HIDE DEF f
    <2> QED BY <2>1, <2>2, FS_Surjection
  <1>5. S = {q[j] : j \in 1..n}
    BY <1>1, <1>2
  <1>6. IsFiniteSet(S) /\ Cardinality(S) = n
    BY <1>1, <1>4, <1>5
  <1>7. \A i \in 1..n : Cardinality(below(q[i])) = i - 1
    <2> TAKE i \in 1..n
    <2>1. below(q[i]) = {q[j] : j \in 1..(i - 1)}
      <3>1. \A x \in below(q[i]) : \E j \in 1..(i - 1) : x = q[j]
        <4> TAKE x \in below(q[i])
        <4>1. PICK j \in 1..n : q[j] = x
          BY <1>2
        <4>2. j < i
          BY <1>3, <4>1
        <4> QED BY <1>1, <4>1, <4>2
      <3>2. \A j \in 1..(i - 1) : q[j] \in below(q[i])
        BY <1>1, <1>3
      <3> QED BY <3>1, <3>2
    <2>2. i - 1 \in 0..n
      BY <1>1
    <2> QED BY <1>4, <2>1, <2>2
  <1>8. \A i \in 1..n : q[i] = CHOOSE x \in S : Cardinality(below(x)) = i - 1
    <2> TAKE i \in 1..n
    <2> DEFINE P(x) == Cardinality(below(x)) = i - 1
    <2>1. q[i] \in S /\ P(q[i])
      BY <1>1, <1>7
    <2>2. \A x \in S : P(x) => x = q[i]
      <3> TAKE x \in S
      <3> HAVE P(x)
      <3>1. PICK j \in 1..n : q[j] = x
        BY <1>2
      <3>2. j - 1 = i - 1
        BY <1>7, <3>1
      <3> QED BY <3>1, <3>2
    <2> HIDE DEF P
    <2>3. q[i] = CHOOSE x \in S : P(x)
      BY <2>1, <2>2
    <2> QED BY <2>3 DEF P
  <1>9. InNumberOrder(S) = [i \in 1..n |-> CHOOSE x \in S : Cardinality(below(x)) = i - 1]
    BY <1>6 DEF InNumberOrder
  <1> HIDE DEF below
  <1>10. q = InNumberOrder(S)
    BY <1>1, <1>8, <1>9
  <1> QED
    BY <1>6, <1>10 DEF n

\* A tuple numbered after all others goes to the end.
LEMMA EnumerationAppended ==
  ASSUME NEW S, NEW q, Enumerates(q, S), NEW e, \A x \in S : x.seq < e.seq
  PROVE  Enumerates(Append(q, e), S \cup {e})
  <1> DEFINE n == Len(q)
             r == Append(q, e)
  <1>1. n \in Nat /\ q \in Seq(S)
    BY DEF Enumerates
  <1>2. Len(r) = n + 1 /\ r[n + 1] = e /\ r \in Seq(S \cup {e})
    BY <1>1
  <1>3. \A i \in 1..n : r[i] = q[i] /\ q[i] \in S
    BY <1>1
  <1> HIDE DEF r
  <1>4. \A x \in S \cup {e} : \E i \in 1..(n + 1) : r[i] = x
    <2>1. \A x \in S : \E i \in 1..n : r[i] = x
      BY <1>3 DEF Enumerates
    <2> QED BY <1>1, <1>2, <2>1
  <1>5. \A i, j \in 1..(n + 1) : i < j => r[i].seq < r[j].seq
    <2> TAKE i, j \in 1..(n + 1)
    <2> HAVE i < j
    <2>1. i \in 1..n
      BY <1>1
    <2>2. CASE j \in 1..n
      BY <1>3, <2>1, <2>2 DEF Enumerates
    <2>3. CASE j = n + 1
      BY <1>2, <1>3, <2>1, <2>3
    <2> QED BY <2>2, <2>3
  <1> QED
    BY <1>2, <1>4, <1>5 DEF Enumerates, r

\* Without the first it is the enumeration of the others.
LEMMA EnumerationTaken ==
  ASSUME NEW S, \A x \in S : x.seq \in Nat, NEW q, Enumerates(q, S), NEW e \in S, \A x \in S : e.seq <= x.seq
  PROVE  q # <<>> /\ Head(q) = e /\ Enumerates(Tail(q), S \ {e})
  <1> DEFINE n == Len(q)
             r == Tail(q)
  <1>1. n \in Nat /\ q \in Seq(S) /\ \A i \in 1..n : q[i] \in S
    BY DEF Enumerates
  <1>2. PICK k \in 1..n : q[k] = e
    BY DEF Enumerates
  <1>3. k = 1
    <2> SUFFICES ASSUME 1 < k PROVE FALSE
      BY <1>2
    <2>1. 1 \in 1..n
      BY <1>1
    <2>2. q[1].seq < e.seq /\ q[1] \in S
      BY <1>1, <1>2, <2>1 DEF Enumerates
    <2> QED BY <2>2
  <1>4. q # <<>> /\ Head(q) = e /\ q[1] = e
    BY <1>1, <1>2, <1>3
  <1>5. Len(r) = n - 1 /\ \A i \in 1..(n - 1) : r[i] = q[i + 1]
    BY <1>1, <1>4
  <1>6. \A i \in 1..(n - 1) : r[i] \in S \ {e}
    <2> TAKE i \in 1..(n - 1)
    <2>1. i + 1 \in 1..n /\ 1 \in 1..n /\ 1 < i + 1
      BY <1>1
    <2>2. e.seq < q[i + 1].seq /\ q[i + 1] \in S
      BY <1>1, <1>4, <2>1 DEF Enumerates
    <2> QED BY <1>5, <2>2
  <1>7. r \in Seq(S \ {e})
    <2>1. r \in Seq(S)
      BY <1>1, <1>4
    <2> HIDE DEF r
    <2>2. r = [i \in 1..(n - 1) |-> r[i]]
      BY <1>5, <2>1
    <2>3. n - 1 \in Nat
      BY <1>1, <1>2
    <2> HIDE DEF r
    <2>4. [i \in 1..(n - 1) |-> r[i]] \in [1..(n - 1) -> S \ {e}]
      BY <1>6
    <2> HIDE DEF n
    <2> QED BY <2>2, <2>3, <2>4
  <1>8. \A x \in S \ {e} : \E i \in 1..(n - 1) : r[i] = x
    <2> TAKE x \in S \ {e}
    <2>1. PICK i \in 1..n : q[i] = x
      BY DEF Enumerates
    <2>2. i # 1
      BY <1>4, <2>1
    <2>3. i - 1 \in 1..(n - 1) /\ (i - 1) + 1 = i
      BY <1>1, <2>2
    <2>4. r[i - 1] = q[i]
      BY <1>5, <2>3
    <2> QED BY <2>1, <2>3, <2>4
  <1>9. \A i, j \in 1..(n - 1) : i < j => r[i].seq < r[j].seq
    <2> TAKE i, j \in 1..(n - 1)
    <2> HAVE i < j
    <2>1. i + 1 \in 1..n /\ j + 1 \in 1..n /\ i + 1 < j + 1
      BY <1>1
    <2> QED BY <1>5, <2>1 DEF Enumerates
  <1> QED
    BY <1>4, <1>5, <1>7, <1>8, <1>9 DEF Enumerates

\* What waits, per level in the order of the numbers, and one number each.
LanesInOrder(h) == \A l \in 0..3 : Enumerates(LanesOf(h)[l], OfLevel(h, l))
Sizes(h) == \A l \in 0..3 : IsFiniteSet(OfLevel(h, l)) /\ Len(LanesOf(h)[l]) = Cardinality(OfLevel(h, l))
Counted(h) == \A x \in h : x.seq \in Nat /\ x.level \in 0..3

\* What a lane of the mapping is.
LEMMA LaneIs == ASSUME NEW h PROVE \A l \in 0..3 : LanesOf(h)[l] = InNumberOrder(OfLevel(h, l))
  BY DEF LanesOf

\* Each lane is as long as there are entries of its level.
LEMMA LaneSizes == ASSUME NEW h, Counted(h), LanesInOrder(h) PROVE Sizes(h)
  <1> SUFFICES ASSUME NEW l \in 0..3
               PROVE  IsFiniteSet(OfLevel(h, l)) /\ Len(LanesOf(h)[l]) = Cardinality(OfLevel(h, l))
    BY DEF Sizes
  <1> DEFINE S == OfLevel(h, l)
             q == LanesOf(h)[l]
  <1>1. \A x \in S : x.seq \in Nat
    BY DEF OfLevel, Counted
  <1>2. Enumerates(q, S)
    BY DEF LanesInOrder
  <1> HIDE DEF S, q
  <1>3. IsFiniteSet(S) /\ Cardinality(S) = Len(q)
    BY <1>1, <1>2, OneEnumeration
  <1> QED
    BY <1>3 DEF S, q

\* The size of two sets that share nothing.
LEMMA DisjointUnion ==
  ASSUME NEW S, NEW T, IsFiniteSet(S), IsFiniteSet(T), S \cap T = {}
  PROVE  IsFiniteSet(S \cup T) /\ Cardinality(S \cup T) = Cardinality(S) + Cardinality(T)
  <1>1. Cardinality(S) \in Nat /\ Cardinality(T) \in Nat
    BY FS_CardinalityType
  <1>2. Cardinality(S \cap T) = 0
    BY FS_EmptySet
  <1>3. /\ IsFiniteSet(S \cup T)
        /\ Cardinality(S \cup T) = Cardinality(S) + Cardinality(T) - Cardinality(S \cap T)
    BY FS_Union
  <1> QED
    BY <1>1, <1>2, <1>3

\* The size of four of them.
LEMMA UnionOfFour ==
  ASSUME NEW A, NEW B, NEW C, NEW D, IsFiniteSet(A), IsFiniteSet(B), IsFiniteSet(C), IsFiniteSet(D),
         A \cap B = {}, (A \cup B) \cap C = {}, (A \cup B \cup C) \cap D = {}
  PROVE  Cardinality(A \cup B \cup C \cup D) = Cardinality(A) + Cardinality(B) + Cardinality(C) + Cardinality(D)
  <1> DEFINE P == A \cup B
             Q == P \cup C
  <1>1. IsFiniteSet(P) /\ Cardinality(P) = Cardinality(A) + Cardinality(B)
    BY DisjointUnion
  <1> HIDE DEF P
  <1>2. IsFiniteSet(Q) /\ Cardinality(Q) = Cardinality(P) + Cardinality(C)
    <2>1. P \cap C = {}
      BY DEF P
    <2> QED BY <1>1, <2>1, DisjointUnion
  <1> HIDE DEF Q
  <1>3. Cardinality(Q \cup D) = Cardinality(Q) + Cardinality(D)
    <2>1. Q \cap D = {}
      BY DEF Q, P
    <2> QED BY <1>2, <2>1, DisjointUnion
  <1> QED
    BY <1>1, <1>2, <1>3 DEF P, Q

\* The levels by their numbers (events/types.py).
LEMMA LevelNames ==
  Lanes!LOW = 0 /\ Lanes!NORMAL = 1 /\ Lanes!HIGH = 2 /\ Lanes!CRITICAL = 3 /\ Lanes!Levels = 0..3
  BY DEF Lanes!LOW, Lanes!NORMAL, Lanes!HIGH, Lanes!CRITICAL, Lanes!Levels

\* As many wait in the lanes as in the heap.
LEMMA AllWait ==
  ASSUME NEW h, Counted(h), Sizes(h)
  PROVE  Lanes!Pending(LanesOf(h)) = Cardinality(h)
  <1> DEFINE W(l) == OfLevel(h, l)
  <1>1. \A l \in 0..3 : IsFiniteSet(W(l)) /\ Len(LanesOf(h)[l]) = Cardinality(W(l))
    BY DEF Sizes
  <1>2. h = W(0) \cup W(1) \cup W(2) \cup W(3)
    BY DEF OfLevel, Counted
  <1>3. W(0) \cap W(1) = {} /\ (W(0) \cup W(1)) \cap W(2) = {} /\ (W(0) \cup W(1) \cup W(2)) \cap W(3) = {}
    BY DEF OfLevel
  <1> HIDE DEF W
  <1>4. IsFiniteSet(W(0)) /\ IsFiniteSet(W(1)) /\ IsFiniteSet(W(2)) /\ IsFiniteSet(W(3))
    BY <1>1
  <1>5. Cardinality(h) = Cardinality(W(0)) + Cardinality(W(1)) + Cardinality(W(2)) + Cardinality(W(3))
    <2>1. Cardinality(W(0) \cup W(1) \cup W(2) \cup W(3))
            = Cardinality(W(0)) + Cardinality(W(1)) + Cardinality(W(2)) + Cardinality(W(3))
      BY <1>3, <1>4, UnionOfFour
    <2> QED BY <1>2, <2>1
  <1>6. Lanes!Pending(LanesOf(h))
          = Len(LanesOf(h)[0]) + Len(LanesOf(h)[1]) + Len(LanesOf(h)[2]) + Len(LanesOf(h)[3])
    BY LevelNames DEF Lanes!Pending
  <1>7. /\ Len(LanesOf(h)[0]) = Cardinality(W(0)) /\ Len(LanesOf(h)[1]) = Cardinality(W(1))
        /\ Len(LanesOf(h)[2]) = Cardinality(W(2)) /\ Len(LanesOf(h)[3]) = Cardinality(W(3))
    BY <1>1
  <1> QED
    BY <1>5, <1>6, <1>7

\* An empty heap is empty lanes.
LEMMA NoLanes == LanesOf({}) = Lanes!NoEvents /\ LanesInOrder({})
  <1>1. Enumerates(<<>>, {})
    BY DEF Enumerates
  <1>2. InNumberOrder({}) = <<>>
    BY <1>1, OneEnumeration
  <1>3. \A l \in 0..3 : OfLevel({}, l) = {}
    BY DEF OfLevel
  <1>4. LanesOf({}) = [l \in 0..3 |-> <<>>]
    BY <1>2, <1>3 DEF LanesOf
  <1> QED
    BY <1>1, <1>3, <1>4, LevelNames DEF Lanes!NoEvents, LanesInOrder

\* A tuple numbered after all that wait is appended to its lane.
LEMMA EnqueueIs ==
  ASSUME NEW h, Counted(h), LanesInOrder(h), NEW e, e.seq \in Nat, e.level \in 0..3, \A x \in h : x.seq < e.seq
  PROVE  LanesInOrder(h \cup {e}) /\ LanesOf(h \cup {e}) = Lanes!Enqueue(LanesOf(h), e.level, e)
  <1> DEFINE g == h \cup {e}
             S(l) == OfLevel(h, l)
             q(l) == LanesOf(h)[l]
  <1>1. ASSUME NEW l \in 0..3, l # e.level PROVE Enumerates(q(l), OfLevel(g, l)) /\ LanesOf(g)[l] = q(l)
    <2>1. OfLevel(g, l) = S(l)
      BY <1>1 DEF OfLevel
    <2> QED BY <2>1, LaneIs DEF LanesInOrder
  <1>2. /\ Enumerates(Append(q(e.level), e), OfLevel(g, e.level))
        /\ LanesOf(g)[e.level] = Append(q(e.level), e)
    <2>1. OfLevel(g, e.level) = S(e.level) \cup {e}
      BY DEF OfLevel
    <2>2. \A x \in S(e.level) : x.seq < e.seq
      BY DEF OfLevel
    <2>3. Enumerates(q(e.level), S(e.level))
      BY DEF LanesInOrder
    <2> HIDE DEF S, q
    <2>4. Enumerates(Append(q(e.level), e), S(e.level) \cup {e})
      BY <2>2, <2>3, EnumerationAppended
    <2>5. \A x \in OfLevel(g, e.level) : x.seq \in Nat
      BY DEF OfLevel, Counted
    <2> HIDE DEF g
    <2>6. Append(q(e.level), e) = InNumberOrder(OfLevel(g, e.level))
      BY <2>1, <2>4, <2>5, OneEnumeration
    <2> QED BY <2>1, <2>4, <2>6, LaneIs
  <1> HIDE DEF g, q
  <1>3. LanesInOrder(g)
    BY <1>1, <1>2 DEF LanesInOrder
  <1>4. LanesOf(g) = [LanesOf(h) EXCEPT ![e.level] = Append(@, e)]
    <2>1. DOMAIN LanesOf(g) = 0..3 /\ DOMAIN LanesOf(h) = 0..3
      BY DEF LanesOf
    <2>2. LanesOf(g) = [l \in 0..3 |-> LanesOf(g)[l]]
      BY DEF LanesOf
    <2> QED BY <1>1, <1>2, <2>1, <2>2 DEF q
  <1> QED
    BY <1>3, <1>4 DEF g, Lanes!Enqueue

\* What is taken from the heap is the first of the highest lane there is.
LEMMA DequeueIs ==
  ASSUME NEW h, Counted(h), LanesInOrder(h), NEW x \in h, \A y \in h \ {x} : Before(x, y)
  PROVE  /\ LanesInOrder(h \ {x})
         /\ Lanes!NextEvent(LanesOf(h)) = x
         /\ LanesOf(h \ {x}) = Lanes!Dequeue(LanesOf(h))
  <1> DEFINE g == h \ {x}
             k == x.level
             S == OfLevel(h, k)
             q == LanesOf(h)[k]
  <1>1. k \in 0..3 /\ x \in S /\ \A y \in S : y.seq \in Nat
    BY DEF Counted, OfLevel
  <1>2. \A y \in S : x.seq <= y.seq
    BY DEF Counted, OfLevel, Before
  <1>3. Enumerates(q, S)
    BY <1>1 DEF LanesInOrder
  <1>4. OfLevel(g, k) = S \ {x}
    BY DEF OfLevel
  <1> HIDE DEF S, q, g
  <1>5. q # <<>> /\ Head(q) = x /\ Enumerates(Tail(q), S \ {x})
    BY <1>1, <1>2, <1>3, EnumerationTaken
  <1>6. LanesOf(g)[k] = Tail(q)
    <2>1. \A y \in S \ {x} : y.seq \in Nat
      BY <1>1
    <2>2. Tail(q) = InNumberOrder(S \ {x})
      BY <1>5, <2>1, OneEnumeration
    <2> QED BY <1>1, <1>4, <2>2, LaneIs
  <1>7. ASSUME NEW l \in 0..3, l # k
        PROVE  LanesOf(g)[l] = LanesOf(h)[l] /\ Enumerates(LanesOf(g)[l], OfLevel(g, l))
    <2>1. OfLevel(g, l) = OfLevel(h, l)
      BY <1>7 DEF OfLevel, g
    <2> QED BY <2>1, LaneIs DEF LanesInOrder
  <1>8. LanesInOrder(g)
    BY <1>4, <1>5, <1>6, <1>7 DEF LanesInOrder
  <1>9. \A l \in 0..3 : l > k => LanesOf(h)[l] = <<>>
    <2> TAKE l \in 0..3
    <2> HAVE l > k
    <2>1. OfLevel(h, l) = {}
      BY <1>1 DEF OfLevel, Before, Counted
    <2>2. Enumerates(LanesOf(h)[l], {})
      BY <2>1 DEF LanesInOrder
    <2> QED BY <2>2 DEF Enumerates
  <1>10. Lanes!Top(LanesOf(h)) = k
    <2> DEFINE P(p) == LanesOf(h)[p] # <<>> /\ \A r \in 0..3 : r > p => LanesOf(h)[r] = <<>>
    <2>1. P(k)
      BY <1>5, <1>9 DEF q
    <2>2. \A p \in 0..3 : P(p) => p = k
      <3> TAKE p \in 0..3
      <3> HAVE P(p)
      <3>1. ~(k > p)
        BY <1>1, <1>5 DEF q
      <3>2. ~(p > k)
        BY <1>9
      <3> QED BY <1>1, <3>1, <3>2
    <2> HIDE DEF P, k
    <2>3. k = CHOOSE p \in 0..3 : P(p)
      BY <1>1, <2>1, <2>2
    <2> QED BY <2>3, LevelNames DEF Lanes!Top, P
  <1>11. Lanes!NextEvent(LanesOf(h)) = x
    BY <1>5, <1>10 DEF Lanes!NextEvent, q
  <1>12. LanesOf(g) = [LanesOf(h) EXCEPT ![k] = Tail(@)]
    <2>1. DOMAIN LanesOf(g) = 0..3 /\ DOMAIN LanesOf(h) = 0..3
      BY DEF LanesOf
    <2>2. LanesOf(g) = [l \in 0..3 |-> LanesOf(g)[l]]
      BY DEF LanesOf
    <2> HIDE DEF k
    <2> QED BY <1>1, <1>6, <1>7, <2>1, <2>2 DEF q
  <1> QED
    BY <1>8, <1>10, <1>11, <1>12 DEF g, Lanes!Dequeue

-----------------------------------------------------------------------------
\* Of the entries of a heap no two have the same number.
LEMMA HeapCounted == ASSUME BusInv PROVE Counted(heap)
  BY AtHand, BusAssumption DEF Counted

\* publish adds an event to its lane, or refuses it and changes nothing.
LEMMA PublishAccepts ==
  ASSUME BusInv, LanesInOrder(heap), NEW l \in Priorities, NEW t \in Type, Publish(l, t)
  PROVE  LanesInOrder(heap)' /\ [Lanes!Next]_<<LanesOf(heap), item>>
  <1> DEFINE e == [level |-> l, seq |-> nextSeq, type |-> t]
             Event == [level : Priorities, seq : 0..MaxSeq, type : Type]
  <1>1. CASE Cardinality(heap) < MaxQueue
    <2>1. heap' = heap \cup {e} /\ item' = item
      BY <1>1 DEF Publish
    <2>2. nextSeq \in Nat /\ nextSeq < MaxSeq /\ MaxSeq \in Nat /\ l \in 0..3
      BY BusAssumption DEF Publish, BusInv, TypeOK
    <2>3. e \in Event /\ e.seq = nextSeq /\ e.level = l
      BY <2>2
    <2>4. \A x \in heap : x.seq < nextSeq
      BY DEF BusInv, Numbered
    <2>5. Counted(heap)
      BY HeapCounted
    <2> HIDE DEF e
    <2>6. LanesInOrder(heap \cup {e}) /\ LanesOf(heap \cup {e}) = Lanes!Enqueue(LanesOf(heap), l, e)
      BY <2>2, <2>3, <2>4, <2>5, EnqueueIs
    <2>7. Lanes!Pending(LanesOf(heap)) < MaxQueue
      BY <1>1, <2>5, AllWait, LaneSizes
    <2>8. LanesOf(heap)' = Lanes!Enqueue(LanesOf(heap), l, e)
      BY <2>1, <2>6
    <2>9. Lanes!Accept(e)
      BY <2>1, <2>3, <2>7, <2>8 DEF Lanes!Accept
    <2>10. Lanes!Next
      BY <2>3, <2>9 DEF Lanes!Next
    <2> QED BY <2>1, <2>6, <2>10
  <1>2. CASE ~(Cardinality(heap) < MaxQueue)
    BY <1>2 DEF Publish
  <1> QED
    BY <1>1, <1>2

\* The dispatcher takes the oldest event of the highest priority.
LEMMA TakeTakesNext ==
  ASSUME BusInv, LanesInOrder(heap), Take
  PROVE  LanesInOrder(heap)' /\ [Lanes!Next]_<<LanesOf(heap), item>>
  <1>1. PICK x \in heap : /\ \A y \in heap \ {x} : Before(x, y)
                          /\ item' = <<x>>
                          /\ heap' = heap \ {x}
    BY DEF Take
  <1>2. Counted(heap) /\ item = <<>> /\ IsFiniteSet(heap)
    BY HeapCounted, AtHand DEF Take, BusInv, OneInHand
  <1>3. /\ LanesInOrder(heap \ {x}) /\ Lanes!NextEvent(LanesOf(heap)) = x
        /\ LanesOf(heap \ {x}) = Lanes!Dequeue(LanesOf(heap))
    BY <1>1, <1>2, DequeueIs
  <1>4. Lanes!Pending(LanesOf(heap)) > 0
    <2>1. Cardinality(heap) # 0 /\ Cardinality(heap) \in Nat
      BY <1>1, <1>2, FS_EmptySet, FS_CardinalityType
    <2>2. Lanes!Pending(LanesOf(heap)) = Cardinality(heap)
      BY <1>2, AllWait, LaneSizes
    <2> QED BY <2>1, <2>2
  <1>5. LanesOf(heap)' = Lanes!Dequeue(LanesOf(heap))
    BY <1>1, <1>3
  <1>6. Lanes!TakeNext
    BY <1>1, <1>2, <1>3, <1>4, <1>5 DEF Lanes!TakeNext
  <1> QED
    BY <1>1, <1>3, <1>6 DEF Lanes!Next

\* All else leaves the lanes alone and at most puts down what is in hand.
LEMMA OthersComplete ==
  ASSUME BusInv, LanesInOrder(heap), UNCHANGED heap, item' = item \/ (item # <<>> /\ item' = <<>>)
  PROVE  LanesInOrder(heap)' /\ [Lanes!Next]_<<LanesOf(heap), item>>
  <1>1. LanesInOrder(heap)' /\ LanesOf(heap)' = LanesOf(heap)
    OBVIOUS
  <1>2. CASE item' = item
    BY <1>1, <1>2
  <1>3. CASE item # <<>> /\ item' = <<>>
    BY <1>1, <1>3 DEF Lanes!Next, Lanes!Complete
  <1> QED
    BY <1>1, <1>2, <1>3

\* Every step of the bus is a step of the lanes or changes nothing of them.
LEMMA StepRefines ==
  ASSUME BusInv, LanesInOrder(heap), [Next]_vars
  PROVE  LanesInOrder(heap)' /\ [Lanes!Next]_<<LanesOf(heap), item>>
  <1>1. CASE \E l \in Priorities, t \in Type : Publish(l, t)
    BY <1>1, PublishAccepts
  <1>2. CASE Take
    BY <1>2, TakeTakesNext
  <1>3. CASE UNCHANGED heap /\ (item' = item \/ (item # <<>> /\ item' = <<>>))
    BY <1>3, OthersComplete
  <1>4. Next => \/ \E l \in Priorities, t \in Type : Publish(l, t)
                \/ Take
                \/ UNCHANGED heap /\ (item' = item \/ item' = <<>>)
    BY DEF Next, Dispatcher, SubscribeAll, SubscribeTo, StartBus, StopBus, GetSuspends, CallNext, Resume,
           EndDispatch, EndTask, WaitIdle, WaitReturns
  <1>5. item' = <<>> => item' = item \/ item # <<>>
    OBVIOUS
  <1> QED
    BY <1>1, <1>2, <1>3, <1>4, <1>5 DEF vars

\* The bus keeps the promise of LaneBus, for every queue size and every number of
\* events: they leave one at a time, the oldest of the highest priority first, and none
\* is accepted while the queue is full (EventBus.publish, EventBus._run).
THEOREM LanesImplemented == Spec => ImplementsLanes
  <1>1. Init => Lanes!Init /\ LanesInOrder(heap)
    BY NoLanes DEF Init, Lanes!Init
  <1>2. BusInv /\ LanesInOrder(heap) /\ [Next]_vars => LanesInOrder(heap)' /\ [Lanes!Next]_<<LanesOf(heap), item>>
    BY StepRefines
  <1> QED
    BY <1>1, <1>2, BusInvariance, PTL DEF Spec, ImplementsLanes, Lanes!Spec
==============================================================================
