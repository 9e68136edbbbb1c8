---------------------------- MODULE RuntimeProofs ----------------------------
(***************************************************************************)
(* Theorems of RuntimeManager for every queue size and every number of     *)
(* lifespans.  One inductive invariant, IInv, carries them: the types,     *)
(* every event in the lane of its priority, the confirmation gate, and     *)
(* the convergence of the console.                                         *)
(***************************************************************************)
EXTENDS RuntimeManager, Integers, TLAPS

\* Every event waits in the lane of its own priority: a fact of publish that
\* the console's convergence rests on (only ERROR reports overtake).
InOwnLane(q) == \A p \in Levels : \A i \in DOMAIN q[p] : Priority(q[p][i]) = p

\* What a call works on, and keeps.
GoodQueue(q) ==
  /\ q \in [Levels -> Seq(Event)]
  /\ Pending(q) <= MaxQueue
  /\ InOwnLane(q)

CallRecord ==
  {m \in [state : States, queue : [Levels -> Seq(Event)], announced : BOOLEAN,
          raised : {"no", "illegal", "full"}] : GoodQueue(m.queue)}

\* The gate seen from a call: running, paused or reporting RUNNING.
Gated(q, s) ==
  /\ s \in {"RUNNING", "PAUSED"} => confirmed
  /\ \A i \in DOMAIN q[NORMAL] : q[NORMAL][i] = Report("RUNNING") => confirmed

IInv ==
  /\ TypeOK
  /\ InOwnLane(queue)
  /\ OnlyConfirmedRuns
  /\ current = Report("RUNNING") => confirmed
  /\ IsReport(current) => handlersLeft = 0
  /\ ConsoleConverges

-----------------------------------------------------------------------------
\* Lane arithmetic.
USE DEF LOW, NORMAL, HIGH, CRITICAL, LegalTransition

\* The four levels of priority.
LEMMA LevelsAre ==
  /\ Levels = {0, 1, 2, 3}
  /\ 0 \in Levels /\ 1 \in Levels /\ 2 \in Levels /\ 3 \in Levels
  BY DEF Levels

\* Every event has one of them.
LEMMA PriorityIsLevel == \A e \in Event \cup {Nothing} : Priority(e) \in Levels
  BY LevelsAre DEF Priority

\* How the number of waiting events changes when one lane does.
LEMMA PendingChange ==
  ASSUME NEW q \in [Levels -> Seq(Event)], NEW r \in [Levels -> Seq(Event)],
         NEW p \in Levels, \A l \in Levels : l # p => r[l] = q[l]
  PROVE  /\ Pending(q) \in Nat /\ Pending(r) \in Nat
         /\ Pending(r) + Len(q[p]) = Pending(q) + Len(r[p])
  <1> DEFINE a0 == Len(q[0])  b0 == Len(r[0])
             a1 == Len(q[1])  b1 == Len(r[1])
             a2 == Len(q[2])  b2 == Len(r[2])
             a3 == Len(q[3])  b3 == Len(r[3])
             ap == Len(q[p])  bp == Len(r[p])
  <1>1. /\ a0 \in Nat /\ a1 \in Nat /\ a2 \in Nat /\ a3 \in Nat
        /\ b0 \in Nat /\ b1 \in Nat /\ b2 \in Nat /\ b3 \in Nat
    BY LevelsAre
  <1>2. Pending(q) = a0 + a1 + a2 + a3 /\ Pending(r) = b0 + b1 + b2 + b3
    BY DEF Pending
  <1>3. \/ ap = a0 /\ bp = b0 /\ b1 = a1 /\ b2 = a2 /\ b3 = a3
        \/ ap = a1 /\ bp = b1 /\ b0 = a0 /\ b2 = a2 /\ b3 = a3
        \/ ap = a2 /\ bp = b2 /\ b0 = a0 /\ b1 = a1 /\ b3 = a3
        \/ ap = a3 /\ bp = b3 /\ b0 = a0 /\ b1 = a1 /\ b2 = a2
    BY LevelsAre
  <1> HIDE DEF a0, a1, a2, a3, b0, b1, b2, b3, ap, bp
  <1>4. Pending(q) \in Nat /\ Pending(r) \in Nat
    BY <1>1, <1>2
  <1>5. Pending(r) + ap = Pending(q) + bp
    <2>1. CASE ap = a0 /\ bp = b0 /\ b1 = a1 /\ b2 = a2 /\ b3 = a3
      BY <1>1, <1>2, <2>1
    <2>2. CASE ap = a1 /\ bp = b1 /\ b0 = a0 /\ b2 = a2 /\ b3 = a3
      BY <1>1, <1>2, <2>2
    <2>3. CASE ap = a2 /\ bp = b2 /\ b0 = a0 /\ b1 = a1 /\ b3 = a3
      BY <1>1, <1>2, <2>3
    <2>4. CASE ap = a3 /\ bp = b3 /\ b0 = a0 /\ b1 = a1 /\ b2 = a2
      BY <1>1, <1>2, <2>4
    <2>5. QED
      BY <1>3, <2>1, <2>2, <2>3, <2>4
  <1>6. QED
    BY <1>4, <1>5 DEF ap, bp

\* Publishing into a queue with room keeps it well formed.
LEMMA EnqueueGood ==
  ASSUME NEW q, GoodQueue(q), HasRoom(q), NEW e \in Event
  PROVE  GoodQueue(Enqueue(q, Priority(e), e))
  <1> DEFINE p == Priority(e)
             r == Enqueue(q, p, e)
  <1>1. p \in Levels
    BY PriorityIsLevel
  <1>2. q \in [Levels -> Seq(Event)] /\ MaxQueue \in Nat
    BY BoundsAssumption DEF GoodQueue
  <1>3. r \in [Levels -> Seq(Event)]
    BY <1>1, <1>2 DEF Enqueue
  <1>4. r[p] = Append(q[p], e) /\ \A l \in Levels : l # p => r[l] = q[l]
    BY <1>1, <1>2 DEF Enqueue
  <1> HIDE DEF p, r
  <1>5. Len(r[p]) = Len(q[p]) + 1
    BY <1>1, <1>2, <1>4
  <1>7. Pending(q) \in Nat /\ Pending(r) = Pending(q) + 1
    <2> DEFINE a == Len(q[p])  b == Len(r[p])  c == Pending(q)  d == Pending(r)
    <2>1. c \in Nat /\ d \in Nat /\ d + a = c + b
      BY <1>1, <1>2, <1>3, <1>4, PendingChange
    <2>2. a \in Nat /\ b = a + 1
      BY <1>1, <1>2, <1>5
    <2> HIDE DEF a, b, c, d
    <2>3. d = c + 1
      BY <2>1, <2>2
    <2>4. QED
      BY <2>1, <2>3 DEF c, d
  <1>9. InOwnLane(r)
    <2> SUFFICES ASSUME NEW l \in Levels, NEW i \in DOMAIN r[l]
                 PROVE  Priority(r[l][i]) = l
      BY DEF InOwnLane
    <2>1. CASE l # p
      BY <2>1, <1>4 DEF GoodQueue, InOwnLane
    <2>2. CASE l = p /\ i = Len(q[p]) + 1
      BY <2>2, <1>1, <1>2, <1>4 DEF p
    <2>3. CASE l = p /\ i # Len(q[p]) + 1
      <3>1. i \in DOMAIN q[p] /\ r[p][i] = q[p][i]
        BY <2>3, <1>1, <1>2, <1>4
      <3>2. QED
        BY <3>1, <2>3 DEF GoodQueue, InOwnLane
    <2>4. QED
      BY <2>1, <2>2, <2>3
  <1>10. QED
    BY <1>3, <1>7, <1>9, <1>2 DEF GoodQueue, HasRoom, p, r

\* The level taken from: not empty, and nothing waits above it.
LEMMA TopLevel ==
  ASSUME NEW q \in [Levels -> Seq(Event)], Pending(q) > 0
  PROVE  /\ Top(q) \in Levels
         /\ q[Top(q)] # <<>>
         /\ \A r \in Levels : r > Top(q) => q[r] = <<>>
  <1>1. \A l \in Levels : Len(q[l]) \in Nat /\ (q[l] = <<>> <=> Len(q[l]) = 0)
    OBVIOUS
  <1>2. \E l \in Levels : q[l] # <<>>
    BY <1>1, LevelsAre DEF Pending
  <1>3. \E l \in Levels : q[l] # <<>> /\ \A r \in Levels : r > l => q[r] = <<>>
    <2>1. CASE q[3] # <<>>
      BY <2>1, LevelsAre
    <2>2. CASE q[3] = <<>> /\ q[2] # <<>>
      BY <2>2, LevelsAre
    <2>3. CASE q[3] = <<>> /\ q[2] = <<>> /\ q[1] # <<>>
      BY <2>3, LevelsAre
    <2>4. CASE q[3] = <<>> /\ q[2] = <<>> /\ q[1] = <<>>
      BY <2>4, <1>2, LevelsAre
    <2>5. QED
      BY <2>1, <2>2, <2>3, <2>4
  <1>4. QED
    BY <1>3 DEF Top

\* Taking an event: it comes from its own lane and the rest stays well formed.
LEMMA DequeueGood ==
  ASSUME NEW q, GoodQueue(q), Pending(q) > 0
  PROVE  /\ GoodQueue(Dequeue(q))
         /\ NextEvent(q) \in Event
         /\ NextEvent(q) = q[Top(q)][1]
         /\ Priority(NextEvent(q)) = Top(q)
         /\ Dequeue(q)[Top(q)] = Tail(q[Top(q)])
         /\ \A l \in Levels : l # Top(q) => Dequeue(q)[l] = q[l]
  <1> DEFINE t == Top(q)
             r == Dequeue(q)
  <1>1. q \in [Levels -> Seq(Event)] /\ MaxQueue \in Nat
    BY BoundsAssumption DEF GoodQueue
  <1>2. t \in Levels /\ q[t] # <<>>
    BY <1>1, TopLevel
  <1> HIDE DEF t, r
  <1>3. q[t] \in Seq(Event) /\ Len(q[t]) \in Nat \ {0}
    BY <1>1, <1>2
  <1>4. Head(q[t]) = q[t][1] /\ q[t][1] \in Event /\ 1 \in DOMAIN q[t]
    BY <1>3
  <1>5. r[t] = Tail(q[t]) /\ \A l \in Levels : l # t => r[l] = q[l]
    BY <1>1, <1>2 DEF Dequeue, t, r
  <1>6. r \in [Levels -> Seq(Event)]
    BY <1>1, <1>2, <1>3 DEF Dequeue, t, r
  <1>7. Len(r[t]) = Len(q[t]) - 1
    BY <1>3, <1>5
  <1>9. Pending(r) = Pending(q) - 1 /\ Pending(q) \in Nat
    <2> DEFINE a == Len(q[t])  b == Len(r[t])  c == Pending(q)  d == Pending(r)
    <2>1. c \in Nat /\ d \in Nat /\ d + a = c + b
      BY <1>1, <1>2, <1>5, <1>6, PendingChange
    <2>2. a \in Nat /\ b = a - 1
      BY <1>3, <1>7
    <2> HIDE DEF a, b, c, d
    <2>3. d = c - 1
      BY <2>1, <2>2
    <2>4. QED
      BY <2>1, <2>3 DEF c, d
  <1>10. InOwnLane(r)
    <2> SUFFICES ASSUME NEW l \in Levels, NEW i \in DOMAIN r[l]
                 PROVE  Priority(r[l][i]) = l
      BY DEF InOwnLane
    <2>1. CASE l # t
      BY <2>1, <1>5 DEF GoodQueue, InOwnLane
    <2>2. CASE l = t
      <3>1. i + 1 \in DOMAIN q[t] /\ r[t][i] = q[t][i + 1]
        BY <2>2, <1>3, <1>5
      <3>2. QED
        BY <3>1, <2>2 DEF GoodQueue, InOwnLane
    <2>3. QED
      BY <2>1, <2>2
  <1>11. Pending(r) <= MaxQueue
    BY <1>9, <1>1 DEF GoodQueue
  <1>12. Priority(q[t][1]) = t
    BY <1>2, <1>4 DEF GoodQueue, InOwnLane
  <1>13. NextEvent(q) = q[t][1]
    BY <1>4 DEF NextEvent, t
  <1>14. QED
    BY <1>4, <1>5, <1>6, <1>10, <1>11, <1>12, <1>13 DEF GoodQueue, t, r

-----------------------------------------------------------------------------
\* What one move does: nothing, a move with its report queued, or a move whose
\* report a full queue refused.
LEMMA MoveCases ==
  ASSUME NEW m \in CallRecord, NEW target \in States
  PROVE  \/ /\ Move(m, target).state = m.state /\ Move(m, target).queue = m.queue
            /\ Move(m, target).announced = m.announced
            /\ Move(m, target).raised # "no"
         \/ /\ m.state \in TransitionTable[target] /\ m.raised = "no" /\ HasRoom(m.queue)
            /\ Move(m, target) =
                 [state     |-> target,
                  queue     |-> Enqueue(m.queue, Priority(Report(target)), Report(target)),
                  announced |-> TRUE, raised |-> "no"]
         \/ /\ m.state \in TransitionTable[target] /\ m.raised = "no" /\ ~HasRoom(m.queue)
            /\ Move(m, target) =
                 [state |-> target, queue |-> m.queue, announced |-> FALSE, raised |-> "full"]
  BY DEF Move, CallRecord

\* A move works on call records and returns one.
LEMMA MoveKeepsRecord ==
  ASSUME NEW m \in CallRecord, NEW target \in States
  PROVE  Move(m, target) \in CallRecord
  <1>1. Report(target) \in Event
    BY DEF Event
  <1>2. CASE m.raised # "no" \/ m.state \notin TransitionTable[target]
    BY <1>2 DEF Move, CallRecord
  <1>3. CASE m.raised = "no" /\ m.state \in TransitionTable[target] /\ HasRoom(m.queue)
    <2>1. GoodQueue(Enqueue(m.queue, Priority(Report(target)), Report(target)))
      BY <1>1, <1>3, EnqueueGood DEF CallRecord
    <2>2. QED
      BY <1>3, <2>1 DEF Move, CallRecord, GoodQueue
  <1>4. CASE m.raised = "no" /\ m.state \in TransitionTable[target] /\ ~HasRoom(m.queue)
    BY <1>4 DEF Move, CallRecord
  <1>5. QED
    BY <1>2, <1>3, <1>4

\* The gate: only a move to RUNNING needs the confirmation anew, PAUSED is
\* entered from RUNNING only.
LEMMA MoveKeepsGate ==
  ASSUME NEW m \in CallRecord, NEW target \in States, Gated(m.queue, m.state),
         target = "RUNNING" => confirmed
  PROVE  Gated(Move(m, target).queue, Move(m, target).state)
  <1> DEFINE n == Move(m, target)
  <1>1. CASE n.state = m.state /\ n.queue = m.queue
    BY <1>1
  <1>2. CASE m.state \in TransitionTable[target] /\ n.state = target /\ n.queue = m.queue
    BY <1>2 DEF Gated, TransitionTable, States
  <1>3. CASE /\ m.state \in TransitionTable[target] /\ n.state = target
             /\ n.queue = Enqueue(m.queue, Priority(Report(target)), Report(target))
    <2>1. n.state \in {"RUNNING", "PAUSED"} => confirmed
      BY <1>3 DEF Gated, TransitionTable, States
    <2>2. ASSUME NEW i \in DOMAIN n.queue[NORMAL], n.queue[NORMAL][i] = Report("RUNNING")
          PROVE  confirmed
      <3>1. m.queue \in [Levels -> Seq(Event)] /\ Priority(Report(target)) \in Levels
        BY PriorityIsLevel DEF CallRecord, Event
      <3>2. CASE n.queue[NORMAL] = m.queue[NORMAL]
        BY <2>2, <3>2 DEF Gated
      <3>3. CASE n.queue[NORMAL] = Append(m.queue[NORMAL], Report(target))
        <4>1. CASE i = Len(m.queue[NORMAL]) + 1
          <5>1. Report(target) = Report("RUNNING")
            BY <2>2, <3>1, <3>3, <4>1, LevelsAre
          <5>2. QED
            BY <5>1 DEF Report
        <4>2. CASE i # Len(m.queue[NORMAL]) + 1
          <5>1. i \in DOMAIN m.queue[NORMAL] /\ m.queue[NORMAL][i] = Report("RUNNING")
            BY <2>2, <3>1, <3>3, <4>2, LevelsAre
          <5>2. QED
            BY <5>1 DEF Gated
        <4>3. QED
          BY <4>1, <4>2
      <3>4. QED
        BY <1>3, <3>1, <3>2, <3>3, LevelsAre DEF Enqueue
    <2>3. QED
      BY <2>1, <2>2 DEF Gated
  <1>4. QED
    BY <1>1, <1>2, <1>3, MoveCases

\* Convergence, seen from a call.
Converges(m) == m.announced /\ m.state # "ERROR" => WillShow(m.queue, m.state)

\* A move keeps the console's convergence: it is announced, or known not to be.
LEMMA MoveConverges ==
  ASSUME NEW m \in CallRecord, NEW target \in States, Converges(m)
  PROVE  Converges(Move(m, target))
  <1> DEFINE n == Move(m, target)
  <1>1. CASE n.state = m.state /\ n.queue = m.queue /\ n.announced = m.announced
    BY <1>1 DEF Converges
  <1>2. CASE n.announced = FALSE
    BY <1>2 DEF Converges
  <1>3. CASE n.state = "ERROR"
    BY <1>3 DEF Converges
  <1>4. CASE /\ target # "ERROR" /\ n.state = target
             /\ n.queue = Enqueue(m.queue, Priority(Report(target)), Report(target))
    <2>1. Priority(Report(target)) = NORMAL
      BY <1>4 DEF Priority, Report, States
    <2>2. m.queue \in [Levels -> Seq(Event)]
      BY DEF CallRecord
    <2>3. n.queue[NORMAL] = Append(m.queue[NORMAL], Report(target))
      BY <1>4, <2>1, <2>2, LevelsAre DEF Enqueue
    <2> DEFINE k == Len(m.queue[NORMAL]) + 1
    <2>4. /\ k \in DOMAIN n.queue[NORMAL]
          /\ n.queue[NORMAL][k] = Report(target)
          /\ \A j \in DOMAIN n.queue[NORMAL] : ~(j > k)
      BY <2>2, <2>3, LevelsAre
    <2>5. WillShow(n.queue, target)
      BY <2>4 DEF WillShow
    <2>6. QED
      BY <1>4, <2>5 DEF Converges
  <1>5. \/ n.state = m.state /\ n.queue = m.queue /\ n.announced = m.announced
        \/ /\ n.state = target
           /\ n.queue = Enqueue(m.queue, Priority(Report(target)), Report(target))
        \/ n.announced = FALSE
    BY MoveCases
  <1> HIDE DEF n
  <1>6. QED
    BY <1>1, <1>2, <1>3, <1>4, <1>5 DEF n

-----------------------------------------------------------------------------
\* The three facts together, for one move and for the compound calls.
Kept(m) == m \in CallRecord /\ Gated(m.queue, m.state) /\ Converges(m)

\* A move keeps all three facts about a call;
LEMMA MoveKept ==
  ASSUME NEW m, Kept(m), NEW target \in States, target = "RUNNING" => confirmed
  PROVE  Kept(Move(m, target))
  BY MoveKeepsRecord, MoveKeepsGate, MoveConverges DEF Kept

\* so do the calls that are made of one or two moves,
LEMMA CallsKept ==
  ASSUME NEW m, Kept(m)
  PROVE  /\ Kept(StartUp(m)) /\ Kept(ShutDown(m))
         /\ Kept(Move(m, "PAUSED")) /\ Kept(Move(m, "ERROR")) /\ Kept(Move(m, "OFFLINE"))
         /\ confirmed => Kept(Move(m, "RUNNING"))
  <1>1. \A s \in States \ {"RUNNING"} : Kept(Move(m, s))
    BY MoveKept
  <1>2. \A s \in States \ {"RUNNING"} : \A r \in States \ {"RUNNING"} :
          Kept(Move(Move(m, s), r))
    BY <1>1, MoveKept
  <1>3. confirmed => Kept(Move(m, "RUNNING"))
    BY MoveKept DEF States
  <1>4. QED
    BY <1>1, <1>2, <1>3 DEF StartUp, ShutDown, States

\* and the handling of a command from the bus.
LEMMA HandleKept ==
  ASSUME NEW m, Kept(m), NEW e
  PROVE  Kept(Handle(m, e))
  BY CallsKept DEF Handle

\* The invariant, as what the calls keep.
LEMMA HereKept ==
  ASSUME IInv
  PROVE  Kept(Here) /\ Here.state = state /\ Here.queue = queue /\ Here.announced = announced
  <1>1. Here \in [state : States, queue : [Levels -> Seq(Event)], announced : BOOLEAN,
                  raised : {"no", "illegal", "full"}]
    BY DEF IInv, TypeOK, Here
  <1>2. Here.state = state /\ Here.queue = queue /\ Here.announced = announced
    BY DEF Here
  <1>3. GoodQueue(queue)
    BY DEF IInv, TypeOK, GoodQueue
  <1>4. Gated(queue, state)
    BY DEF IInv, OnlyConfirmedRuns, Gated
  <1>5. Converges(Here)
    BY <1>2 DEF IInv, ConsoleConverges, Converges
  <1>6. QED
    BY <1>1, <1>2, <1>3, <1>4, <1>5 DEF Kept, CallRecord

\* An effect of kept facts, with everything else of the invariant untouched.
LEMMA EffectKeeps ==
  ASSUME IInv, NEW m, Kept(m), Effect(m),
         UNCHANGED <<confirmed, binding, attached, serving, current, shown>>,
         handlersLeft' \in 0..attached, IsReport(current) => handlersLeft' = 0
  PROVE  IInv'
  <1>1. m.state \in States /\ m.announced \in BOOLEAN /\ GoodQueue(m.queue)
    BY DEF Kept, CallRecord
  <1>2. TypeOK'
    BY <1>1 DEF IInv, TypeOK, Effect, GoodQueue
  <1>3. InOwnLane(queue)'
    BY <1>1 DEF Effect, GoodQueue, InOwnLane
  <1>4. OnlyConfirmedRuns'
    BY DEF IInv, OnlyConfirmedRuns, Kept, Gated, Effect
  <1>5. ConsoleConverges'
    BY DEF Kept, Converges, ConsoleConverges, Effect, WillShow, NoReports, IsReport
  <1>6. QED
    BY <1>2, <1>3, <1>4, <1>5 DEF IInv, IsReport

\* Init and every step keep the invariant.
LEMMA InitIInv == Init => IInv
  <1> SUFFICES ASSUME Init PROVE IInv
    OBVIOUS
  <1>1. NoEvents \in [Levels -> Seq(Event)] /\ \A l \in Levels : NoEvents[l] = <<>>
    BY DEF NoEvents
  <1>2. Pending(NoEvents) = 0
    BY <1>1, LevelsAre DEF Pending
  <1>3. TypeOK
    <2>1. queue \in [Levels -> Seq(Event)] /\ Pending(queue) <= MaxQueue
      BY <1>1, <1>2, BoundsAssumption DEF Init
    <2>2. attached \in 0..MaxAttach /\ handlersLeft \in 0..attached
      BY BoundsAssumption DEF Init
    <2>3. QED
      BY <2>1, <2>2 DEF Init, TypeOK, States
  <1>4. InOwnLane(queue)
    BY <1>1 DEF Init, InOwnLane
  <1>5. ConsoleConverges
    <2>1. NoReports(queue[NORMAL]) /\ NoReports(queue[CRITICAL])
      BY <1>1, LevelsAre DEF Init, NoReports
    <2>2. ~IsReport(current) /\ shown = "OFFLINE" /\ state = "OFFLINE"
      BY DEF Init, IsReport, Nothing
    <2>3. QED
      BY <2>1, <2>2 DEF ConsoleConverges, WillShow
  <1>6. OnlyConfirmedRuns
    BY <1>1, LevelsAre DEF Init, OnlyConfirmedRuns
  <1>7. QED
    BY <1>3, <1>4, <1>5, <1>6 DEF IInv, Init, Nothing, IsReport, Report

\* One event taken for dispatch: what it will show is unchanged, because an
\* event of a lower lane is taken only when CRITICAL is empty.
LEMMA TakeKeeps ==
  ASSUME IInv, Take
  PROVE  IInv'
  <1> DEFINE t == Top(queue)
  <1>1. GoodQueue(queue) /\ Pending(queue) > 0 /\ queue \in [Levels -> Seq(Event)]
    BY DEF IInv, TypeOK, GoodQueue, Take
  <1>2. /\ GoodQueue(queue') /\ current' \in Event /\ current' = queue[t][1]
        /\ Priority(current') = t /\ queue'[t] = Tail(queue[t])
        /\ \A l \in Levels : l # t => queue'[l] = queue[l]
    BY <1>1, DequeueGood DEF Take
  <1>3. t \in Levels /\ queue[t] # <<>> /\ \A r \in Levels : r > t => queue[r] = <<>>
    BY <1>1, TopLevel
  <1> HIDE DEF t
  <1>4. TypeOK'
    <2>1. attached \in Nat
      BY BoundsAssumption DEF IInv, TypeOK
    <2>2. handlersLeft' \in 0..attached'
      BY <2>1 DEF Take
    <2>3. QED
      BY <1>2, <2>2 DEF IInv, TypeOK, Take, GoodQueue
  <1>5. InOwnLane(queue)'
    BY <1>2 DEF GoodQueue, InOwnLane
  <1>6. queue[t] \in Seq(Event) /\ Len(queue[t]) \in Nat \ {0} /\ 1 \in DOMAIN queue[t]
    BY <1>1, <1>3
  <1>7. \A i \in DOMAIN queue'[t] : i + 1 \in DOMAIN queue[t] /\ queue'[t][i] = queue[t][i + 1]
    BY <1>2, <1>6
  <1>13. \A k \in DOMAIN queue[t] :
           k # 1 => k - 1 \in DOMAIN queue'[t] /\ queue'[t][k - 1] = queue[t][k]
    BY <1>2, <1>6
  <1>8. OnlyConfirmedRuns' /\ (current' = Report("RUNNING") => confirmed')
    <2>1. \A i \in DOMAIN queue'[NORMAL] : queue'[NORMAL][i] = Report("RUNNING") => confirmed
      <3>1. CASE t = NORMAL
        BY <1>7, <3>1 DEF IInv, OnlyConfirmedRuns
      <3>2. CASE t # NORMAL
        BY <1>2, <3>2, LevelsAre DEF IInv, OnlyConfirmedRuns
      <3>3. QED
        BY <3>1, <3>2
    <2>2. current' = Report("RUNNING") => confirmed
      <3>1. SUFFICES ASSUME current' = Report("RUNNING") PROVE confirmed
        OBVIOUS
      <3>2. t = NORMAL
        BY <1>2, <3>1 DEF Priority, Report
      <3>3. QED
        BY <1>2, <1>6, <3>1, <3>2 DEF IInv, OnlyConfirmedRuns
    <2>3. QED
      BY <2>1, <2>2 DEF IInv, OnlyConfirmedRuns, Take
  <1>9. IsReport(current') => handlersLeft' = 0
    BY DEF Take, IsReport
  <1>10. ConsoleConverges'
    <2>1. SUFFICES ASSUME announced, state # "ERROR" PROVE WillShow(queue, state)'
      BY DEF ConsoleConverges, Take
    <2>2. WillShow(queue, state) /\ ~IsReport(current)
      BY <2>1 DEF IInv, ConsoleConverges, Take, Idle, IsReport, Nothing
    <2>3. CASE t = NORMAL
      <3>1. queue'[CRITICAL] = <<>> /\ queue[CRITICAL] = <<>>
        BY <1>2, <1>3, <2>3, LevelsAre
      <3>2. CASE \E i \in DOMAIN queue[NORMAL] :
                   /\ queue[NORMAL][i] = Report(state)
                   /\ \A j \in DOMAIN queue[NORMAL] : j > i => ~IsReport(queue[NORMAL][j])
        <4>1. PICK i \in DOMAIN queue[NORMAL] :
                   /\ queue[NORMAL][i] = Report(state)
                   /\ \A j \in DOMAIN queue[NORMAL] : j > i => ~IsReport(queue[NORMAL][j])
          BY <3>2
        <4>2. i \in Nat \ {0} /\ i <= Len(queue[t])
          BY <1>6, <2>3
        <4>3. CASE i = 1
          <5>1. current' = Report(state)
            BY <1>2, <2>3, <4>1, <4>3
          <5>2. IsReport(current') /\ current'.about = state
            BY <5>1 DEF Report, IsReport, IInv, TypeOK
          <5>3. NoReports(queue'[NORMAL])
            BY <1>7, <2>3, <4>1, <4>3, <1>6, <1>2 DEF NoReports
          <5>4. NoReports(queue'[CRITICAL])
            BY <3>1 DEF NoReports
          <5>5. QED
            BY <5>2, <5>3, <5>4 DEF WillShow, Take
        <4>4. CASE i # 1
          <5>1. i - 1 \in DOMAIN queue'[NORMAL] /\ queue'[NORMAL][i - 1] = Report(state)
            BY <1>13, <2>3, <4>1, <4>4
          <5>2. \A j \in DOMAIN queue'[NORMAL] : j > i - 1 => ~IsReport(queue'[NORMAL][j])
            <6>1. SUFFICES ASSUME NEW j \in DOMAIN queue'[NORMAL], j > i - 1
                           PROVE  ~IsReport(queue'[NORMAL][j])
              OBVIOUS
            <6>2. j + 1 \in DOMAIN queue[NORMAL] /\ queue'[NORMAL][j] = queue[NORMAL][j + 1]
              BY <1>7, <2>3
            <6>3. j \in Nat
              BY <1>2, <1>6, <2>3
            <6>4. j + 1 > i
              BY <4>2, <6>1, <6>3
            <6>5. QED
              BY <4>1, <6>2, <6>4
          <5>3. QED
            BY <5>1, <5>2 DEF WillShow, Take
        <4>5. QED
          BY <4>3, <4>4
      <3>3. CASE NoReports(queue[NORMAL]) /\ state = shown
        <4>1. NoReports(queue'[NORMAL]) /\ ~IsReport(current')
          BY <1>2, <1>6, <1>7, <2>3, <3>3 DEF NoReports
        <4>2. NoReports(queue'[CRITICAL])
          BY <3>1 DEF NoReports
        <4>3. QED
          BY <4>1, <4>2, <3>3 DEF WillShow, Take
      <3>4. QED
        BY <2>2, <3>2, <3>3 DEF WillShow
    <2>4. CASE t # NORMAL
      <3>1. queue'[NORMAL] = queue[NORMAL]
        BY <1>2, <2>4, LevelsAre
      <3>2. CASE \E i \in DOMAIN queue[NORMAL] :
                   /\ queue[NORMAL][i] = Report(state)
                   /\ \A j \in DOMAIN queue[NORMAL] : j > i => ~IsReport(queue[NORMAL][j])
        BY <3>1, <3>2 DEF WillShow, Take
      <3>3. CASE NoReports(queue[NORMAL]) /\ NoReports(queue[CRITICAL]) /\ state = shown
        <4>1. ~IsReport(current')
          <5>1. CASE t = CRITICAL
            BY <1>2, <1>6, <3>3, <5>1 DEF NoReports
          <5>2. CASE t # CRITICAL
            BY <1>2, <2>4, <5>2 DEF Priority, IsReport, States
          <5>3. QED
            BY <5>1, <5>2
        <4>2. NoReports(queue'[CRITICAL])
          <5>1. CASE t = CRITICAL
            BY <1>7, <3>3, <5>1 DEF NoReports
          <5>2. CASE t # CRITICAL
            BY <1>2, <3>3, <5>2, LevelsAre
          <5>3. QED
            BY <5>1, <5>2
        <4>3. QED
          BY <3>1, <3>3, <4>1, <4>2 DEF WillShow, Take
      <3>4. QED
        BY <2>2, <3>2, <3>3 DEF WillShow
    <2>5. QED
      BY <2>3, <2>4
  <1>11. QED
    BY <1>4, <1>5, <1>8, <1>9, <1>10 DEF IInv

\* Publishing anything but a report, in a lane it does not share with one
\* that could be overtaken: the gate and the convergence are untouched.
LEMMA PublishKeeps ==
  ASSUME IInv, Idle, NEW e \in Event, ~IsReport(e), HasRoom(queue),
         queue' = Enqueue(queue, Priority(e), e),
         UNCHANGED <<state, confirmed, announced, bus>>,
         binding' \in {"UNBOUND", "BOUND", "LOST"}
  PROVE  IInv'
  <1> DEFINE p == Priority(e)
             lane == queue[NORMAL]
  <1>1. GoodQueue(queue) /\ queue \in [Levels -> Seq(Event)]
    BY DEF IInv, TypeOK, GoodQueue
  <1>2. GoodQueue(queue')
    BY <1>1, EnqueueGood
  <1>3. p \in {NORMAL, HIGH} /\ p \in Levels
    BY LevelsAre DEF Priority, Event, IsReport, Report, Command, BindLost, States, Commands
  <1>4. /\ queue'[CRITICAL] = queue[CRITICAL]
        /\ queue'[NORMAL] = lane \/ queue'[NORMAL] = Append(lane, e)
    BY <1>1, <1>3, LevelsAre DEF Enqueue
  <1>5. lane \in Seq(Event) /\ Len(lane) \in Nat
    BY <1>1, LevelsAre
  <1>6. \A i \in DOMAIN lane : i \in DOMAIN queue'[NORMAL] /\ queue'[NORMAL][i] = lane[i]
    BY <1>4, <1>5
  <1>7. \A i \in DOMAIN queue'[NORMAL] :
          \/ i \in DOMAIN lane /\ queue'[NORMAL][i] = lane[i]
          \/ queue'[NORMAL][i] = e
    BY <1>4, <1>5
  <1> HIDE DEF lane
  <1>8. TypeOK'
    BY <1>2 DEF IInv, TypeOK, bus, GoodQueue
  <1>9. InOwnLane(queue)'
    BY <1>2 DEF GoodQueue, InOwnLane
  <1>10. OnlyConfirmedRuns'
    <2>1. e # Report("RUNNING")
      BY DEF IsReport, Report, States
    <2>2. \A i \in DOMAIN queue'[NORMAL] : queue'[NORMAL][i] = Report("RUNNING") => confirmed
      BY <1>7, <2>1 DEF IInv, OnlyConfirmedRuns, lane
    <2>3. QED
      BY <2>2 DEF IInv, OnlyConfirmedRuns, bus
  <1>11. ConsoleConverges'
    <2>1. SUFFICES ASSUME announced, state # "ERROR" PROVE WillShow(queue, state)'
      BY DEF ConsoleConverges
    <2>2. WillShow(queue, state)
      BY <2>1 DEF IInv, ConsoleConverges
    <2>3. CASE \E i \in DOMAIN lane :
                 /\ lane[i] = Report(state)
                 /\ \A j \in DOMAIN lane : j > i => ~IsReport(lane[j])
      <3>1. PICK i \in DOMAIN lane :
                 /\ lane[i] = Report(state)
                 /\ \A j \in DOMAIN lane : j > i => ~IsReport(lane[j])
        BY <2>3
      <3>2. \A j \in DOMAIN queue'[NORMAL] : j > i => ~IsReport(queue'[NORMAL][j])
        BY <3>1, <1>7
      <3>3. i \in DOMAIN queue'[NORMAL] /\ queue'[NORMAL][i] = Report(state)
        BY <3>1, <1>6
      <3>4. QED
        BY <3>2, <3>3 DEF WillShow
    <2>4. CASE NoReports(lane) /\ NoReports(queue[CRITICAL]) /\ state = shown
      <3>1. NoReports(queue'[NORMAL])
        BY <2>4, <1>7 DEF NoReports
      <3>2. NoReports(queue'[CRITICAL])
        BY <2>4, <1>4 DEF NoReports
      <3>3. ~IsReport(current')
        BY DEF bus, Idle, IsReport, Nothing
      <3>4. QED
        BY <2>4, <3>1, <3>2, <3>3 DEF WillShow, bus
    <2>5. QED
      BY <2>2, <2>3, <2>4 DEF WillShow, lane, Idle, IsReport, Nothing
  <1>12. QED
    BY <1>8, <1>9, <1>10, <1>11 DEF IInv, bus

\* A step that touches neither the queue, the state nor what is dispatched.
LEMMA BesidesKeeps ==
  ASSUME IInv, UNCHANGED <<state, queue, announced, current, handlersLeft, shown>>,
         confirmed' \in BOOLEAN, confirmed => confirmed',
         binding' \in {"UNBOUND", "BOUND", "LOST"}, serving' \in BOOLEAN,
         attached' \in 0..MaxAttach, handlersLeft \in 0..attached'
  PROVE  IInv'
  BY DEF IInv, TypeOK, OnlyConfirmedRuns, ConsoleConverges, WillShow, NoReports, IsReport,
         InOwnLane

\* The end of a dispatch: a report shown is what WillShow promised of it.
LEMMA ShowKeeps ==
  ASSUME IInv, Show
  PROVE  IInv'
  <1>1. shown' \in States /\ current' = Nothing /\ ~IsReport(current')
    BY DEF IInv, TypeOK, Show, IsReport, Nothing
  <1>2. TypeOK'
    BY <1>1 DEF IInv, TypeOK, Show
  <1>3. shown' = "RUNNING" => confirmed
    <2>1. IsReport(current) /\ current.about = "RUNNING" => current = Report("RUNNING")
      BY DEF IInv, TypeOK, Event, IsReport, Report, Command, BindLost, Nothing
    <2>2. QED
      BY <2>1 DEF IInv, OnlyConfirmedRuns, Show
  <1>4. OnlyConfirmedRuns'
    BY <1>3 DEF IInv, OnlyConfirmedRuns, Show
  <1>5. ConsoleConverges'
    BY <1>1 DEF IInv, ConsoleConverges, WillShow, Show, NoReports, IsReport
  <1>6. QED
    BY <1>1, <1>2, <1>4, <1>5 DEF IInv, InOwnLane, Show, Nothing, Report

\* A call from outside keeps the invariant.
LEMMA CallKeeps ==
  ASSUME IInv, NEW m, Kept(m), Call(m)
  PROVE  IInv'
  <1>1. handlersLeft' \in 0..attached /\ (IsReport(current) => handlersLeft' = 0)
    BY DEF IInv, TypeOK, Call, bus
  <1>2. QED
    BY <1>1, EffectKeeps DEF Call, bus

\* Every step keeps the invariant.
LEMMA StepIInv == IInv /\ [Next]_vars => IInv'
  <1> SUFFICES ASSUME IInv, [Next]_vars PROVE IInv'
    OBVIOUS
  <1>1. /\ Kept(StartUp(Here)) /\ Kept(ShutDown(Here)) /\ Kept(Move(Here, "PAUSED"))
        /\ Kept(Move(Here, "ERROR")) /\ Kept(Move(Here, "OFFLINE"))
        /\ confirmed => Kept(Move(Here, "RUNNING"))
    BY HereKept, CallsKept
  <1>2. handlersLeft \in 0..attached /\ attached \in 0..MaxAttach /\ MaxAttach \in Nat
    BY BoundsAssumption DEF IInv, TypeOK
  <1>3. CASE Start
    BY <1>1, <1>3, CallKeeps DEF Start
  <1>4. CASE Pause
    BY <1>1, <1>4, CallKeeps DEF Pause
  <1>5. CASE Stop
    BY <1>1, <1>5, CallKeeps DEF Stop
  <1>6. CASE Fail
    BY <1>1, <1>6, CallKeeps DEF Fail
  <1>7. CASE Reset
    BY <1>1, <1>7, CallKeeps DEF Reset
  <1>8. ASSUME NEW d \in {"no detector", "finds window", "finds nothing"}, StartAgent(d)
        PROVE  IInv'
    BY <1>1, <1>8, CallKeeps DEF StartAgent
  <1>9. CASE Confirm
    BY <1>2, <1>9, BesidesKeeps DEF Confirm, bus, IInv, TypeOK
  <1>10. CASE BindWindow
    BY <1>2, <1>10, BesidesKeeps DEF BindWindow, bus, IInv, TypeOK
  <1>11. CASE MarkWindowLost
    <2>1. CASE HasRoom(queue)
      <3>1. BindLost \in Event /\ ~IsReport(BindLost)
        BY DEF Event, BindLost, IsReport, States
      <3>2. QED
        BY <1>11, <2>1, <3>1, PublishKeeps DEF MarkWindowLost
    <2>2. CASE ~HasRoom(queue)
      BY <1>2, <1>11, <2>2, BesidesKeeps DEF MarkWindowLost, bus, IInv, TypeOK
    <2>3. QED
      BY <2>1, <2>2
  <1>12. ASSUME NEW c \in Commands, PublishCommand(c)
         PROVE  IInv'
    <2>1. Command(c) \in Event /\ ~IsReport(Command(c))
      BY DEF Event, Command, IsReport
    <2>2. QED
      BY <1>12, <2>1, PublishKeeps DEF PublishCommand, IInv, TypeOK
  <1>13. CASE EnterLifespan
    BY <1>2, <1>13, BesidesKeeps DEF EnterLifespan, IInv, TypeOK
  <1>14. CASE ExitLifespan
    BY <1>2, <1>14, BesidesKeeps DEF ExitLifespan, IInv, TypeOK
  <1>15. CASE Take
    BY <1>15, TakeKeeps
  <1>16. CASE Deliver
    <2>1. Kept(Handle(Here, current))
      BY HereKept, HandleKept
    <2>2. handlersLeft' \in 0..attached /\ ~IsReport(current)
      BY <1>2, <1>16 DEF Deliver, IInv
    <2>3. QED
      BY <1>16, <2>1, <2>2, EffectKeeps DEF Deliver
  <1>17. CASE Show
    BY <1>17, ShowKeeps
  <1>18. CASE UNCHANGED vars
    BY <1>2, <1>18, BesidesKeeps DEF vars, IInv, TypeOK
  <1>19. QED
    BY <1>3, <1>4, <1>5, <1>6, <1>7, <1>8, <1>9, <1>10, <1>11, <1>12, <1>13, <1>14,
       <1>15, <1>16, <1>17, <1>18 DEF Next, Dispatch

-----------------------------------------------------------------------------
\* Every reachable state is well formed and satisfies the whole invariant.
THEOREM Invariance == Spec => []IInv
  BY InitIInv, StepIInv, PTL DEF Spec

\* Type correctness: among it, the queue never holds more events than maxsize
\* (bus.py: put_nowait), whatever calls, commands and failures interleave.
THEOREM TypeCorrect == Spec => []TypeOK
  <1>1. IInv => TypeOK
    BY DEF IInv
  <1>2. QED
    BY <1>1, Invariance, PTL

\* The confirmation gate of start_agent and resume (manager.py) cannot be
\* passed: without confirm() the agent neither runs, is paused, nor is ever
\* reported to run.
THEOREM GateHolds == Spec => []OnlyConfirmedRuns
  <1>1. IInv => OnlyConfirmedRuns
    BY DEF IInv
  <1>2. QED
    BY <1>1, Invariance, PTL

\* The console's picture converges: the last state report still waiting, or
\* the one shown, is that of the state the manager is in, for every queue
\* size and whatever other events wait in between.
THEOREM ConsoleIsRight == Spec => []ConsoleConverges
  <1>1. IInv => ConsoleConverges
    BY DEF IInv
  <1>2. QED
    BY <1>1, Invariance, PTL

-----------------------------------------------------------------------------
\* Where each compound call can leave the state.
LEMMA CallStates ==
  ASSUME NEW m \in CallRecord, m.raised = "no"
  PROVE  /\ IF m.state = "OFFLINE" THEN StartUp(m).state \in {"STARTING", "READY"}
                                   ELSE Settled(StartUp(m)) = Settled(m)
         /\ IF m.state \in {"STARTING", "READY", "RUNNING", "PAUSED"}
            THEN ShutDown(m).state \in {"STOPPING", "OFFLINE"}
            ELSE Settled(ShutDown(m)) = Settled(m)
         /\ \A s \in States :
              IF m.state \in TransitionTable[s] THEN Move(m, s).state = s
                                                ELSE Settled(Move(m, s)) = Settled(m)
  <1>1. m.state \in States /\ m = [state |-> m.state, queue |-> m.queue,
                                   announced |-> m.announced, raised |-> m.raised]
    BY DEF CallRecord
  <1>2. \A s \in States :
          IF m.state \in TransitionTable[s] THEN Move(m, s).state = s
          ELSE Settled(Move(m, s)) = Settled(m) /\ Move(m, s).raised = "illegal"
    BY <1>1 DEF Move, Settled, CallRecord
  <1>3. ASSUME NEW s \in States, NEW r \in States
        PROVE  IF m.state \in TransitionTable[s] THEN Move(Move(m, s), r).state \in {s, r}
               ELSE Settled(Move(Move(m, s), r)) = Settled(m)
    <2> DEFINE n == Move(m, s)
    <2>1. n \in CallRecord
      BY MoveKeepsRecord
    <2>2. Move(n, r).state \in {n.state, r}
      BY <2>1, MoveCases
    <2>3. n.raised # "no" => Move(n, r) = n
      BY DEF Move
    <2> HIDE DEF n
    <2>4. IF m.state \in TransitionTable[s] THEN Move(n, r).state \in {s, r}
          ELSE Settled(Move(n, r)) = Settled(m)
      BY <1>2, <2>2, <2>3 DEF n
    <2>5. QED
      BY <2>4 DEF n
  <1>4. TransitionTable["STARTING"] = {"OFFLINE"}
        /\ TransitionTable["STOPPING"] = {"STARTING", "READY", "RUNNING", "PAUSED"}
    BY DEF TransitionTable
  <1>5. "STARTING" \in States /\ "READY" \in States /\ "STOPPING" \in States
        /\ "OFFLINE" \in States
    BY DEF States
  <1>6. IF m.state = "OFFLINE" THEN StartUp(m).state \in {"STARTING", "READY"}
                               ELSE Settled(StartUp(m)) = Settled(m)
    BY <1>3, <1>4, <1>5 DEF StartUp
  <1>7. IF m.state \in {"STARTING", "READY", "RUNNING", "PAUSED"}
        THEN ShutDown(m).state \in {"STOPPING", "OFFLINE"}
        ELSE Settled(ShutDown(m)) = Settled(m)
    BY <1>3, <1>4, <1>5 DEF ShutDown
  <1>8. QED
    BY <1>2, <1>6, <1>7

\* Handling a command again, from where the first handling left off.
LEMMA HandleTwice ==
  ASSUME NEW m \in CallRecord, m.raised = "no", NEW c \in Commands,
         NEW n \in CallRecord, n.raised = "no",
         Settled(n) = Settled(Handle(m, Command(c)))
  PROVE  Settled(Handle(n, Command(c))) = Settled(n)
  <1>1. n.state = Handle(m, Command(c)).state
    BY DEF Settled
  <1>2. \A x, y : Settled(x) = Settled(y) => x.state = y.state
    BY DEF Settled
  <1>3. TransitionTable["PAUSED"] = {"RUNNING"} /\ "PAUSED" \in States
    BY DEF TransitionTable, States
  <1>4. CASE c = "START"
    <2>1. Handle(m, Command(c)) = StartUp(m) /\ Handle(n, Command(c)) = StartUp(n)
      BY <1>4 DEF Handle, Command
    <2>2. IF m.state = "OFFLINE" THEN StartUp(m).state \in {"STARTING", "READY"}
                                 ELSE StartUp(m).state = m.state
      BY CallStates, <1>2
    <2>3. n.state # "OFFLINE"
      BY <1>1, <2>1, <2>2
    <2>4. Settled(StartUp(n)) = Settled(n)
      BY <2>3, CallStates
    <2>5. QED
      BY <2>1, <2>4
  <1>5. CASE c = "STOP"
    <2>1. Handle(m, Command(c)) = ShutDown(m) /\ Handle(n, Command(c)) = ShutDown(n)
      BY <1>5 DEF Handle, Command
    <2>2. IF m.state \in {"STARTING", "READY", "RUNNING", "PAUSED"}
          THEN ShutDown(m).state \in {"STOPPING", "OFFLINE"}
          ELSE ShutDown(m).state = m.state
      BY CallStates, <1>2
    <2>3. n.state \notin {"STARTING", "READY", "RUNNING", "PAUSED"}
      BY <1>1, <2>1, <2>2
    <2>4. Settled(ShutDown(n)) = Settled(n)
      BY <2>3, CallStates
    <2>5. QED
      BY <2>1, <2>4
  <1>6. CASE c = "PAUSE"
    <2>1. Handle(m, Command(c)) = Move(m, "PAUSED") /\ Handle(n, Command(c)) = Move(n, "PAUSED")
      BY <1>6 DEF Handle, Command
    <2>2. IF m.state = "RUNNING" THEN Move(m, "PAUSED").state = "PAUSED"
                                 ELSE Move(m, "PAUSED").state = m.state
      BY <1>2, <1>3, CallStates
    <2>3. n.state # "RUNNING"
      BY <1>1, <2>1, <2>2
    <2>4. Settled(Move(n, "PAUSED")) = Settled(n)
      BY <1>3, <2>3, CallStates
    <2>5. QED
      BY <2>1, <2>4
  <1>7. CASE c = "GAME_WINDOW_LOST"
    <2>1. \A x : Handle(x, Command(c)) = IF x.state = "RUNNING" THEN Move(x, "PAUSED") ELSE x
      BY <1>7 DEF Handle, Command
    <2>2. m.state = "RUNNING" => Move(m, "PAUSED").state = "PAUSED"
      BY <1>3, CallStates
    <2>3. n.state # "RUNNING"
      BY <1>1, <2>1, <2>2
    <2>4. QED
      BY <2>1, <2>3
  <1>8. QED
    BY <1>4, <1>5, <1>6, <1>7 DEF Commands

\* A second delivery of a command, as after a lifespan entered twice (attach()
\* subscribes again), changes nothing the first has not changed already.
THEOREM SecondDelivery == Spec => []HandlersIdempotent
  <1>1. ASSUME IInv PROVE HandlersIdempotent
    <2>1. SUFFICES ASSUME NEW c \in Commands
                   PROVE  Settled(Handle([Handle(Here, Command(c)) EXCEPT !.raised = "no"],
                                         Command(c)))
                            = Settled(Handle(Here, Command(c)))
      BY DEF HandlersIdempotent
    <2>2. Here \in CallRecord /\ Here.raised = "no" /\ Handle(Here, Command(c)) \in CallRecord
      BY <1>1, HereKept, HandleKept DEF Kept, Here
    <2>3. \A once \in CallRecord :
            /\ [once EXCEPT !.raised = "no"] \in CallRecord
            /\ [once EXCEPT !.raised = "no"].raised = "no"
            /\ Settled([once EXCEPT !.raised = "no"]) = Settled(once)
      BY DEF CallRecord, Settled
    <2> DEFINE once == Handle(Here, Command(c))
               n == [once EXCEPT !.raised = "no"]
    <2>4. n \in CallRecord /\ n.raised = "no" /\ Settled(n) = Settled(once)
      BY <2>2, <2>3
    <2> HIDE DEF n
    <2>5. Settled(Handle(n, Command(c))) = Settled(n)
      BY <2>2, <2>4, HandleTwice
    <2>6. Settled(Handle(n, Command(c))) = Settled(once)
      BY <2>4, <2>5
    <2>7. QED
      BY <2>6 DEF n
  <1>2. QED
    BY <1>1, Invariance, PTL

\* What the handler of an event does is what one of the calls does.
LEMMA HandleIsACall ==
  ASSUME NEW m, NEW e
  PROVE  Handle(m, e) \in {m, StartUp(m), ShutDown(m), Move(m, "PAUSED")}
  BY DEF Handle

\* The manager implements the life cycle of RuntimeLifecycle: whatever calls
\* and dispatched commands interleave, every step is one of its moves.
THEOREM LifecycleImplemented == Spec => ImplementsLifecycle
  <1>1. Init => LifeCycle!Init
    BY DEF Init, LifeCycle!Init
  <1>2. ASSUME IInv, [Next]_vars
        PROVE  [LifeCycle!Next]_state
    <2>1. Here \in CallRecord /\ Here.raised = "no" /\ Here.state = state /\ state \in States
      BY <1>2, HereKept DEF Kept, Here, IInv, TypeOK
    <2>2. ASSUME NEW x, Settled(x) = Settled(Here) PROVE x.state = state
      BY <2>1, <2>2 DEF Settled
    <2>3. ASSUME state' = StartUp(Here).state PROVE [LifeCycle!Next]_state
      <3>1. CASE state = "OFFLINE"
        BY <2>1, <2>3, <3>1, CallStates DEF LifeCycle!Next, LifeCycle!BringUp
      <3>2. CASE state # "OFFLINE"
        BY <2>1, <2>2, <2>3, <3>2, CallStates
      <3>3. QED
        BY <3>1, <3>2
    <2>4. ASSUME state' = ShutDown(Here).state PROVE [LifeCycle!Next]_state
      <3>1. CASE state \in {"STARTING", "READY", "RUNNING", "PAUSED"}
        BY <2>1, <2>4, <3>1, CallStates DEF LifeCycle!Next, LifeCycle!TakeDown
      <3>2. CASE state \notin {"STARTING", "READY", "RUNNING", "PAUSED"}
        BY <2>1, <2>2, <2>4, <3>2, CallStates
      <3>3. QED
        BY <3>1, <3>2
    <2>5. ASSUME NEW s \in {"RUNNING", "PAUSED", "ERROR", "OFFLINE"},
                 state' = Move(Here, s).state
          PROVE  [LifeCycle!Next]_state
      <3>1. s \in States
        BY DEF States
      <3>2. CASE state \in TransitionTable[s]
        <4>1. state' = s
          BY <2>1, <2>5, <3>1, <3>2, CallStates
        <4>2. CASE s = "RUNNING"
          BY <3>2, <4>1, <4>2 DEF TransitionTable, LifeCycle!Next, LifeCycle!Run
        <4>3. CASE s = "PAUSED"
          BY <3>2, <4>1, <4>3 DEF TransitionTable, LifeCycle!Next, LifeCycle!Suspend
        <4>4. CASE s = "ERROR"
          BY <3>2, <4>1, <4>4 DEF TransitionTable, LifeCycle!Next, LifeCycle!BreakDown
        <4>5. CASE s = "OFFLINE"
          BY <3>2, <4>1, <4>5 DEF TransitionTable, LifeCycle!Next, LifeCycle!Recover
        <4>6. QED
          BY <4>2, <4>3, <4>4, <4>5
      <3>3. CASE state \notin TransitionTable[s]
        BY <2>1, <2>2, <2>5, <3>1, <3>3, CallStates
      <3>4. QED
        BY <3>2, <3>3
    <2>6. \A m : Call(m) => state' = m.state
      BY DEF Call, Effect
    <2>7. CASE Start \/ Pause \/ Stop \/ Fail \/ Reset
      BY <2>3, <2>4, <2>5, <2>6, <2>7 DEF Start, Pause, Stop, Fail, Reset
    <2>8. ASSUME NEW d \in {"no detector", "finds window", "finds nothing"}, StartAgent(d)
          PROVE  [LifeCycle!Next]_state
      BY <2>5, <2>6, <2>8 DEF StartAgent
    <2>9. CASE Deliver
      <3>1. state' = Handle(Here, current).state
        BY <2>9 DEF Deliver, Effect
      <3>2. QED
        BY <2>1, <2>3, <2>4, <2>5, <3>1, HandleIsACall
    <2>10. CASE UNCHANGED state
      BY <2>10
    <2>11. QED
      BY <1>2, <2>7, <2>8, <2>9, <2>10
      DEF Next, Dispatch, vars, Confirm, BindWindow, MarkWindowLost, PublishCommand,
          EnterLifespan, ExitLifespan, Take, Show
  <1>3. Spec => LifeCycle!Spec
    BY <1>1, <1>2, Invariance, PTL DEF Spec, LifeCycle!Spec
  <1>4. QED
    BY <1>3 DEF ImplementsLifecycle
=============================================================================
