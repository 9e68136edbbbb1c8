----------------------------- MODULE EventLanes -----------------------------
(***************************************************************************)
(* The waiting events of the EventBus (events/bus.py) as an abstract data  *)
(* type.  The code keeps a heap of (-priority, sequence number, event)     *)
(* tuples, so events leave by falling priority and, within a priority, in  *)
(* the order they were published: one FIFO lane per priority.  EventBus    *)
(* models the heap itself and is shown to implement these lanes.           *)
(***************************************************************************)
EXTENDS Naturals, Sequences

\* _PRIORITY_ORDER of events/types.py: LOW 0, NORMAL 1, HIGH 2, CRITICAL 3.
LOW == 0
NORMAL == 1
HIGH == 2
CRITICAL == 3
Levels == LOW..CRITICAL

NoEvents == [p \in Levels |-> <<>>]

\* How many events wait, over all lanes: what maxsize bounds.
Pending(lanes) ==
  Len(lanes[LOW]) + Len(lanes[NORMAL]) + Len(lanes[HIGH]) + Len(lanes[CRITICAL])

Enqueue(lanes, p, e) == [lanes EXCEPT ![p] = Append(@, e)]

\* The level the next event is taken from.
Top(lanes) ==
  CHOOSE p \in Levels : lanes[p] # <<>> /\ \A r \in Levels : r > p => lanes[r] = <<>>

NextEvent(lanes) == Head(lanes[Top(lanes)])

Dequeue(lanes) == [lanes EXCEPT ![Top(lanes)] = Tail(@)]
=============================================================================
