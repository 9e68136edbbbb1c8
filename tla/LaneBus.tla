------------------------------- MODULE LaneBus -------------------------------
(***************************************************************************)
(* What the bus promises about the order of events: they are taken one at  *)
(* a time, always the oldest of the highest priority waiting; none is      *)
(* accepted while MaxQueue events wait.                                    *)
(***************************************************************************)
EXTENDS EventLanes

CONSTANTS MaxQueue, Event, Level(_)

VARIABLES
  lanes,   \* the waiting events, a FIFO per priority
  inHand   \* the event being dispatched: a sequence of at most one

Init == lanes = NoEvents /\ inHand = <<>>

Accept(e) ==
  /\ Pending(lanes) < MaxQueue
  /\ lanes' = Enqueue(lanes, Level(e), e)
  /\ UNCHANGED inHand

TakeNext ==
  /\ inHand = <<>> /\ Pending(lanes) > 0
  /\ inHand' = <<NextEvent(lanes)>>
  /\ lanes' = Dequeue(lanes)

Complete == inHand # <<>> /\ inHand' = <<>> /\ UNCHANGED lanes

Next == (\E e \in Event : Accept(e)) \/ TakeNext \/ Complete

Spec == Init /\ [][Next]_<<lanes, inHand>>
=============================================================================
