\* Four publications of two priorities to two subscribers, one of which
\* suspends; room for two waiting events.
SPECIFICATION Spec
CONSTANTS
  MaxQueue = 2
  Subscriber = {logger, screen}
  Async = {screen}
  Type = {state}
  Priorities = {1, 3}
  MaxSeq = 4
  MaxSubs = 2
INVARIANTS
  TypeOK
  Accounting
  JoinHonest
PROPERTIES
  ImplementsLanes
  JoinReturns
  InOrder
