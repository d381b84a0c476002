\* Three iterators of one stream.
SPECIFICATION FairSpec
CONSTANTS
  c1 = c1
  c2 = c2
  c3 = c3
  Consumers <- ThreeConsumers
  MaxEvents = 4
CHECK_DEADLOCK FALSE
INVARIANT Delivery
PROPERTY IterationsEnd
