\* Three calls on two files, one of them known by two paths.
SPECIFICATION MutationsFairSpec
CONSTANTS
  o1 = o1
  o2 = o2
  o3 = o3
  link = link
  file = file
  other = other
  NoOp = NoOp
  Ops <- ThreeOps
  Paths <- AllPaths
  Real <- AllReal
  MaxChanges = 1
CHECK_DEADLOCK FALSE
INVARIANTS TailIsNewest FirstComeFirstServed
PROPERTY CallsEnd
