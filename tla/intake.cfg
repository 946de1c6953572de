SPECIFICATION Spec
CONSTANTS
  h1 = h1  s1 = s1  o1 = o1  o2 = o2  r1 = r1  r2 = r2  a = a  b = b
  Household = {h1}
  Stranger = {s1}
  Own = {o1, o2}
  Capacity = 1
  RemOrder <- MCTwo
  Sweeps = {a, b}
  Scenarios <- MCScenarios
  AckKinds = {TRUE, FALSE}
  Faults = {"start", "insert", "send"}
  MaxFails = 1
  MaxCrashes = 1
CHECK_DEADLOCK FALSE
INVARIANTS AckedIsDurable SelfTalkNeedsLostId FiringsKept
PROPERTY DueFires
