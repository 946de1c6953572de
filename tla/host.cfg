SPECIFICATION HostSpec
CONSTANTS
  p = p  q = q  t = t  u = u
  d1 = d1  d2 = d2
  x = x  y = y  range = range
  Scenes = {"ops", "deploy", "egress", "backup"}
  Probes = {p, q}
  Newest = 3
  Blind = 2
  MaxLog = 4
  Traces = {t, u}
  MaxSpans = 4
  FlushAt = 3
  Scenarios <- MCScenarios
  Deploys = {d1, d2}
  MaxTag = 2
  Pins = {2}
  Environments <- MCEnvironments
  Addresses = {x, y}
  Nets = {range}
  Timeout = 3
  MaxSegments = 3
  MaxBases = 2
  MaxStops = 2
CHECK_DEADLOCK FALSE
SYMMETRY MCSymmetry
INVARIANTS TellsEdges VersionsAdvance TracesWhole MigratedOnce SeenIsHeld NoWalGap
PROPERTY DeployIsHonest
