SPECIFICATION Spec
CONSTANTS
  t1 = t1  t2 = t2
  NoTab = NoTab
  Scenarios = {"door", "throttle", "reads", "status"}
  AllTabs = {t1, t2}
  FirstTab = t1
  MaxClock <- MCClock
  MaxToken = 3
  MaxLosses = 1
  MaxFailures = 2
  Window = 2
  Lockout = 2
  Ttl = 1
  FailureTtl = 1
  MaxPages = 2
  PageTimeout = 1
  StatusTtl = 1
  ProbeTimeout = 1
  MaxActs <- MCActs
  RouteWindow = 3
  StreakMax = 2
  SlowAfter = 5
  NoDay = NoDay
  Month <- MCMonth
  ChartDays = 3
CHECK_DEADLOCK FALSE
INVARIANTS LockedByGuesses AnswersAreFresh
PROPERTIES SessionEndsForAReason ConsoleComes
