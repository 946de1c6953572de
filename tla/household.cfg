SPECIFICATION Spec
CONSTANTS
  Lanes = {"group", "dm"}
  Within <- MCWithin
  Plans <- MCPlans
  SearchCandidates = 3
  SearchResults = 1
  CatalogKeys = 2
  ListedFacts = 1
  Timeout = 1
  Slack = 2
  Lifetime = 4
  MaxClock = 6
  MaxCrashes = 1
  Spring = 20
  Fall = 60
  Hour = 6
  West = 12
CHECK_DEADLOCK FALSE
INVARIANTS KeysStayApart AnswersComplete TokensAccepted
