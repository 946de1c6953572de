SPECIFICATION Spec
CONSTANTS
  NTurns = 2
  Batches <- MCBatches
  Responses <- MCResponses
  MaxRounds = 2
  Threshold = 4
  Keep = 2
  Configs <- MCConfigs
  Faults = {"model", "tool", "compaction"}
  MaxFails = 1
  MaxCrashes = 1
CHECK_DEADLOCK FALSE
INVARIANTS ToldOnce ReplyIsOwn OneTier TranscriptBounded
PROPERTY TurnEnds
