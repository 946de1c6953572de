SPECIFICATION Spec
CONSTANTS
  h1 = h1  h2 = h2  h3 = h3  r1 = r1  n1 = n1
  ana = ana  ben = ben
  Human = {h1, h2}
  Reminder = {}
  Notice = {}
  SenderOf <- MCSenderOf
  NoText = NoText
  Faults = {"send"}
  MaxFails = 1
  MaxCrashes = 0
  Routes = {TRUE}
  CommitInOrder = TRUE
  DrainIsRoot = {TRUE}
CHECK_DEADLOCK FALSE
INVARIANT ProcessedWasPresented
