SPECIFICATION Spec
CONSTANTS
  h1 = h1  h2 = h2  h3 = h3  r1 = r1  n1 = n1
  ana = ana  ben = ben
  Human = {h1}
  Reminder = {r1}
  Notice = {}
  SenderOf <- MCSenderOf
  NoText = NoText
  Faults = {"model", "compaction", "send", "db"}
  MaxFails = 1
  MaxCrashes = 1
  Routes = {TRUE, FALSE}
  CommitInOrder = FALSE
  DrainIsRoot = {TRUE, FALSE}
CHECK_DEADLOCK FALSE
PROPERTY EnqueueDrainsInbox
