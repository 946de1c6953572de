SPECIFICATION Spec
CONSTANTS
  v1 = v1  v2 = v2
  Versions = {v1, v2}
  Pinned = v1
  MaxAttempts = 1
  MaxEvents = 4
CHECK_DEADLOCK FALSE
INVARIANTS NeverDeaf OneOfEach
PROPERTIES LogoutIsFinal OutagesEnd
