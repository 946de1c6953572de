SPECIFICATION Spec
CONSTANTS
  a1 = a1  a2 = a2
  three = three  four = four  five = five
  NoAction = NoAction
  Actions = {a1}
  Args = {three, five}
  OwnerOf <- MCOwnerOf
  MaxMessages = 3
  MaxFails = 1
  MaxCrashes = 1
CHECK_DEADLOCK FALSE
INVARIANTS EffectOnce PromptedWhenCalm AnnouncedIsHeld
PROPERTY PendingEnds
