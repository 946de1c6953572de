SPECIFICATION Spec
CONSTANTS
  a1 = a1  a2 = a2
  three = three  four = four  five = five
  NoAction = NoAction
  Actions = {a1, a2}
  Args = {three, four}
  OwnerOf <- MCOwnerOf
  MaxMessages = 3
  MaxFails = 0
  MaxCrashes = 0
CHECK_DEADLOCK FALSE
SYMMETRY MCSymmetry
INVARIANTS ExecutedOnce ExecutedAsAgreed
PROPERTY SettledIsFinal
