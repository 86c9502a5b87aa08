CONSTANTS
  Call = {c1}
  MaxPosted = 2
  MaxModal = 1
SPECIFICATION Spec
CHECK_DEADLOCK FALSE
INVARIANTS HungUpAgain
