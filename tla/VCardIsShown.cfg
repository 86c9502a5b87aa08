CONSTANTS
  Friend = {a}
  Dialog = {d}
  MaxPosted = 1
SPECIFICATION FairSpec
CHECK_DEADLOCK FALSE
PROPERTIES VCardIsShown
