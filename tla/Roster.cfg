CONSTANTS
  Friend = {a, b}
  Dialog = {d}
  MaxPosted = 3
SPECIFICATION FairSpec
CHECK_DEADLOCK FALSE
INVARIANTS TypeOK CacheWithinRoster KeptFriendsAreListed
PROPERTIES SendReturns
