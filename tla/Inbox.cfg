\* A friend and the system account, three messages in two seconds, a box.
CONSTANTS
  Id = {a, sys}
  Sys = sys
  Nobody = nobody
  MaxStack = 3
  MaxMsgs = 3
  MaxTime = 1
  MaxModal = 1
SPECIFICATION FairSpec
INVARIANTS
  TypeOK
  ShownInOrderOnce
  UnreadHasBubble
  HeldMessagesLive
PROPERTIES
  ShownOnceOrLost
  LosesAtMostTheOneInFlight
  FlashesUntilRead
  AnnouncedInTheEnd
