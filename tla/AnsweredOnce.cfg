\* The code and its comment differ: AnsweredOnce.
CONSTANTS
  Id = {a, sys}
  Sys = sys
  Nobody = nobody
  MaxStack = 2
  MaxMsgs = 2
  MaxTime = 0
  MaxModal = 1
SPECIFICATION Spec
INVARIANT AnsweredOnce
