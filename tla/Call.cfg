CONSTANTS
  Call = {c1, c2}
  MaxPosted = 2
  MaxModal = 2
SPECIFICATION Spec
SYMMETRY Symmetry
INVARIANTS TypeOK HangUpWorks LiveCallIsShown ShownCallIsLive
