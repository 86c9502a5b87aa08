\* Three accounts, up to four items on the stack.
CONSTANTS
  Id = {a, b, c}
  MaxStack = 4
SPECIFICATION TraySpec
SYMMETRY Symmetric
INVARIANTS
  TrayTypeOK
  FlashesWhileStacked
  IconIsRestored
