CONSTANTS
  Files = 2
  MaxVersion = 2
SPECIFICATION Spec
INVARIANTS TypeOK UpToDateIsInstalled
