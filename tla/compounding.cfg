SPECIFICATION Spec
CONSTANTS
  WAD = 100
  HUNDRED = 10
  U64_MAX = 99
  U128_MAX = 1000000
  U192_MAX = 100000000
  Bases <- UpToFourfold
  MaxSlots = 32
INVARIANT GrowthBracketed FailsOnlyBeyondSquare
PROPERTY WaitingNeverHelps
