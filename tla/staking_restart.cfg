SPECIFICATION Spec
CONSTANTS
  WAD = 10
  HUNDRED = 10
  U64_MAX = 50
  U128_MAX = 1000
  U192_MAX = 10000
  Accounts = {a1, a2}
  Keys = {k1}
  Amounts = {1, 2}
  Supplies = {2}
  SubSupplies = {0}
  Changes = {}
  SubChanges = {}
  Extensions = {}
  Durations = {2}
  ClaimTimes = {0}
  Funds = 4
  MaxStake = 3
  MaxDuration = 3
  MaxSlot = 3
SYMMETRY Symmetry
INVARIANT AlwaysPayable
