SPECIFICATION Spec
CONSTANTS
  WAD = 10
  HUNDRED = 10
  U64_MAX = 50
  U128_MAX = 1000
  U192_MAX = 10000
  Accounts = {a1}
  Keys = {k1, k2}
  Amounts = {2}
  Supplies = {2}
  SubSupplies = {0, 2}
  Changes <- UpDown
  SubChanges <- SubUpDown
  Extensions = {}
  Durations = {2}
  ClaimTimes = {0, 1}
  Funds = 4
  MaxStake = 2
  MaxDuration = 3
  MaxSlot = 1
INVARIANT StartRateReached PayableUnlessRestarted
