SPECIFICATION FairSpec
CONSTANTS
  WAD = 10
  HUNDRED = 10
  U64_MAX = 50
  U128_MAX = 1000
  U192_MAX = 10000
  Accounts = {a1, a2}
  Keys = {k1}
  Amounts = {1}
  Supplies = {2}
  SubSupplies = {0, 1}
  Changes = {}
  SubChanges = {}
  Extensions = {}
  Durations = {2}
  ClaimTimes = {2, 5}
  Funds = 2
  MaxStake = 2
  MaxDuration = 2
  MaxSlot = 3
INVARIANT TypeOK PoolSizeIsSum PayableUnlessRestarted
PROPERTY EarningsKept EarningsPaid
