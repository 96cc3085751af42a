SPECIFICATION Spec
CONSTANTS
  WAD = 4
  HUNDRED = 4
  U64_MAX = 50
  U128_MAX = 1000
  U192_MAX = 10000
  Accounts = {a1}
  Keys = {k1}
  Amounts = {2}
  Supplies = {2}
  SubSupplies = {0}
  Changes <- BackForth
  SubChanges = {0}
  Extensions <- BackForth
  Durations = {2}
  ClaimTimes = {0}
  Funds = 2
  MaxStake = 2
  MaxDuration = 3
  MaxSlot = 3
INVARIANT ScheduleSound PayableUnlessRestarted DepositsReleasable
PROPERTY EarningsKept
