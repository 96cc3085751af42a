SPECIFICATION StakedSpec
CONSTANTS
  WAD = 10
  HUNDRED = 10
  U64_MAX = 99
  U128_MAX = 10000
  U192_MAX = 1000000
  SLOTS_PER_YEAR = 1
  STALE_AFTER_SLOTS_ELAPSED = 1
  LIQUIDATION_CLOSE_FACTOR = 5
  LIQUIDATION_CLOSE_AMOUNT = 2
  MintUnits = {1}
  StakingPools = {Pool}
  NoPool = NoPool
  ResA = ResA
  Pool = Pool
  Configs <- TwoConfigs
  ConfigsFor <- Either
  PricesFor <- SoloPrices
  Reserves = {ResA}
  MAX_OBLIGATION_RESERVES = 3
  N = 1
  Amounts = {1, 2}
  OracleReserves = {}
  LiquidityTokens = 2
  MaxOverpay = 0
  Accounts = {a1, a2}
  OwnerOf <- AllHers
  Keys = {Authority, Admin}
  Authority = Authority
  StakeAmounts = {1}
  Supplies = {2}
  SubSupplies = {0}
  Changes <- LessOne
  SubChanges = {0}
  Extensions <- LessOne
  Durations = {2}
  ClaimTimes = {1}
  Funds = 2
  MaxStake = 2
  MaxDuration = 2
  MaxSlot = 1
SYMMETRY AccountSymmetry
CONSTRAINT Together
INVARIANT StakesFollowCollateral CollateralReleasable
