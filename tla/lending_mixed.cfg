SPECIFICATION Spec
CONSTANTS
  WAD = 100
  HUNDRED = 10
  U64_MAX = 99
  U128_MAX = 100000
  U192_MAX = 10000000
  SLOTS_PER_YEAR = 1
  STALE_AFTER_SLOTS_ELAPSED = 1
  LIQUIDATION_CLOSE_FACTOR = 5
  LIQUIDATION_CLOSE_AMOUNT = 2
  MintUnits = {1}
  StakingPools = {Pool}
  NoPool = NoPool
  ResA = ResA
  ResB = ResB
  Pool = Pool
  Configs <- AllConfigs
  ConfigsFor <- MixedConfigs
  PricesFor <- MixedPrices
  Reserves = {ResA, ResB}
  MAX_OBLIGATION_RESERVES = 3
  N = 1
  Amounts = {2, 3, 99}
  OracleReserves = {}
  LiquidityTokens = 3
  MaxOverpay = 0
  MaxSlot = 0
PROPERTY ExitLeavesCovered
