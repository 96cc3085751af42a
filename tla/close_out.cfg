SPECIFICATION Spec
CONSTANTS
  WAD = 10
  HUNDRED = 10
  U64_MAX = 99
  U128_MAX = 10000
  U192_MAX = 1000000
  SLOTS_PER_YEAR = 1
  STALE_AFTER_SLOTS_ELAPSED = 1
  LIQUIDATION_CLOSE_FACTOR = 5
  LIQUIDATION_CLOSE_AMOUNT = 2
  MintUnits = {1}
  StakingPools = {Pool}
  NoPool = NoPool
  ResA = ResA
  ResB = ResB
  Pool = Pool
  Configs <- AllConfigs
  ConfigsFor <- LentConfigs
  PricesFor <- RisePrices
  Reserves = {ResA, ResB}
  MAX_OBLIGATION_RESERVES = 2
  N = 1
  Amounts = {1, 3, 99}
  OracleReserves = {ResB}
  LiquidityTokens = 4
  MaxOverpay = 0
  MaxSlot = 0
PROPERTY DefaultOnlyWhenDepleted
