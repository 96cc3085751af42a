SPECIFICATION MarketSpec
CONSTANTS
  WAD = 10
  HUNDRED = 10
  U64_MAX = 99
  U128_MAX = 10000
  U192_MAX = 1000000
  SLOTS_PER_YEAR = 1
  STALE_AFTER_SLOTS_ELAPSED = 1
  LIQUIDATION_CLOSE_FACTOR = 5
  LIQUIDATION_CLOSE_AMOUNT = 2
  MintUnits = {1}
  StakingPools = {}
  NoPool = NoPool
  ResA = ResA
  Configs <- FeeConfigs
  ConfigsFor <- FeeConfigFor
  PricesFor <- NoFixedPrice
  Reserves = {ResA}
  MAX_OBLIGATION_RESERVES = 3
  N = 1
  Amounts = {4, 99}
  OracleReserves = {ResA}
  LiquidityTokens = 5
  MaxOverpay = 1
  MaxSlot = 2
  NoOwner = NoOwner
  Owners = {k1, k2}
  Trading = Trading
  Statuses = {Trading, Halted}
  OraclePrices = {10}
  Exponents <- DownOrNot
  PriceValidFor = 2
  BASE = 10
SYMMETRY OwnerSymmetry
INVARIANT LiquidityBacked MintMatches ValuationRecent
