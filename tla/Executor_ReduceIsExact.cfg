SPECIFICATION Spec
CONSTANTS
  Ceiling = 500
  Market = {"comet", "cometEth", "morpho"}
  ProtocolOf <- Protocols
  DebtToken <- Debts
  CollateralToken <- Collaterals
  Owes <- Owing
  NoAsset = "zero"
  Usdc = "usdc"
  Calls <- ReduceCalls
  Worlds <- ReduceWorlds
  None = None
  DeployBps = 9500
  MTokens = 2
  Stray = 1
INVARIANT ReduceIsExact
CHECK_DEADLOCK FALSE
