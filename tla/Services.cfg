SPECIFICATION Spec
CONSTANTS
  Nothing = Nothing
  r = r
  q = q
  Request <- Both
  Ceiling = 500
  MTokens = 2
  Drafts <- AllDrafts
  Permit = {"a", "b"}
  PermitNonce <- SharedNonce
  Epoch <- Epochs
  Deadline <- Deadlines
  Grace = 0
  PermitTime = 2
  Account = {"team", "b", "c"}
  Team = "team"
  RefundDeadline = 3
  MaxDonations = 1
  FundTime = 4
  Scenario = {"a", "b"}
  Operator <- Both
  Flight <- Both
  Query = {"q"}
  DrillWindow = 1
  DrillTtl = 1
  PosTtl = 2
  DrillTime = 2
  Key = {"a", "b", "c"}
  Limit = 2
  WindowMs = 3
  MaxKeys = 2
  MinSweep = 1
  LimiterTime = 6
  Linked = {"a", "b"}
  Chat = {"x"}
  Code = {"k", "l"}
  Hook <- Both
  Stamp = {"s"}
  Tick = {1, 2, 3}
  Threshold = 3
  User = {"u"}
  Card = {"c"}
  Slots <- OneCard
  ClaimWindow <- ThreeHours
  Hours = 1
  RetainGrants = 0
  MaxRows = 2
  MaxMints = 2
  TrialTime = 2
  Wallet = {"u"}
  Nonce = {"n"}
  Link = {"l"}
  Browser = {"b"}
  Sid = {"s", "t"}
  Ttl <- ShortLives
  SignInTime = 1
  Market = {"aaveUsdc", "aaveEth", "moon", "comet", "cometEth", "cometBtc", "morpho"}
  ProtocolOf <- Protocols
  DebtToken <- Debts
  CollateralToken <- Collaterals
  Owes <- Owing
  Asset = {"aaveUsdc", "aaveEth", "moon", "eth", "btc", "zero"}
  NoAsset = "zero"
  Usdc = "usdc"
  DeployBps = 9500
  Stray = 1
  Calls <- ExitCalls
  Worlds <- ExitWorlds
  Orders <- LoanOrders
  Premium <- Fees
  LeverWorlds <- LoanWorlds
SYMMETRY Interchangeable
INVARIANTS
  TypeOK ScopeMirrors DeadRowsStayDead RevocationSeen RefundsFunded NoComeback
  BudgetHolds CapacityRecovers StopSticks BlindIsReal SlotsCounted OneTrialPerGrant
  OneProofOneUse TransactionsSettle
CHECK_DEADLOCK FALSE
