SPECIFICATION FairSpec
CONSTANTS
  w1 = w1 p1 = p1 p2 = p2
  Wallet = {w1}
  Profile <- Profiles
  Level <- Levels
  Status <- Statuses
  StatusOf <- Thresholds
  Moderate = "moderate"
  Pass = {p1, p2}
  ConfirmTicks = 2
  MaxMoves = 2
  MaxLost = 1
  MaxCrashes = 1
INVARIANTS TypeOK RebootTransparent
PROPERTIES LogConnected Debounced AlertsLogged
