SPECIFICATION Spec
CONSTANTS
  a = a b = b s1 = s1 s2 = s2
  Wallet = {a, b}
  Owner = {a, b}
  Session = {s1, s2}
  Rank = {1, 2}
  Request <- FewerWishes
  WatchlistMax = 1
  Nobody = Nobody
SYMMETRY Mirror
INVARIANTS TypeOK CapHolds
PROPERTY Heals
