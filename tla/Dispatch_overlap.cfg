SPECIFICATION Spec
CONSTANTS
  p1 = p1 p2 = p2 s1 = s1 q1 = q1 q2 = q2
  Day = 4
  Interval <- Digests
  DefaultCooldown = 2
  Sub = {s1}
  Position = {q1}
  Pass = {p1, p2}
  Setting <- OnlyHourly
  Facts <- OnlyPriced
  Bands = {"ELEVATED"}
  Batch = 8
  MaxAttempts = 2
  Faults = {"refuse"}
  MaxRows = 2
  MaxTime = 1
  MaxCrashes = 1
  MaxFailures = 1
SYMMETRY Interchangeable
INVARIANTS SendsBounded DigestNotCritical LedgerTruthful
