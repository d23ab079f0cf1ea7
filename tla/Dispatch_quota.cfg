SPECIFICATION Spec
CONSTANTS
  p1 = p1 p2 = p2 s1 = s1 q1 = q1 q2 = q2
  Day = 4
  Interval <- Digests
  DefaultCooldown = 2
  Sub = {s1}
  Position = {q1, q2}
  Pass = {p1}
  Setting <- OnlyDefault
  Facts <- OnlyPriced
  Bands = {"ELEVATED"}
  Batch = 8
  MaxAttempts = 2
  Faults = {}
  MaxRows = 4
  MaxTime = 3
  MaxCrashes = 0
  MaxFailures = 0
SYMMETRY Interchangeable
INVARIANTS SameSeverityOnce NoDanglingAlarm
