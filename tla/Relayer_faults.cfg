SPECIFICATION Spec
CONSTANTS
  w1 = w1 p1 = p1 p2 = p2 t1 = t1 t2 = t2 h1 = h1 h2 = h2 h3 = h3
  Wallet = {w1}
  Permit = {p1}
  Owner <- Solo
  Age <- OnlyAge
  Tick = {t1, t2}
  NSigners = 1
  Hash = {h1, h2}
  MaxAttempts = 2
  MaxPerTick = 1
  MaxPerHour = 1
  MaxCrashes = 1
  Faults = {"store", "reply", "send", "evict"}
SYMMETRY Interchangeable
PROPERTIES ImplementsExitOnce
