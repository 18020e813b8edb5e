\* A hold and the transaction it settles as; two calls; windows of two days.
CONSTANTS
  h1 = h1
  t1 = t1
  Txn = {h1, t1}
  Hold = {h1}
  Settles <- HoldSettles
  Caller = {c1, c2}
  Overlap = 2
  Lookback = 3
  Lag = 1
  Lasts = 1
  Never = never
  MaxDay = 3
  MaxResets = 1
SPECIFICATION Spec
INVARIANTS TypeOK NotTwice MissingIsAhead
PROPERTIES PostedIsKept
SYMMETRY CallerSymmetry
