\* One provider row, two categories, a background and a request sync.
CONSTANTS
  Txn = {t1}
  Provider = {t1}
  Category = {c1, c2}
  Uncategorized = uncategorized
  Nobody = nobody
  Background = {hourly}
  Hourly = {hourly}
  Request = {link}
  Reprocess = reprocess
  Limit = 1
  BatchSize = 1
  Tracking = {TRUE}
  Bulk = 1
SPECIFICATION Spec
INVARIANTS TypeOK DisabledMeansUnstaged UserCategoryKept NoLostWakeup
PROPERTY ImplementsVerdicts
SYMMETRY CategorySymmetry
