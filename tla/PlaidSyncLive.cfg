\* The hourly loop alone follows the provider and catches up with it.
CONSTANTS
  Txn = {t1, t2}
  Content = {a, b}
  Absent = absent
  Hourly = {hourly}
  Event = {}
  Request = {}
  PageSize = 1
  MaxTries = 3
  MaxChanges = 3
  MaxRelinks = 0
  Apart = {}
SPECIFICATION FairSpec
PROPERTIES MirrorsProvider Converges
