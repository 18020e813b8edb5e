\* The event loop and a request; the item may be linked again.
CONSTANTS
  Txn = {t1, t2}
  Content = {a}
  Absent = absent
  Hourly = {}
  Event = {event}
  Request = {link}
  PageSize = 1
  MaxTries = 2
  MaxChanges = 2
  MaxRelinks = 1
  Apart = {t1, t2}
SPECIFICATION Spec
INVARIANTS TypeOK NothingMissed OneVersion HiddenFollowsAccount
SYMMETRY TxnSymmetry
