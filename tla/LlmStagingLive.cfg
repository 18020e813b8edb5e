\* One row, one category: every staged row is resolved.
CONSTANTS
  Txn = {t1}
  Provider = {t1}
  Category = {c1}
  Uncategorized = uncategorized
  Nobody = nobody
  Background = {hourly}
  Hourly = {hourly}
  Request = {}
  Reprocess = reprocess
  Limit = 1
  BatchSize = 1
  Tracking = {TRUE, FALSE}
  Bulk = 1
SPECIFICATION FairSpec
PROPERTIES StagedIsResolved
