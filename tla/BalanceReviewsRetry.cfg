\* One wallet or provider account, one call, two values that deviate.
SPECIFICATION FairSpec
CONSTANTS
  Value = {v1, v2}
  Level = {v1}
  Suspect <- Jumps
  Nothing = Nothing
  Sync = {s1}
  RetryWindow = 2
  MaxDate = 2
  MaxChanges = 2
PROPERTY RetriesEnd
