\* One account, three days, two calls at once; three readings, of which two
\* are an ordinary change apart and the third deviates from both.
SPECIFICATION Spec
CONSTANTS
  Value = {v1, v2, v3}
  Level = {v1, v2}
  Suspect <- Jumps
  Nothing = Nothing
  Sync = {s1, s2}
  RetryWindow = 1
  MaxDate = 3
  MaxChanges = 2
SYMMETRY Symmetry
INVARIANTS TypeOK StatesAreQueued Resolvable NoSuspectJump
PROPERTY AskedOnce
